------------------------- MODULE SingleServicesProofs -------------------------
(***************************************************************************)
(* Proofs about the services that are there once, each by itself, for any  *)
(* bounds.  An invariant is found and proved for each, and from it follow  *)
(* the types and the properties that Services states of it.                *)
(***************************************************************************)
EXTENDS SingleServices, Integers, Sequences, SequenceTheorems, FiniteSetTheorems, TLAPS

-----------------------------------------------------------------------------
(* GitHub issues.  First what the code does with the list of issues: it     *)
(* reads it page by page, and puts new issues in front.  Then the invariant: *)
(* a check that read some pages of the list has not missed the issue of its  *)
(* title, unless another check of the title or a person came between.        *)

\* A set of natural numbers has a least element.
LEMMA FirstOfSome ==
  ASSUME NEW L \in Nat, NEW S \in SUBSET (1..L), S # {}
  PROVE  \E m \in S : \A k \in S : m <= k
<1>. DEFINE R == {p \in Nat \X Nat : p[1] < p[2]}
<1>1. S \subseteq Nat
  OBVIOUS
<1>2. IsWellFoundedOn(R, Nat)
  BY NatLessThanWellFounded DEF OpToRel
<1>3. \A k, m \in Nat : <<k, m>> \in R <=> k < m
  OBVIOUS
<1>. HIDE DEF R
<1>4. PICK m \in S : \A k \in S : ~ (<<k, m>> \in R)
  BY <1>1, <1>2, WFMin
<1>5. \A k \in S : k \in Nat /\ ~ (k < m)
  BY <1>1, <1>3, <1>4
<1>6. m \in Nat
  BY <1>1
<1>7. \A k \in S : m <= k
  BY <1>5, <1>6
<1>. QED  BY <1>7

\* Part of a sequence, one more in front, and one left out.
LEMMA Paged ==
  ASSUME NEW S, NEW s \in Seq(S), NEW a \in Nat, NEW b \in Nat, b <= Len(s)
  PROVE  /\ SubSeq(s, a + 1, b) \in Seq(S)
         /\ Len(SubSeq(s, a + 1, b)) = IF a <= b THEN b - a ELSE 0
         /\ \A k \in 1..(b - a) : SubSeq(s, a + 1, b)[k] = s[k + a]
<1>1. CASE a < b
  BY <1>1
<1>2. CASE a >= b
  BY <1>2
<1>. QED  BY <1>1, <1>2

LEMMA Added ==
  ASSUME NEW S, NEW s \in Seq(S), NEW e \in S, NEW t, t = <<e>> \o s
  PROVE  /\ t \in Seq(S) /\ Len(t) = Len(s) + 1 /\ t[1] = e
         /\ \A k \in 1..Len(s) : t[k + 1] = s[k]
         /\ \A k \in 2..Len(t) : k - 1 \in 1..Len(s) /\ t[k] = s[k - 1]
OBVIOUS

LEMMA Removed ==
  ASSUME NEW S, NEW s \in Seq(S), NEW m \in 1..Len(s)
  PROVE  \E t \in Seq(S) :
             /\ t = SubSeq(s, 1, m - 1) \o SubSeq(s, m + 1, Len(s))
             /\ Len(t) = Len(s) - 1
             /\ \A k \in 1..Len(t) : t[k] = IF k < m THEN s[k] ELSE s[k + 1]
<1>. DEFINE a == SubSeq(s, 1, m - 1)
            b == SubSeq(s, m + 1, Len(s))
<1>1. m \in Nat /\ m >= 1 /\ Len(s) \in Nat /\ m <= Len(s)
  OBVIOUS
<1>2. a \in Seq(S) /\ Len(a) = m - 1
  OBVIOUS
<1>3. \A k \in 1..(m - 1) : a[k] = s[k]
  OBVIOUS
<1>4. b \in Seq(S) /\ Len(b) = Len(s) - m
  OBVIOUS
<1>5. \A k \in 1..(Len(s) - m) : b[k] = s[k + m]
  OBVIOUS
<1>. HIDE DEF a, b
<1>6. PICK t \in Seq(S) :
          /\ t = a \o b /\ Len(t) = Len(a) + Len(b)
          /\ \A k \in 1..Len(a) : t[k] = a[k]
          /\ \A k \in 1..Len(b) : t[k + Len(a)] = b[k]
  <2>1. a \o b \in Seq(S)
    BY <1>2, <1>4
  <2>2. Len(a \o b) = Len(a) + Len(b)
    BY <1>2, <1>4
  <2>3. \A k \in 1..Len(a) : (a \o b)[k] = a[k]
    BY <1>2, <1>4
  <2>4. ASSUME NEW k \in 1..Len(b) PROVE (a \o b)[k + Len(a)] = b[k]
    <3>1. Len(a) \in Nat /\ Len(b) \in Nat /\ a \in Seq(S) /\ b \in Seq(S)
      BY <1>2, <1>4
    <3>2. k + Len(a) \in 1..(Len(a) + Len(b)) /\ k + Len(a) > Len(a) /\ (k + Len(a)) - Len(a) = k
      BY <3>1
    <3>. QED  BY <3>1, <3>2
  <2>. QED  BY <2>1, <2>2, <2>3, <2>4, Zenon
<1>7. Len(t) = Len(a) + Len(b)
  BY <1>6
<1>8. Len(t) = Len(s) - 1
  BY <1>1, <1>2, <1>4, <1>7
<1>9. ASSUME NEW k \in 1..Len(t) PROVE t[k] = IF k < m THEN s[k] ELSE s[k + 1]
  <2>1. k \in Nat /\ k >= 1 /\ k <= Len(s) - 1
    BY <1>1, <1>8
  <2>2. CASE k < m
    <3>1. k \in 1..(m - 1)
      BY <1>1, <2>1, <2>2
    <3>. QED  BY <1>2, <1>3, <1>6, <2>2, <3>1
  <2>3. CASE k >= m
    <3>1. PICK j \in Int : j = k - (m - 1)
      BY <1>1, <2>1
    <3>2. j \in 1..(Len(s) - m) /\ j + (m - 1) = k /\ j + m = k + 1
      BY <1>1, <2>1, <2>3, <3>1
    <3>3. t[j + (m - 1)] = b[j]
      BY <1>2, <1>4, <1>6, <3>2
    <3>4. b[j] = s[j + m]
      BY <1>5, <3>2
    <3>. QED  BY <1>1, <2>1, <2>3, <3>2, <3>3, <3>4
  <2>. QED  BY <1>1, <2>1, <2>2, <2>3
<1>. QED  BY <1>6, <1>8, <1>9, Zenon DEF a, b

LEMMA PlacesOfPages ==
  ASSUME Monitors!ConstantsAssumption, NEW p \in Nat \ {0}
  PROVE  /\ (p - 1) * MonitorsBounds.PerPage \in Nat
         /\ p * MonitorsBounds.PerPage \in Nat
         /\ (p + 1 - 1) * MonitorsBounds.PerPage = p * MonitorsBounds.PerPage
         /\ p * MonitorsBounds.PerPage = (p - 1) * MonitorsBounds.PerPage + MonitorsBounds.PerPage
         /\ MonitorsBounds.PerPage \in Nat \ {0}
BY DEF Monitors!ConstantsAssumption

\* What a page shows of the list.
LEMMA PageRead ==
  ASSUME Monitors!ConstantsAssumption, Monitors!TypeOK, NEW p \in Nat \ {0}, NEW x
  PROVE  /\ Monitors!Page(p) \in Seq(Monitors!Issue)
         /\ Monitors!FindOnPage(Monitors!Page(p), x) # Absent =>
               \E n \in 1..Len(issues) :
                   /\ issues[n].number = Monitors!FindOnPage(Monitors!Page(p), x)
                   /\ issues[n].title = x
         /\ Monitors!FindOnPage(Monitors!Page(p), x) = Absent =>
               \A n \in 1..Len(issues) : issues[n].title = x =>
                   n <= (p - 1) * MonitorsBounds.PerPage
                        \/ n > p * MonitorsBounds.PerPage
         /\ Len(Monitors!Page(p)) < MonitorsBounds.PerPage =>
              Len(issues) < p * MonitorsBounds.PerPage
<1>. DEFINE a == (p - 1) * MonitorsBounds.PerPage
            b == p * MonitorsBounds.PerPage
            last == IF b < Len(issues) THEN b ELSE Len(issues)
            s == Monitors!Page(p)
            hits == {n \in 1..Len(s) : s[n].title = x}
<1>1. a \in Nat /\ b = a + MonitorsBounds.PerPage
     /\ MonitorsBounds.PerPage \in Nat \ {0} /\ issues \in Seq(Monitors!Issue)
  BY PlacesOfPages DEF Monitors!TypeOK
<1>2. s = SubSeq(issues, a + 1, last) /\ last \in Nat /\ last <= Len(issues)
  BY <1>1 DEF Monitors!Page
<1>. HIDE DEF a, b, s
<1>3. /\ s \in Seq(Monitors!Issue) /\ Len(s) = IF a <= last THEN last - a ELSE 0
      /\ \A k \in 1..(last - a) : s[k] = issues[k + a]
  <2>1. a \in Nat /\ issues \in Seq(Monitors!Issue) /\ last \in Nat
       /\ last <= Len(issues)
    BY <1>1, <1>2
  <2>2. s = SubSeq(issues, a + 1, last)
    BY <1>2
  <2>. HIDE DEF last
  <2>. QED  BY <2>1, <2>2, Paged
<1>4. Len(s) < MonitorsBounds.PerPage => Len(issues) < b
  BY <1>1, <1>3
<1>5. \A n \in 1..Len(s) : s[n] = issues[n + a] /\ n + a \in 1..Len(issues)
  BY <1>1, <1>3
<1>6. \A n \in 1..Len(issues) : n > a /\ n <= b => n - a \in 1..Len(s)
     /\ s[n - a] = issues[n]
  BY <1>1, <1>3
<1>7. CASE hits = {}
  <2>1. Monitors!FindOnPage(s, x) = Absent
    BY <1>7 DEF Monitors!FindOnPage
  <2>2. ASSUME NEW n \in 1..Len(issues), issues[n].title = x, n > a, n <= b
        PROVE  FALSE
    <3>1. n - a \in 1..Len(s) /\ s[n - a].title = x
      BY <1>6, <2>2
    <3>. QED  BY <1>7, <3>1
  <2>3. \A n \in 1..Len(issues) : issues[n].title = x => n <= a \/ n > b
    BY <1>1, <2>2
  <2>. QED  BY <1>3, <1>4, <2>1, <2>3 DEF a, b, s
<1>8. CASE hits # {}
  <2>. DEFINE First(n) == \A m \in hits : n <= m
              n == CHOOSE m \in hits : First(m)
  <2>1. Monitors!FindOnPage(s, x) = s[n].number
    BY <1>8 DEF Monitors!FindOnPage
  <2>2. \E m \in hits : First(m)
    <3>1. hits \in SUBSET (1..Len(s)) /\ Len(s) \in Nat
      BY <1>3
    <3>. HIDE DEF hits
    <3>. QED  BY <1>8, <3>1, FirstOfSome
  <2>. HIDE DEF First
  <2>3. n \in hits
    BY <2>2
  <2>. HIDE DEF n
  <2>4. /\ n + a \in 1..Len(issues)
        /\ issues[n + a].number = Monitors!FindOnPage(s, x)
        /\ issues[n + a].title = x
    BY <1>5, <2>1, <2>3
  <2>5. issues[n + a] \in Monitors!Issue
    BY <1>1, <2>4
  <2>6. issues[n + a].number # Absent
    BY <2>5 DEF Monitors!Issue, Monitors!ConstantsAssumption
  <2>. QED  BY <1>3, <1>4, <2>4, <2>6 DEF a, b, s
<1>. QED  BY <1>7, <1>8

\* What each step of a check has settled.
StepsSettle ==
    \A c \in MonitorsBounds.Checks :
        /\ check[c].pc = "idle" => check[c] = Monitors!Idle
        /\ check[c].pc # "idle" => check[c].title \in MonitorsBounds.Titles
        /\ check[c].pc \in {"measure", "create"} => check[c].existing = Absent
        /\ check[c].pc = "list" => check[c].page > 0
        /\ check[c].pc \in {"comment", "close"} =>
             check[c].existing \in MonitorsBounds.Numbers
        /\ check[c].pc = "create" => ~check[c].recovered
        /\ check[c].pc = "close" => check[c].recovered

\* The number a check holds is of no other title.
NumbersHeld ==
    \A c \in MonitorsBounds.Checks, i \in Monitors!Open :
        i.number = check[c].existing => i.title = check[c].title

\* Nothing has come between a check and its list.
Clear(c) == check[c].title \notin crossedTitles \/ c \in lone

\* A check that found nothing yet has an issue of its title at most on pages to
\* come; there is none once it is about to create one.
Sees(c) ==
    /\ check[c].pc = "list" /\ check[c].existing = Absent =>
          \A n \in 1..Len(issues) : issues[n].title = check[c].title =>
              n > (check[c].page - 1) * MonitorsBounds.PerPage
    /\ check[c].pc = "create" =>
          \A n \in 1..Len(issues) : issues[n].title # check[c].title

\* One issue per title, and one check that reads the list for it.
OneInv ==
    \A x \in MonitorsBounds.Titles \ crossedTitles :
        /\ \A m, n \in 1..Len(issues) :
              issues[m].title = x /\ issues[n].title = x => m = n
        /\ \A c, d \in Monitors!Listing : check[c].title = x
             /\ check[d].title = x => c = d

\* A check that nothing interfered with is the only one of its title, and the
\* issue it found is open.
LoneInv ==
    \A c \in lone : ~Monitors!At(c, "idle") =>
        /\ \A d \in MonitorsBounds.Checks : check[d].title = check[c].title => d = c
        /\ check[c].existing # Absent =>
              \E n \in 1..Len(issues) : issues[n].number = check[c].existing

SeesInv == \A c \in Monitors!Listing : Clear(c) => Sees(c)

IssueInv ==
    Monitors!TypeOK /\ StepsSettle /\ NumbersHeld /\ OneInv /\ LoneInv /\ SeesInv

-----------------------------------------------------------------------------
(* How steps keep it. *)

\* What is left when the issue with a number leaves the list.
LEMMA ClosedIssues ==
  ASSUME Monitors!TypeOK, NEW n, Monitors!Closed(n)
  PROVE  /\ issues' \in Seq(Monitors!Issue)
         /\ \A k \in 1..Len(issues)' : \E j \in 1..Len(issues) :
               issues'[k] = issues[j] /\ issues[j].number # n
         /\ \A j \in 1..Len(issues) : issues[j].number # n =>
               \E k \in 1..Len(issues)' : issues'[k] = issues[j]
         /\ \A k, l \in 1..Len(issues)' : issues'[k].number = issues'[l].number =>
              k = l
<1>1. /\ issues \in Seq(Monitors!Issue) /\ Len(issues) \in Nat
      /\ \A k, l \in 1..Len(issues) : issues[k].number = issues[l].number => k = l
  BY DEF Monitors!TypeOK
<1>2. CASE (\A m \in 1..Len(issues) : issues[m].number # n) /\ UNCHANGED issues
  BY <1>1, <1>2
<1>3. CASE \E m \in 1..Len(issues) :
              /\ issues[m].number = n
              /\ issues' = SubSeq(issues, 1, m - 1) \o SubSeq(issues, m + 1, Len(issues))
  <2>1. PICK m \in 1..Len(issues) :
            /\ issues[m].number = n
            /\ issues' = SubSeq(issues, 1, m - 1) \o SubSeq(issues, m + 1, Len(issues))
    BY <1>3
  <2>2. PICK t \in Seq(Monitors!Issue) :
            /\ t = issues' /\ Len(t) = Len(issues) - 1
            /\ \A k \in 1..Len(t) : t[k] = IF k < m THEN issues[k] ELSE issues[k + 1]
    <3>1. issues \in Seq(Monitors!Issue)
      BY <1>1
    <3>2. \E t \in Seq(Monitors!Issue) :
              /\ t = SubSeq(issues, 1, m - 1) \o SubSeq(issues, m + 1, Len(issues))
              /\ Len(t) = Len(issues) - 1
              /\ \A k \in 1..Len(t) :
                   t[k] = IF k < m THEN issues[k] ELSE issues[k + 1]
      BY <3>1, Removed, Zenon
    <3>. QED  BY <2>1, <3>2, Zenon
  <2>. DEFINE from(k) == IF k < m THEN k ELSE k + 1
  <2>3. ASSUME NEW k \in 1..Len(t)
        PROVE  from(k) \in 1..Len(issues) /\ from(k) # m /\ t[k] = issues[from(k)]
    <3>1. Len(issues) \in Nat /\ Len(t) = Len(issues) - 1 /\ k \in Nat /\ m \in Nat
      BY <1>1, <2>2
    <3>2. from(k) \in 1..Len(issues) /\ from(k) # m
      BY <3>1
    <3>3. t[k] = issues[from(k)]
      BY <2>2
    <3>. QED  BY <3>2, <3>3
  <2>4. \A k, l \in 1..Len(t) : from(k) = from(l) => k = l
    BY <2>2
  <2>5. \A j \in 1..Len(issues) : j # m => \E k \in 1..Len(t) : from(k) = j
    <3>1. ASSUME NEW j \in 1..Len(issues), j < m
          PROVE  j \in 1..Len(t) /\ from(j) = j
      BY <1>1, <2>2, <3>1
    <3>2. ASSUME NEW j \in 1..Len(issues), j > m
          PROVE  j - 1 \in 1..Len(t) /\ from(j - 1) = j
      BY <1>1, <2>2, <3>2
    <3>. QED  BY <3>1, <3>2
  <2>. HIDE DEF from
  <2>6. \A j \in 1..Len(issues) : issues[j].number = n => j = m
    BY <1>1, <2>1
  <2>7. \A k \in 1..Len(t) : \E j \in 1..Len(issues) : t[k] = issues[j]
       /\ issues[j].number # n
    BY <2>3, <2>6
  <2>8. \A j \in 1..Len(issues) : issues[j].number # n => \E k \in 1..Len(t) :
       t[k] = issues[j]
    BY <2>1, <2>3, <2>5
  <2>9. \A k, l \in 1..Len(t) : t[k].number = t[l].number => k = l
    BY <1>1, <2>3, <2>4
  <2>. QED  BY <2>2, <2>7, <2>8, <2>9
<1>. QED  BY <1>2, <1>3 DEF Monitors!Closed

\* A step of check c that leaves the list as it is.
LEMMA CheckMoves ==
  ASSUME Monitors!ConstantsAssumption, IssueInv, NEW c \in MonitorsBounds.Checks,
         NEW k \in Monitors!Check,
         check' = [check EXCEPT ![c] = k],
         UNCHANGED <<issues, broken, up>>,
         crossedTitles \subseteq crossedTitles', crossedTitles' \subseteq MonitorsBounds.Titles, lone' \subseteq lone,
         \/ k = Monitors!Idle
         \/ /\ k.pc # "idle" /\ check[c].pc # "idle" /\ k.title = check[c].title
            /\ k.pc \in {"measure", "create"} => k.existing = Absent
            /\ k.pc = "list" => k.page > 0
            /\ k.pc \in {"comment", "close"} => k.existing \in MonitorsBounds.Numbers
            /\ k.pc = "create" => ~k.recovered
            /\ k.pc = "close" => k.recovered
            /\ \/ k.pc = "measure"
               \/ c \in Monitors!Listing
               \/ check[c].title \in crossedTitles'
               \/ \A d \in Monitors!Listing : check[d].title # check[c].title
            /\ k.existing \notin {Absent, check[c].existing} =>
                  \E n \in 1..Len(issues) : /\ issues[n].number = k.existing
                                            /\ issues[n].title = k.title
            /\ Clear(c) =>
                  /\ k.pc = "list" /\ k.existing = Absent =>
                        \A n \in 1..Len(issues) : issues[n].title = k.title =>
                            n > (k.page - 1) * MonitorsBounds.PerPage
                  /\ k.pc = "create" => \A n \in 1..Len(issues) :
                       issues[n].title # k.title
  PROVE  IssueInv'
<1>0. /\ Monitors!TypeOK /\ StepsSettle /\ NumbersHeld /\ OneInv /\ LoneInv
      /\ SeesInv
      /\ \A d \in MonitorsBounds.Checks : check[d] \in Monitors!Check
  BY DEF IssueInv, Monitors!TypeOK
<1>1. check'[c] = k /\ \A d \in MonitorsBounds.Checks \ {c} : check'[d] = check[d]
  BY <1>0 DEF Monitors!TypeOK
<1>2. Monitors!Idle.pc = "idle" /\ Monitors!Idle.title = Absent
     /\ Monitors!Idle.existing = Absent
  BY DEF Monitors!Idle
<1>3. Monitors!TypeOK'
  BY <1>0 DEF Monitors!TypeOK
<1>4. StepsSettle'
  <2>1. \A d \in MonitorsBounds.Checks \ {c} :
        /\ check'[d].pc = "idle" => check'[d] = Monitors!Idle
        /\ check'[d].pc # "idle" => check'[d].title \in MonitorsBounds.Titles
        /\ check'[d].pc \in {"measure", "create"} => check'[d].existing = Absent
        /\ check'[d].pc = "list" => check'[d].page > 0
        /\ check'[d].pc \in {"comment", "close"} =>
             check'[d].existing \in MonitorsBounds.Numbers
        /\ check'[d].pc = "create" => ~check'[d].recovered
        /\ check'[d].pc = "close" => check'[d].recovered
    BY <1>0, <1>1 DEF StepsSettle
  <2>2. /\ k.pc = "idle" => k = Monitors!Idle
        /\ k.pc # "idle" => k.title \in MonitorsBounds.Titles
        /\ k.pc \in {"measure", "create"} => k.existing = Absent
        /\ k.pc = "list" => k.page > 0
        /\ k.pc \in {"comment", "close"} => k.existing \in MonitorsBounds.Numbers
        /\ k.pc = "create" => ~k.recovered
        /\ k.pc = "close" => k.recovered
    BY <1>0, <1>2 DEF StepsSettle
  <2>. QED  BY <1>1, <2>1, <2>2 DEF StepsSettle
<1>5. NumbersHeld'
  <2>1. \A n \in 1..Len(issues) : issues[n] \in Monitors!Issue
       /\ issues[n].number # Absent
    <3>1. issues \in Seq(Monitors!Issue)
      BY <1>0 DEF Monitors!TypeOK
    <3>2. \A n \in 1..Len(issues) : issues[n] \in Monitors!Issue
      BY <3>1
    <3>3. \A i \in Monitors!Issue : i.number # Absent
      BY DEF Monitors!Issue, Monitors!ConstantsAssumption
    <3>. QED  BY <3>2, <3>3
  <2>2. \A i \in Monitors!Open : i.number = k.existing => i.title = k.title
    <3>. SUFFICES ASSUME NEW n \in 1..Len(issues), issues[n].number = k.existing
                  PROVE  issues[n].title = k.title
      BY DEF Monitors!Open
    <3>1. k.existing # Absent /\ k # Monitors!Idle
      BY <1>2, <2>1
    <3>2. CASE k.existing = check[c].existing
      BY <1>0, <3>1, <3>2 DEF NumbersHeld, Monitors!Open
    <3>3. CASE k.existing # check[c].existing
      <4>1. PICK m \in 1..Len(issues) : /\ issues[m].number = k.existing
                                        /\ issues[m].title = k.title
        BY <3>1, <3>3
      <4>. QED  BY <1>0, <4>1 DEF Monitors!TypeOK
    <3>. QED  BY <3>2, <3>3
  <2>3. Monitors!Open' = Monitors!Open
    BY DEF Monitors!Open
  <2>. QED  BY <1>0, <1>1, <2>2, <2>3 DEF NumbersHeld
<1>6. \A d \in MonitorsBounds.Checks \ {c} :
     d \in Monitors!Listing' <=> d \in Monitors!Listing
  BY <1>1 DEF Monitors!Listing, Monitors!At
<1>7. c \in Monitors!Listing' =>
          /\ k.title = check[c].title
          /\ \/ c \in Monitors!Listing \/ check[c].title \in crossedTitles'
             \/ \A d \in Monitors!Listing : check[d].title # check[c].title
  BY <1>1, <1>2 DEF Monitors!Listing, Monitors!At
<1>8. Monitors!Listing \subseteq MonitorsBounds.Checks
     /\ Monitors!Listing' \subseteq MonitorsBounds.Checks
  BY DEF Monitors!Listing
<1>9. OneInv'
  <2>1. ASSUME NEW x \in MonitorsBounds.Titles \ crossedTitles',
               NEW d \in Monitors!Listing', NEW e \in Monitors!Listing',
               check'[d].title = x, check'[e].title = x, d # c, e # c
        PROVE  d = e
    BY <1>0, <1>1, <1>6, <1>8, <2>1 DEF OneInv
  <2>2. ASSUME NEW x \in MonitorsBounds.Titles \ crossedTitles',
               NEW d \in Monitors!Listing',
               check'[d].title = x, c \in Monitors!Listing', check'[c].title = x, d # c
        PROVE  FALSE
    <3>1. d \in Monitors!Listing /\ check[d].title = x /\ check[c].title = x
      BY <1>1, <1>6, <1>7, <1>8, <2>2
    <3>2. c \in Monitors!Listing
      BY <1>7, <2>2, <3>1
    <3>. QED  BY <1>0, <2>2, <3>1, <3>2 DEF OneInv
  <2>. QED  BY <1>0, <2>1, <2>2 DEF OneInv
<1>10. LoneInv'
  <2>. SUFFICES ASSUME NEW d \in lone', check'[d].pc # "idle"
                PROVE  /\ \A e \in MonitorsBounds.Checks :
                            check'[e].title = check'[d].title => e = d
                       /\ check'[d].existing # Absent =>
                            \E n \in 1..Len(issues) :
                                 issues[n].number = check'[d].existing
    BY DEF LoneInv, Monitors!At
  <2>1. d \in lone /\ d \in MonitorsBounds.Checks /\ check[d].pc # "idle"
       /\ check'[d].title = check[d].title
    BY <1>0, <1>1, <1>2 DEF Monitors!TypeOK
  <2>2. /\ \A e \in MonitorsBounds.Checks : check[e].title = check[d].title => e = d
        /\ check[d].existing # Absent =>
             \E n \in 1..Len(issues) : issues[n].number = check[d].existing
    BY <1>0, <2>1 DEF LoneInv, Monitors!At
  <2>3. check[d].title # Absent
    BY <1>0, <2>1 DEF StepsSettle, Monitors!ConstantsAssumption
  <2>4. \A e \in MonitorsBounds.Checks : check'[e].title = check'[d].title => e = d
    <3>1. \A e \in MonitorsBounds.Checks :
         check'[e].title \in {check[e].title, Absent}
      BY <1>1, <1>2
    <3>. QED  BY <2>1, <2>2, <2>3, <3>1
  <2>5. check'[d].existing # Absent =>
            \E n \in 1..Len(issues) : issues[n].number = check'[d].existing
    BY <1>1, <1>2, <2>2
  <2>. QED  BY <2>4, <2>5
<1>11. SeesInv'
  <2>. SUFFICES ASSUME NEW d \in Monitors!Listing', Clear(d)' PROVE Sees(d)'
    BY DEF SeesInv
  <2>1. CASE d # c
    <3>1. d \in Monitors!Listing /\ Clear(d) /\ check'[d] = check[d]
         /\ issues' = issues
      BY <1>1, <1>6, <1>8, <2>1 DEF Clear
    <3>. QED  BY <1>0, <3>1 DEF SeesInv, Sees
  <2>2. CASE d = c
    <3>1. Clear(c) /\ k # Monitors!Idle
      BY <1>1, <1>2, <1>7, <2>2 DEF Clear, Monitors!Listing, Monitors!At
    <3>. QED  BY <1>1, <2>2, <3>1 DEF Sees
  <2>. QED  BY <2>1, <2>2
<1>. QED  BY <1>3, <1>4, <1>5, <1>9, <1>10, <1>11 DEF IssueInv

LEMMA IdleCheck ==
  ASSUME Monitors!ConstantsAssumption
  PROVE  Monitors!Idle \in Monitors!Check /\ MonitorsBounds.MaxPings \in Nat
<1>1. MonitorsBounds.MaxPings \in Nat /\ 0 \in 0..MonitorsBounds.MaxPings
  BY DEF Monitors!ConstantsAssumption
<1>. QED  BY <1>1 DEF Monitors!Idle, Monitors!Check

\* The condition is measured.
LEMMA MeasuredKeeps ==
  ASSUME Monitors!ConstantsAssumption, IssueInv, NEW c \in MonitorsBounds.Checks,
         NEW r \in BOOLEAN,
         Monitors!At(c, "measure"), Monitors!Measured(c, r)
  PROVE  IssueInv'
<1>. DEFINE k == [check[c] EXCEPT !.pc = "list", !.recovered = r, !.pings = 0, !.page = 1]
<1>1. check[c] \in Monitors!Check /\ check[c].existing = Absent
     /\ check[c].title \in MonitorsBounds.Titles
  BY DEF IssueInv, Monitors!TypeOK, StepsSettle, Monitors!At
<1>2. /\ k \in Monitors!Check /\ k.pc = "list" /\ k.title = check[c].title
      /\ k.page = 1
      /\ k.existing = Absent
  <2>1. 0 \in 0..MonitorsBounds.MaxPings
    BY IdleCheck
  <2>. QED  BY <1>1, <2>1 DEF Monitors!Check
<1>3. /\ check' = [check EXCEPT ![c] = k] /\ UNCHANGED <<issues, broken, up, lone>>
      /\ crossedTitles \subseteq crossedTitles'
      /\ crossedTitles' \subseteq MonitorsBounds.Titles
  BY <1>1 DEF Monitors!Measured, IssueInv, Monitors!TypeOK
<1>4. check[c].title \in crossedTitles' \/ \A d \in Monitors!Listing :
     check[d].title # check[c].title
  BY DEF Monitors!Measured, Monitors!Running, Monitors!Listing
<1>5. (k.page - 1) * MonitorsBounds.PerPage = 0
  BY <1>2 DEF Monitors!ConstantsAssumption
<1>6. \A n \in 1..Len(issues) : n > (k.page - 1) * MonitorsBounds.PerPage
  BY <1>5 DEF IssueInv, Monitors!TypeOK
<1>7. check[c].pc = "measure"
  BY DEF Monitors!At
<1>. HIDE DEF k
<1>8. /\ k.page > 0 /\ k.pc \notin {"idle", "measure", "create", "comment", "close"}
      /\ k.existing \in {Absent, check[c].existing} /\ lone' \subseteq lone
  BY <1>2, <1>3
<1>. QED  BY <1>2, <1>3, <1>4, <1>6, <1>7, <1>8, CheckMoves

LEMMA PingsKeep ==
  ASSUME Monitors!ConstantsAssumption, IssueInv, NEW c \in MonitorsBounds.Checks,
         Monitors!Evaluate(c) \/ Monitors!PingOk(c) \/ Monitors!PingFailed(c)
  PROVE  IssueInv'
<1>1. CASE Monitors!Evaluate(c) \/ Monitors!PingOk(c)
  <2>1. Monitors!At(c, "measure") /\ \E r \in BOOLEAN : Monitors!Measured(c, r)
    BY <1>1 DEF Monitors!Evaluate, Monitors!PingOk
  <2>. QED  BY <2>1, MeasuredKeeps
<1>2. CASE Monitors!PingFailed(c) /\ ~Monitors!HasMoreAttempts(check[c].pings)
  BY <1>2, MeasuredKeeps DEF Monitors!PingFailed
<1>3. CASE Monitors!PingFailed(c) /\ Monitors!HasMoreAttempts(check[c].pings)
  <2>. DEFINE k == [check[c] EXCEPT !.pings = @ + 1]
  <2>1. check[c] \in Monitors!Check /\ check[c].existing = Absent
       /\ check[c].pc = "measure"
    BY <1>3 DEF Monitors!PingFailed, IssueInv, Monitors!TypeOK, StepsSettle,
         Monitors!At
  <2>2. check[c].pings + 1 \in 0..MonitorsBounds.MaxPings
    BY <1>3, <2>1 DEF Monitors!HasMoreAttempts, Monitors!Check,
         Monitors!ConstantsAssumption
  <2>3. k \in Monitors!Check /\ k.pc = "measure" /\ k.title = check[c].title
       /\ k.existing = Absent
    BY <2>1, <2>2 DEF Monitors!Check
  <2>4. /\ check' = [check EXCEPT ![c] = k]
        /\ UNCHANGED <<issues, broken, up, lone, crossedTitles>>
        /\ crossedTitles \subseteq MonitorsBounds.Titles
    BY <1>3 DEF Monitors!PingFailed, IssueInv, Monitors!TypeOK
  <2>. HIDE DEF k
  <2>. QED  BY <2>1, <2>3, <2>4, CheckMoves
<1>. QED  BY <1>1, <1>2, <1>3

\* What a check has come to know after a page.
LEMMA PageSeen ==
  ASSUME Monitors!ConstantsAssumption, IssueInv, NEW c \in MonitorsBounds.Checks,
         Monitors!At(c, "list"), NEW e,
         e = IF check[c].existing # Absent THEN check[c].existing
             ELSE Monitors!FindOnPage(Monitors!Page(check[c].page), check[c].title)
  PROVE  /\ check[c] \in Monitors!Check /\ check[c].page \in Nat \ {0}
         /\ e \in MonitorsBounds.Numbers \cup {Absent}
         /\ e \notin {Absent, check[c].existing} =>
               \E n \in 1..Len(issues) : /\ issues[n].number = e
                                         /\ issues[n].title = check[c].title
         /\ Clear(c) /\ e = Absent =>
               \A n \in 1..Len(issues) : issues[n].title = check[c].title =>
                   n > check[c].page * MonitorsBounds.PerPage
         /\ Monitors!IsLastPage(Monitors!Page(check[c].page)) =>
              Len(issues) < check[c].page * MonitorsBounds.PerPage
         /\ check[c].page * MonitorsBounds.PerPage \in Nat
         /\ (check[c].page + 1 - 1) * MonitorsBounds.PerPage = check[c].page * MonitorsBounds.PerPage
<1>. DEFINE p == check[c].page
            x == check[c].title
            f == Monitors!FindOnPage(Monitors!Page(p), x)
<1>1. Monitors!TypeOK /\ check[c] \in Monitors!Check /\ c \in Monitors!Listing
     /\ p \in Nat \ {0} /\ issues \in Seq(Monitors!Issue)
  BY DEF IssueInv, Monitors!TypeOK, StepsSettle, Monitors!At, Monitors!Listing,
       Monitors!Check
<1>2. /\ f # Absent => \E n \in 1..Len(issues) : issues[n].number = f
           /\ issues[n].title = x
      /\ f = Absent => \A n \in 1..Len(issues) : issues[n].title = x =>
                           n <= (p - 1) * MonitorsBounds.PerPage
                                \/ n > p * MonitorsBounds.PerPage
      /\ Len(Monitors!Page(p)) < MonitorsBounds.PerPage =>
           Len(issues) < p * MonitorsBounds.PerPage
  <2>. HIDE DEF p, x
  <2>. QED  BY <1>1, PageRead, Zenon
<1>3. e = IF check[c].existing # Absent THEN check[c].existing ELSE f
  OBVIOUS
<1>. HIDE DEF f
<1>4. (p - 1) * MonitorsBounds.PerPage \in Nat
     /\ p * MonitorsBounds.PerPage \in Nat
     /\ (p + 1 - 1) * MonitorsBounds.PerPage = p * MonitorsBounds.PerPage
  BY <1>1, PlacesOfPages
<1>5. \A n \in 1..Len(issues) : issues[n].number \in MonitorsBounds.Numbers
  <2>1. \A n \in 1..Len(issues) : issues[n] \in Monitors!Issue
    BY <1>1
  <2>. QED  BY <2>1 DEF Monitors!Issue
<1>6. e \in MonitorsBounds.Numbers \cup {Absent}
  BY <1>1, <1>2, <1>3, <1>5 DEF Monitors!Check
<1>7. Clear(c) /\ check[c].existing = Absent =>
          \A n \in 1..Len(issues) : issues[n].title = x =>
               n > (p - 1) * MonitorsBounds.PerPage
  BY <1>1 DEF IssueInv, SeesInv, Sees, Monitors!At
<1>8. Clear(c) /\ e = Absent =>
          \A n \in 1..Len(issues) : issues[n].title = x =>
               n > p * MonitorsBounds.PerPage
  <2>1. e = Absent => check[c].existing = Absent /\ f = Absent
    BY <1>3
  <2>. SUFFICES ASSUME Clear(c), e = Absent, NEW n \in 1..Len(issues),
                       issues[n].title = x
                PROVE  n > p * MonitorsBounds.PerPage
    OBVIOUS
  <2>2. n > (p - 1) * MonitorsBounds.PerPage /\ n \in Nat
    BY <1>7, <2>1
  <2>3. n <= (p - 1) * MonitorsBounds.PerPage \/ n > p * MonitorsBounds.PerPage
    BY <1>2, <2>1
  <2>. QED  BY <1>4, <2>2, <2>3
<1>9. e \notin {Absent, check[c].existing} =>
          \E n \in 1..Len(issues) : issues[n].number = e /\ issues[n].title = x
  BY <1>2, <1>3
<1>. QED  BY <1>1, <1>2, <1>4, <1>6, <1>8, <1>9 DEF Monitors!IsLastPage

LEMMA ReadKeeps ==
  ASSUME Monitors!ConstantsAssumption, IssueInv, NEW c \in MonitorsBounds.Checks,
         Monitors!ReadPage(c)
  PROVE  IssueInv'
<1>. DEFINE p == check[c].page
            e == IF check[c].existing # Absent THEN check[c].existing
                 ELSE Monitors!FindOnPage(Monitors!Page(p), check[c].title)
            k == IF Monitors!IsLastPage(Monitors!Page(p)) THEN Monitors!AfterList(c, e)
                 ELSE [check[c] EXCEPT !.page = @ + 1, !.existing = e]
<1>1. /\ check[c] \in Monitors!Check /\ p \in Nat \ {0}
      /\ e \in MonitorsBounds.Numbers \cup {Absent}
      /\ e \notin {Absent, check[c].existing} =>
            \E n \in 1..Len(issues) : issues[n].number = e
                 /\ issues[n].title = check[c].title
      /\ Clear(c) /\ e = Absent =>
            \A n \in 1..Len(issues) : issues[n].title = check[c].title =>
                 n > p * MonitorsBounds.PerPage
      /\ Monitors!IsLastPage(Monitors!Page(p)) =>
           Len(issues) < p * MonitorsBounds.PerPage
      /\ p * MonitorsBounds.PerPage \in Nat
      /\ (p + 1 - 1) * MonitorsBounds.PerPage = p * MonitorsBounds.PerPage
  BY PageSeen DEF Monitors!ReadPage
<1>2. /\ check' = [check EXCEPT ![c] = k]
      /\ UNCHANGED <<issues, broken, up, lone, crossedTitles>>
      /\ crossedTitles \subseteq MonitorsBounds.Titles /\ c \in Monitors!Listing
      /\ check[c].pc = "list"
  <2>1. check' = [check EXCEPT ![c] = k]
    BY DEF Monitors!ReadPage
  <2>2. crossedTitles \subseteq MonitorsBounds.Titles /\ c \in Monitors!Listing
       /\ check[c].pc = "list"
    BY DEF Monitors!ReadPage, IssueInv, Monitors!TypeOK, Monitors!Listing,
         Monitors!At
  <2>3. UNCHANGED <<issues, broken, up, lone, crossedTitles>>
    BY DEF Monitors!ReadPage
  <2>. QED  BY <2>1, <2>2, <2>3
<1>. HIDE DEF e
<1>3. \/ k = Monitors!Idle
      \/ /\ k = [check[c] EXCEPT !.pc = "comment", !.existing = e, !.page = 0]
         /\ e # Absent
      \/ /\ k = [check[c] EXCEPT !.pc = "create", !.page = 0] /\ ~check[c].recovered
         /\ e = Absent /\ Monitors!IsLastPage(Monitors!Page(p))
      \/ k = [check[c] EXCEPT !.page = @ + 1, !.existing = e]
  BY DEF Monitors!AfterList
<1>4. e = Absent => check[c].existing = Absent
  BY DEF e
<1>5. Monitors!Idle \in Monitors!Check
  BY IdleCheck
<1>6. CASE k = Monitors!Idle
  <2>. HIDE DEF k
  <2>. QED  BY <1>2, <1>5, <1>6, CheckMoves
<1>7. CASE k = [check[c] EXCEPT !.pc = "comment", !.existing = e, !.page = 0]
     /\ e # Absent
  <2>. HIDE DEF k
  <2>1. /\ k \in Monitors!Check /\ k.pc = "comment" /\ k.existing = e
        /\ k.title = check[c].title
        /\ e \in MonitorsBounds.Numbers
    BY <1>1, <1>7 DEF Monitors!Check
  <2>. QED  BY <1>1, <1>2, <2>1, CheckMoves
<1>8. CASE /\ k = [check[c] EXCEPT !.pc = "create", !.page = 0]
           /\ ~check[c].recovered
           /\ e = Absent /\ Monitors!IsLastPage(Monitors!Page(p))
  <2>. HIDE DEF k
  <2>1. /\ k \in Monitors!Check /\ k.pc = "create" /\ k.existing = Absent
        /\ k.title = check[c].title
        /\ ~k.recovered
    BY <1>1, <1>4, <1>8 DEF Monitors!Check
  <2>2. Clear(c) => \A n \in 1..Len(issues) : issues[n].title # k.title
    BY <1>1, <1>8, <2>1 DEF IssueInv, Monitors!TypeOK
  <2>. QED  BY <1>2, <2>1, <2>2, CheckMoves
<1>9. CASE k = [check[c] EXCEPT !.page = @ + 1, !.existing = e]
  <2>. HIDE DEF k
  <2>1. /\ k \in Monitors!Check /\ k.pc = "list" /\ k.existing = e
        /\ k.title = check[c].title
        /\ k.page = p + 1
    <3>1. p + 1 \in Nat /\ p = check[c].page
      BY <1>1
    <3>. QED  BY <1>1, <1>2, <1>9, <3>1 DEF Monitors!Check
  <2>2. (k.page - 1) * MonitorsBounds.PerPage = p * MonitorsBounds.PerPage
    BY <1>1, <2>1
  <2>3. k.page > 0
    BY <1>1, <2>1
  <2>. QED  BY <1>1, <1>2, <2>1, <2>2, <2>3, CheckMoves
<1>. QED  BY <1>3, <1>6, <1>7, <1>8, <1>9

LEMMA CommentsKeep ==
  ASSUME Monitors!ConstantsAssumption, IssueInv, NEW c \in MonitorsBounds.Checks,
         Monitors!AddComment(c) \/ Monitors!Fail(c)
  PROVE  IssueInv'
<1>1. Monitors!Idle \in Monitors!Check
  BY IdleCheck
<1>2. crossedTitles \subseteq MonitorsBounds.Titles /\ check[c] \in Monitors!Check
  BY DEF IssueInv, Monitors!TypeOK
<1>3. CASE check' = [check EXCEPT ![c] = Monitors!Idle]
  <2>1. UNCHANGED <<issues, broken, up, crossedTitles>> /\ lone' \subseteq lone
    BY DEF Monitors!AddComment, Monitors!Fail
  <2>. QED  BY <1>1, <1>2, <1>3, <2>1, CheckMoves
<1>4. CASE Monitors!AddComment(c) /\ check[c].recovered
  <2>. DEFINE k == [check[c] EXCEPT !.pc = "close"]
  <2>1. /\ check' = [check EXCEPT ![c] = k]
        /\ UNCHANGED <<issues, broken, up, crossedTitles, lone>>
        /\ check[c].pc = "comment" /\ c \in Monitors!Listing
        /\ check[c].existing \in MonitorsBounds.Numbers
    BY <1>4 DEF Monitors!AddComment, Monitors!AfterComment, Monitors!Listing,
         Monitors!At, IssueInv, StepsSettle
  <2>2. /\ k \in Monitors!Check /\ k.pc = "close" /\ k.existing = check[c].existing
        /\ k.title = check[c].title /\ k.recovered
    BY <1>2, <1>4 DEF Monitors!Check
  <2>. HIDE DEF k
  <2>. QED  BY <1>2, <2>1, <2>2, CheckMoves
<1>. QED  BY <1>3, <1>4 DEF Monitors!AddComment, Monitors!AfterComment, Monitors!Fail

LEMMA StartKeeps ==
  ASSUME Monitors!ConstantsAssumption, IssueInv, NEW c \in MonitorsBounds.Checks,
         NEW x \in MonitorsBounds.Titles, Monitors!Start(c, x)
  PROVE  IssueInv'
<1>0. /\ Monitors!TypeOK /\ StepsSettle /\ NumbersHeld /\ OneInv /\ LoneInv
      /\ SeesInv
      /\ check[c] = Monitors!Idle /\ check[c] \in Monitors!Check
  BY DEF IssueInv, Monitors!TypeOK, Monitors!Start, Monitors!At, StepsSettle
<1>. DEFINE k == [check[c] EXCEPT !.pc = "measure", !.title = x]
<1>1. /\ k \in Monitors!Check /\ k.pc = "measure" /\ k.title = x
      /\ k.existing = Absent
      /\ Monitors!Idle.pc = "idle"
  <2>1. check[c] \in Monitors!Check /\ check[c].existing = Absent
       /\ Monitors!Idle.pc = "idle"
    BY <1>0 DEF Monitors!Idle
  <2>. QED  BY <2>1 DEF Monitors!Check
<1>2. /\ check' = [check EXCEPT ![c] = k]
      /\ UNCHANGED <<broken, up, issues, crossedTitles>>
      /\ lone' \subseteq lone \cup {c}
      /\ c \in lone' => Monitors!Running(x) = {} /\ lone' = lone \cup {c}
      /\ c \notin lone' => lone' \cap Monitors!Running(x) = {}
  BY DEF Monitors!Start
<1>. HIDE DEF k
<1>3. check'[c] = k /\ \A d \in MonitorsBounds.Checks \ {c} : check'[d] = check[d]
  BY <1>0, <1>2 DEF Monitors!TypeOK
<1>4. Monitors!TypeOK'
  BY <1>0, <1>1, <1>2 DEF Monitors!TypeOK
<1>5. StepsSettle'
  <2>1. \A d \in MonitorsBounds.Checks \ {c} :
        /\ check'[d].pc = "idle" => check'[d] = Monitors!Idle
        /\ check'[d].pc # "idle" => check'[d].title \in MonitorsBounds.Titles
        /\ check'[d].pc \in {"measure", "create"} => check'[d].existing = Absent
        /\ check'[d].pc = "list" => check'[d].page > 0
        /\ check'[d].pc \in {"comment", "close"} =>
             check'[d].existing \in MonitorsBounds.Numbers
        /\ check'[d].pc = "create" => ~check'[d].recovered
        /\ check'[d].pc = "close" => check'[d].recovered
    BY <1>0, <1>3 DEF StepsSettle
  <2>. QED  BY <1>1, <1>3, <2>1 DEF StepsSettle
<1>6. NumbersHeld'
  <2>1. \A i \in Monitors!Open : i.number # Absent
    <3>1. \A n \in 1..Len(issues) : issues[n] \in Monitors!Issue
      BY <1>0 DEF Monitors!TypeOK
    <3>2. \A i \in Monitors!Issue : i.number # Absent
      BY DEF Monitors!Issue, Monitors!ConstantsAssumption
    <3>. QED  BY <3>1, <3>2 DEF Monitors!Open
  <2>2. Monitors!Open' = Monitors!Open
    BY <1>2 DEF Monitors!Open
  <2>. QED  BY <1>0, <1>1, <1>3, <2>1, <2>2 DEF NumbersHeld
<1>7. Monitors!Listing' = Monitors!Listing /\ c \notin Monitors!Listing
     /\ Monitors!Listing \subseteq MonitorsBounds.Checks
  BY <1>0, <1>1, <1>3 DEF Monitors!Listing, Monitors!At
<1>8. OneInv'
  BY <1>0, <1>2, <1>3, <1>7 DEF OneInv
<1>9. LoneInv'
  <2>. SUFFICES ASSUME NEW d \in lone', check'[d].pc # "idle"
                PROVE  /\ \A e \in MonitorsBounds.Checks :
                            check'[e].title = check'[d].title => e = d
                       /\ check'[d].existing # Absent =>
                            \E n \in 1..Len(issues) :
                                 issues[n].number = check'[d].existing
    BY <1>2 DEF LoneInv, Monitors!At
  <2>1. CASE d = c
    <3>1. \A e \in MonitorsBounds.Checks : check[e].title # x
      BY <1>2, <2>1 DEF Monitors!Running
    <3>. QED  BY <1>1, <1>3, <2>1, <3>1
  <2>2. CASE d # c
    <3>1. /\ d \in lone /\ d \in MonitorsBounds.Checks /\ check'[d] = check[d]
          /\ \A e \in MonitorsBounds.Checks : check[e].title = check[d].title =>
               e = d
          /\ check[d].existing # Absent =>
               \E n \in 1..Len(issues) : issues[n].number = check[d].existing
      BY <1>0, <1>2, <1>3, <2>2 DEF LoneInv, Monitors!At, Monitors!TypeOK
    <3>2. check[d].title # x
      BY <1>2, <3>1 DEF Monitors!Running
    <3>. QED  BY <1>1, <1>3, <3>1, <3>2
  <2>. QED  BY <2>1, <2>2
<1>10. SeesInv'
  <2>1. ASSUME NEW d \in Monitors!Listing PROVE Sees(d)' <=> Sees(d)
    BY <1>2, <1>3, <1>7 DEF Sees
  <2>2. \A d \in Monitors!Listing : Clear(d)' => Clear(d)
    BY <1>2, <1>3, <1>7 DEF Clear
  <2>. QED  BY <1>0, <1>7, <2>1, <2>2 DEF SeesInv
<1>. QED  BY <1>4, <1>5, <1>6, <1>8, <1>9, <1>10 DEF IssueInv

\* An issue is created at the top of the list.
LEMMA CreateKeeps ==
  ASSUME Monitors!ConstantsAssumption, IssueInv, NEW c \in MonitorsBounds.Checks,
         Monitors!CreateIssue(c)
  PROVE  IssueInv'
<1>0. /\ Monitors!TypeOK /\ StepsSettle /\ NumbersHeld /\ OneInv /\ LoneInv
      /\ SeesInv
      /\ check[c].pc = "create" /\ check[c].title \in MonitorsBounds.Titles
      /\ c \in Monitors!Listing
      /\ issues \in Seq(Monitors!Issue) /\ Len(issues) \in Nat
  BY DEF IssueInv, Monitors!TypeOK, Monitors!CreateIssue, Monitors!At, StepsSettle,
       Monitors!Listing
<1>. DEFINE x == check[c].title
<1>1. PICK n \in Monitors!FreeNumbers :
     issues' = <<[number |-> n, title |-> x]>> \o issues
  BY DEF Monitors!CreateIssue
<1>2. PICK i \in Monitors!Issue : i = [number |-> n, title |-> x]
  BY <1>0 DEF Monitors!FreeNumbers, Monitors!Issue
<1>3. /\ i.number = n /\ i.title = x /\ n \in MonitorsBounds.Numbers
      /\ \A d \in MonitorsBounds.Checks : check[d].existing # n
      /\ \A k \in 1..Len(issues) : issues[k].number # n
  BY <1>2 DEF Monitors!FreeNumbers, Monitors!Open
<1>4. /\ issues' \in Seq(Monitors!Issue) /\ Len(issues') = Len(issues) + 1
      /\ issues'[1] = i
      /\ \A k \in 2..Len(issues') : k - 1 \in 1..Len(issues)
           /\ issues'[k] = issues[k - 1]
      /\ \A k \in 1..Len(issues) : issues'[k + 1] = issues[k]
           /\ k + 1 \in 1..Len(issues')
  <2>1. issues' = <<i>> \o issues
    BY <1>1, <1>2
  <2>. HIDE DEF x
  <2>2. issues \in Seq(Monitors!Issue)
    BY <1>0
  <2>3. /\ issues' \in Seq(Monitors!Issue) /\ Len(issues') = Len(issues) + 1
        /\ issues'[1] = i
        /\ \A k \in 1..Len(issues) : issues'[k + 1] = issues[k]
        /\ \A k \in 2..Len(issues') : k - 1 \in 1..Len(issues)
             /\ issues'[k] = issues[k - 1]
    BY <2>1, <2>2, Added
  <2>. QED  BY <1>0, <2>3
<1>5. /\ check' = [check EXCEPT ![c] = Monitors!Idle]
      /\ UNCHANGED <<broken, up, crossedTitles, lone>>
      /\ Monitors!Idle.pc = "idle" /\ Monitors!Idle.title = Absent
      /\ Monitors!Idle.existing = Absent
  BY DEF Monitors!CreateIssue, Monitors!Idle
<1>6. check'[c] = Monitors!Idle /\ \A d \in MonitorsBounds.Checks \ {c} :
     check'[d] = check[d]
  BY <1>0, <1>5 DEF Monitors!TypeOK
<1>7. Monitors!Listing' = Monitors!Listing \ {c}
     /\ Monitors!Listing \subseteq MonitorsBounds.Checks
  BY <1>5, <1>6 DEF Monitors!Listing, Monitors!At
<1>8. Monitors!TypeOK'
  <2>1. \A k, l \in 1..Len(issues') : issues'[k].number = issues'[l].number => k = l
    <3>1. ASSUME NEW k \in 1..Len(issues'), NEW l \in 1..Len(issues'),
                 issues'[k].number = issues'[l].number
          PROVE  k = l
      <4>1. k = 1 \/ k \in 2..Len(issues')
        BY <1>0, <1>4
      <4>2. l = 1 \/ l \in 2..Len(issues')
        BY <1>0, <1>4
      <4>3. CASE k = 1 \/ l = 1
        BY <1>3, <1>4, <3>1, <4>1, <4>2, <4>3
      <4>4. CASE k \in 2..Len(issues') /\ l \in 2..Len(issues')
        <5>1. issues[k - 1].number = issues[l - 1].number /\ k - 1 \in 1..Len(issues)
              /\ l - 1 \in 1..Len(issues)
          BY <1>4, <3>1, <4>4
        <5>2. k - 1 = l - 1
          BY <1>0, <5>1 DEF Monitors!TypeOK
        <5>. QED  BY <4>4, <5>2
      <4>. QED  BY <4>1, <4>2, <4>3, <4>4
    <3>. QED  BY <3>1
  <2>. QED  BY <1>0, <1>4, <1>5, <2>1, IdleCheck DEF Monitors!TypeOK
<1>9. StepsSettle'
  BY <1>0, <1>5, <1>6 DEF StepsSettle
<1>10. NumbersHeld'
  <2>1. \A j \in Monitors!Open' : j = i \/ j \in Monitors!Open
    <3>1. \A k \in 1..Len(issues') : k = 1 \/ k \in 2..Len(issues')
      BY <1>0, <1>4
    <3>. QED  BY <1>4, <3>1 DEF Monitors!Open
  <2>2. i.number # Absent /\ \A j \in Monitors!Open : j.number # Absent
    <3>1. \A k \in 1..Len(issues) : issues[k] \in Monitors!Issue
      BY <1>0
    <3>2. \A j \in Monitors!Issue : j.number # Absent
      BY DEF Monitors!Issue, Monitors!ConstantsAssumption
    <3>. QED  BY <3>1, <3>2 DEF Monitors!Open
  <2>. QED  BY <1>0, <1>3, <1>5, <1>6, <2>1, <2>2 DEF NumbersHeld
<1>11. Clear(c) => \A k \in 1..Len(issues) : issues[k].title # x
  BY <1>0 DEF SeesInv, Sees
<1>12. OneInv'
  <2>1. ASSUME NEW y \in MonitorsBounds.Titles \ crossedTitles,
               NEW k \in 1..Len(issues'), NEW l \in 1..Len(issues'),
               issues'[k].title = y, issues'[l].title = y
        PROVE  k = l
    <3>1. k = 1 \/ k \in 2..Len(issues')
      BY <1>0, <1>4
    <3>2. l = 1 \/ l \in 2..Len(issues')
      BY <1>0, <1>4
    <3>3. CASE k = 1 \/ l = 1
      <4>1. y = x
        BY <1>3, <1>4, <2>1, <3>3
      <4>2. Clear(c)
        BY <2>1, <4>1 DEF Clear
      <4>. QED  BY <1>4, <1>11, <2>1, <3>1, <3>2, <3>3, <4>1, <4>2
    <3>4. CASE k \in 2..Len(issues') /\ l \in 2..Len(issues')
      <4>1. /\ issues[k - 1].title = y /\ issues[l - 1].title = y
            /\ k - 1 \in 1..Len(issues) /\ l - 1 \in 1..Len(issues)
        BY <1>4, <2>1, <3>4
      <4>2. k - 1 = l - 1
        BY <1>0, <4>1 DEF OneInv
      <4>. QED  BY <3>4, <4>2
    <3>. QED  BY <3>1, <3>2, <3>3, <3>4
  <2>2. \A y \in MonitorsBounds.Titles \ crossedTitles :
       \A d, e \in Monitors!Listing' :
            check'[d].title = y /\ check'[e].title = y => d = e
    BY <1>0, <1>6, <1>7 DEF OneInv
  <2>. QED  BY <1>5, <2>1, <2>2 DEF OneInv
<1>13. LoneInv'
  <2>. SUFFICES ASSUME NEW d \in lone, check'[d].pc # "idle"
                PROVE  /\ \A e \in MonitorsBounds.Checks :
                            check'[e].title = check'[d].title => e = d
                       /\ check'[d].existing # Absent =>
                            \E k \in 1..Len(issues') :
                                 issues'[k].number = check'[d].existing
    BY <1>5 DEF LoneInv, Monitors!At
  <2>1. d \in MonitorsBounds.Checks \ {c} /\ check'[d] = check[d]
       /\ check[d].title # Absent
    BY <1>0, <1>5, <1>6 DEF Monitors!TypeOK, StepsSettle,
         Monitors!ConstantsAssumption
  <2>2. /\ \A e \in MonitorsBounds.Checks : check[e].title = check[d].title => e = d
        /\ check[d].existing # Absent =>
             \E k \in 1..Len(issues) : issues[k].number = check[d].existing
    BY <1>0, <2>1 DEF LoneInv, Monitors!At
  <2>3. \A e \in MonitorsBounds.Checks : check'[e].title \in {check[e].title, Absent}
    BY <1>5, <1>6
  <2>. QED  BY <1>4, <2>1, <2>2, <2>3
<1>14. SeesInv'
  <2>. SUFFICES ASSUME NEW d \in Monitors!Listing, d # c, Clear(d)' PROVE Sees(d)'
    BY <1>7 DEF SeesInv
  <2>1. check'[d] = check[d] /\ Clear(d) /\ Sees(d) /\ d \in MonitorsBounds.Checks
    BY <1>0, <1>5, <1>6, <1>7 DEF Clear, SeesInv
  <2>2. check[d].title # x
    <3>1. CASE check[d].title \notin crossedTitles
      BY <1>0, <1>7, <3>1 DEF OneInv
    <3>2. CASE d \in lone
      BY <1>0, <2>1, <3>2 DEF LoneInv, Monitors!At, Monitors!Listing
    <3>. QED  BY <2>1, <3>1, <3>2 DEF Clear
  <2>3. \A k \in 1..Len(issues') : issues'[k].title = check[d].title =>
            k - 1 \in 1..Len(issues) /\ issues[k - 1].title = check[d].title
    <3>1. \A k \in 1..Len(issues') : k = 1 \/ k \in 2..Len(issues')
      BY <1>0, <1>4
    <3>. QED  BY <1>3, <1>4, <2>2, <3>1
  <2>4. ASSUME check[d].pc = "list", check[d].existing = Absent,
               NEW k \in 1..Len(issues'), issues'[k].title = check[d].title
        PROVE  k > (check[d].page - 1) * MonitorsBounds.PerPage
    <3>1. k - 1 > (check[d].page - 1) * MonitorsBounds.PerPage
      BY <2>1, <2>3, <2>4 DEF Sees
    <3>2. (check[d].page - 1) * MonitorsBounds.PerPage \in Nat
      <4>1. check[d].page \in Nat \ {0}
        BY <1>0, <2>1, <2>4 DEF Monitors!TypeOK, Monitors!Check, StepsSettle
      <4>. QED  BY <4>1, PlacesOfPages
    <3>3. k \in Nat
      BY <1>4
    <3>. QED  BY <3>1, <3>2, <3>3
  <2>. QED  BY <2>1, <2>3, <2>4 DEF Sees
<1>. QED  BY <1>8, <1>9, <1>10, <1>12, <1>13, <1>14 DEF IssueInv

\* An issue leaves the list.
LEMMA ClosedKeeps ==
  ASSUME Monitors!ConstantsAssumption, IssueInv, NEW n, Monitors!Closed(n),
         check' \in [MonitorsBounds.Checks -> Monitors!Check], UNCHANGED <<broken, up>>,
         \A d \in MonitorsBounds.Checks : check'[d] \in {check[d], Monitors!Idle},
         lone' \subseteq lone \ Monitors!Shifted,
         \A d \in lone' : check'[d] # Monitors!Idle /\ check'[d].existing # Absent =>
             check'[d].existing # n
  PROVE  IssueInv'
<1>0. Monitors!TypeOK /\ StepsSettle /\ NumbersHeld /\ OneInv /\ LoneInv /\ SeesInv
  BY DEF IssueInv
<1>1. /\ issues' \in Seq(Monitors!Issue) /\ Len(issues') \in Nat
      /\ \A k \in 1..Len(issues') : \E j \in 1..Len(issues) : issues'[k] = issues[j]
      /\ \A j \in 1..Len(issues) : issues[j].number # n =>
            \E k \in 1..Len(issues') : issues'[k] = issues[j]
      /\ \A k, l \in 1..Len(issues') : issues'[k].number = issues'[l].number => k = l
  <2>1. /\ issues' \in Seq(Monitors!Issue)
        /\ \A k \in 1..Len(issues)' : \E j \in 1..Len(issues) :
              issues'[k] = issues[j] /\ issues[j].number # n
        /\ \A j \in 1..Len(issues) : issues[j].number # n =>
              \E k \in 1..Len(issues)' : issues'[k] = issues[j]
        /\ \A k, l \in 1..Len(issues)' : issues'[k].number = issues'[l].number =>
             k = l
    BY <1>0, ClosedIssues, Zenon
  <2>. QED  BY <2>1
<1>2. crossedTitles' = crossedTitles \cup {check[d].title : d \in Monitors!Shifted}
  BY DEF Monitors!Closed
<1>3. Monitors!Idle.pc = "idle" /\ Monitors!Idle.title = Absent
     /\ Monitors!Idle.existing = Absent
  BY DEF Monitors!Idle
<1>4. /\ Monitors!Shifted \subseteq MonitorsBounds.Checks
      /\ Monitors!Listing \subseteq MonitorsBounds.Checks
      /\ Monitors!Listing' \subseteq Monitors!Listing
      /\ \A d \in Monitors!Listing' : check'[d] = check[d]
  BY <1>3 DEF Monitors!Shifted, Monitors!Listing, Monitors!At
<1>5. Monitors!TypeOK'
  <2>1. \A d \in Monitors!Shifted : check[d].title \in MonitorsBounds.Titles
    BY <1>0 DEF Monitors!Shifted, StepsSettle, Monitors!Listing, Monitors!At
  <2>2. crossedTitles' \in SUBSET MonitorsBounds.Titles
       /\ lone' \in SUBSET MonitorsBounds.Checks
    BY <1>0, <1>2, <2>1 DEF Monitors!TypeOK
  <2>. QED  BY <1>0, <1>1, <2>2 DEF Monitors!TypeOK
<1>6. StepsSettle'
  BY <1>0, <1>3 DEF StepsSettle
<1>7. \A i \in Monitors!Open' : i \in Monitors!Open
  BY <1>1 DEF Monitors!Open
<1>8. NumbersHeld'
  <2>1. \A i \in Monitors!Open : i.number # Absent
    <3>1. \A k \in 1..Len(issues) : issues[k] \in Monitors!Issue
      BY <1>0 DEF Monitors!TypeOK
    <3>2. \A j \in Monitors!Issue : j.number # Absent
      BY DEF Monitors!Issue, Monitors!ConstantsAssumption
    <3>. QED  BY <3>1, <3>2 DEF Monitors!Open
  <2>. QED  BY <1>0, <1>3, <1>7, <2>1 DEF NumbersHeld
<1>9. OneInv'
  <2>1. ASSUME NEW x \in MonitorsBounds.Titles \ crossedTitles',
               NEW k \in 1..Len(issues'), NEW l \in 1..Len(issues'),
               issues'[k].title = x, issues'[l].title = x
        PROVE  k = l
    <3>1. PICK a \in 1..Len(issues) : issues'[k] = issues[a]
      BY <1>1
    <3>2. PICK b \in 1..Len(issues) : issues'[l] = issues[b]
      BY <1>1
    <3>3. a = b
      BY <1>0, <1>2, <2>1, <3>1, <3>2 DEF OneInv
    <3>. QED  BY <1>1, <3>1, <3>2, <3>3
  <2>2. \A x \in MonitorsBounds.Titles \ crossedTitles' :
       \A d, e \in Monitors!Listing' :
            check'[d].title = x /\ check'[e].title = x => d = e
    BY <1>0, <1>2, <1>4 DEF OneInv
  <2>. QED  BY <2>1, <2>2 DEF OneInv
<1>10. LoneInv'
  <2>. SUFFICES ASSUME NEW d \in lone', check'[d].pc # "idle"
                PROVE  /\ \A e \in MonitorsBounds.Checks :
                            check'[e].title = check'[d].title => e = d
                       /\ check'[d].existing # Absent =>
                            \E k \in 1..Len(issues') :
                                 issues'[k].number = check'[d].existing
    BY DEF LoneInv, Monitors!At
  <2>1. d \in lone /\ d \in MonitorsBounds.Checks /\ check'[d] = check[d]
       /\ check[d].title # Absent
    BY <1>0, <1>3 DEF Monitors!TypeOK, StepsSettle, Monitors!ConstantsAssumption
  <2>2. /\ \A e \in MonitorsBounds.Checks : check[e].title = check[d].title => e = d
        /\ check[d].existing # Absent =>
             \E k \in 1..Len(issues) : issues[k].number = check[d].existing
    BY <1>0, <2>1 DEF LoneInv, Monitors!At
  <2>3. \A e \in MonitorsBounds.Checks : check'[e].title \in {check[e].title, Absent}
    BY <1>3
  <2>4. check'[d] # Monitors!Idle
    BY <1>3
  <2>. QED  BY <1>1, <2>1, <2>2, <2>3, <2>4
<1>11. SeesInv'
  <2>. SUFFICES ASSUME NEW d \in Monitors!Listing', Clear(d)' PROVE Sees(d)'
    BY DEF SeesInv
  <2>1. check'[d] = check[d] /\ d \in Monitors!Listing /\ d \in MonitorsBounds.Checks
    BY <1>4
  <2>2. d \notin Monitors!Shifted /\ Clear(d)
    BY <1>2, <2>1 DEF Clear
  <2>3. Sees(d)
    BY <1>0, <2>1, <2>2 DEF SeesInv
  <2>4. ASSUME check[d].pc = "list", NEW k \in 1..Len(issues')
        PROVE  k > (check[d].page - 1) * MonitorsBounds.PerPage
    <3>1. check[d].page = 1
      BY <1>0, <2>1, <2>2, <2>4 DEF Monitors!Shifted, Monitors!At, StepsSettle,
           Monitors!TypeOK, Monitors!Check
    <3>2. (check[d].page - 1) * MonitorsBounds.PerPage = 0
      BY <3>1 DEF Monitors!ConstantsAssumption
    <3>. QED  BY <1>1, <3>2
  <2>. QED  BY <1>1, <2>1, <2>3, <2>4 DEF Sees
<1>. QED  BY <1>5, <1>6, <1>8, <1>9, <1>10, <1>11 DEF IssueInv

LEMMA ClosingKeeps ==
  ASSUME Monitors!ConstantsAssumption, IssueInv,
         \/ \E c \in MonitorsBounds.Checks : Monitors!CloseIssue(c)
         \/ \E i \in Monitors!Issue : Monitors!CloseByHand(i)
  PROVE  IssueInv'
<1>0. /\ Monitors!TypeOK /\ StepsSettle /\ NumbersHeld /\ LoneInv
      /\ check \in [MonitorsBounds.Checks -> Monitors!Check]
      /\ lone \subseteq MonitorsBounds.Checks
  BY DEF IssueInv, Monitors!TypeOK
<1>1. ASSUME NEW c \in MonitorsBounds.Checks, Monitors!CloseIssue(c) PROVE IssueInv'
  <2>1. /\ Monitors!Closed(check[c].existing)
        /\ check' = [check EXCEPT ![c] = Monitors!Idle]
        /\ lone' \subseteq lone \ Monitors!Shifted /\ UNCHANGED <<broken, up>>
        /\ check[c].title \in MonitorsBounds.Titles
    BY <1>0, <1>1 DEF Monitors!CloseIssue, StepsSettle, Monitors!At
  <2>2. check' \in [MonitorsBounds.Checks -> Monitors!Check]
       /\ check'[c] = Monitors!Idle
        /\ \A d \in MonitorsBounds.Checks \ {c} : check'[d] = check[d]
    BY <1>0, <2>1, IdleCheck
  <2>3. ASSUME NEW d \in lone', check'[d] # Monitors!Idle,
               check'[d].existing # Absent
        PROVE  check'[d].existing # check[c].existing
    <3>1. d \in lone /\ d \in MonitorsBounds.Checks \ {c} /\ check'[d] = check[d]
         /\ check[d].pc # "idle"
      BY <1>0, <2>1, <2>2, <2>3 DEF StepsSettle
    <3>2. PICK k \in 1..Len(issues) : issues[k].number = check[d].existing
      BY <1>0, <2>3, <3>1 DEF LoneInv, Monitors!At
    <3>3. issues[k].title = check[d].title /\ check[c].title # check[d].title
      BY <1>0, <3>1, <3>2 DEF NumbersHeld, Monitors!Open, LoneInv, Monitors!At
    <3>. QED  BY <1>0, <3>1, <3>2, <3>3 DEF NumbersHeld, Monitors!Open
  <2>. QED  BY <2>1, <2>2, <2>3, ClosedKeeps
<1>2. ASSUME NEW i \in Monitors!Issue, Monitors!CloseByHand(i) PROVE IssueInv'
  <2>1. /\ Monitors!Closed(i.number) /\ check' = check
        /\ UNCHANGED <<broken, up>> /\ i \in Monitors!Open
        /\ lone' = lone \ (Monitors!Shifted \cup Monitors!Running(i.title))
    BY <1>2 DEF Monitors!CloseByHand
  <2>2. ASSUME NEW d \in lone' PROVE check[d].existing # i.number
    BY <1>0, <2>1, <2>2 DEF NumbersHeld, Monitors!Running
  <2>. QED  BY <1>0, <2>1, <2>2, ClosedKeeps
<1>. QED  BY <1>1, <1>2

LEMMA IssueStep ==
  ASSUME Monitors!ConstantsAssumption, IssueInv, [Monitors!Next]_(Monitors!vars)
  PROVE  IssueInv'
<1>1. CASE \/ Monitors!Outage \/ (\E x \in MonitorsBounds.Titles :
                Monitors!Break(x) \/ Monitors!Repair(x)) \/ UNCHANGED Monitors!vars
  <2>1. UNCHANGED <<issues, check, crossedTitles, lone>>
    BY <1>1 DEF Monitors!Outage, Monitors!Break, Monitors!Repair, Monitors!vars
  <2>2. broken' \in SUBSET MonitorsBounds.Titles /\ up' \in BOOLEAN
    BY <1>1 DEF Monitors!Outage, Monitors!Break, Monitors!Repair, Monitors!vars,
         IssueInv, Monitors!TypeOK
  <2>3. Monitors!TypeOK'
    BY <2>1, <2>2 DEF IssueInv, Monitors!TypeOK
  <2>4. /\ StepsSettle' <=> StepsSettle
        /\ NumbersHeld' <=> NumbersHeld
        /\ OneInv' <=> OneInv
        /\ LoneInv' <=> LoneInv
        /\ SeesInv' <=> SeesInv
    BY <2>1 DEF StepsSettle, NumbersHeld, OneInv, LoneInv, SeesInv, Sees, Clear,
         Monitors!Open, Monitors!Listing, Monitors!At
  <2>. QED  BY <2>3, <2>4 DEF IssueInv
<1>2. ASSUME NEW c \in MonitorsBounds.Checks, Monitors!Step(c) PROVE IssueInv'
  BY <1>2, PingsKeep, ReadKeeps, CommentsKeep, CreateKeeps, ClosingKeeps
       DEF Monitors!Step
<1>. QED  BY <1>1, <1>2, StartKeeps, ClosingKeeps DEF Monitors!Next

-----------------------------------------------------------------------------
\* The sizes of sets, as IssueSync has them.
LEMMA Sizes ==
  ASSUME NEW S
  PROVE  Monitors!Cardinality(S) = Cardinality(S)
       /\ Monitors!IsFiniteSet(S) = IsFiniteSet(S)
BY DEF Monitors!Cardinality, Cardinality, Monitors!IsFiniteSet, IsFiniteSet

LEMMA OneFollows ==
  ASSUME IssueInv
  PROVE  Monitors!OneIssuePerTitle
<1>. SUFFICES ASSUME NEW x \in MonitorsBounds.Titles \ crossedTitles PROVE Cardinality(Monitors!OpenOf(x)) <= 1
  BY Sizes DEF Monitors!OneIssuePerTitle
<1>1. \A i, j \in Monitors!OpenOf(x) : i = j
  BY DEF IssueInv, OneInv, Monitors!OpenOf, Monitors!Open
<1>2. CASE Monitors!OpenOf(x) = {}
  BY <1>2, FS_EmptySet
<1>3. CASE Monitors!OpenOf(x) # {}
  <2>1. PICK i : Monitors!OpenOf(x) = {i}
    BY <1>1, <1>3
  <2>2. Cardinality({i}) = 1
    BY FS_Singleton
  <2>3. Cardinality(Monitors!OpenOf(x)) = 1
    BY <2>1, <2>2, Zenon
  <2>. QED  BY <2>3
<1>. QED  BY <1>2, <1>3

LEMMA OpenIsFinite ==
  ASSUME Monitors!ConstantsAssumption, IssueInv, NEW x
  PROVE  IsFiniteSet(Monitors!OpenOf(x))
<1>1. IsFiniteSet(MonitorsBounds.Numbers)
  BY Sizes DEF Monitors!ConstantsAssumption
<1>2. \A i \in Monitors!Open : i \in Monitors!Issue
  BY DEF Monitors!Open, IssueInv, Monitors!TypeOK
<1>3. \A i, j \in Monitors!Open : i.number = j.number => i = j
  BY DEF Monitors!Open, IssueInv, Monitors!TypeOK
<1>. DEFINE f == [i \in Monitors!OpenOf(x) |-> i.number]
<1>4. f \in Injection(Monitors!OpenOf(x), MonitorsBounds.Numbers)
  BY <1>2, <1>3 DEF Injection, IsInjective, Monitors!OpenOf, Monitors!Issue
<1>. HIDE DEF f
<1>. QED  BY <1>1, <1>4, FS_Injection

\* What a check leaves that nothing interfered with.
LEMMA LoneStep ==
  ASSUME Monitors!ConstantsAssumption, IssueInv, [Monitors!Next]_(Monitors!vars)
  PROVE  Monitors!LoneCheckSettled
<1>. SUFFICES ASSUME NEW c \in MonitorsBounds.Checks,
                     NEW x \in MonitorsBounds.Titles,
                     c \in Monitors!Listing, check[c].title = x, check'[c] = Monitors!Idle,
                     c \in lone, c \in lone'
              PROVE  IF check[c].recovered
                     THEN Monitors!OpenOf(x)' = {}
                          \/ Cardinality(Monitors!OpenOf(x)') < Cardinality(Monitors!OpenOf(x))
                     ELSE Monitors!OpenOf(x)' # {}
  BY Sizes DEF Monitors!LoneCheckSettled
<1>0. /\ Monitors!TypeOK /\ StepsSettle /\ NumbersHeld /\ LoneInv /\ Clear(c)
      /\ Sees(c)
      /\ check[c] # Monitors!Idle /\ check[c].pc \notin {"idle", "measure"}
      /\ check \in [MonitorsBounds.Checks -> Monitors!Check]
  BY DEF IssueInv, Monitors!TypeOK, Clear, SeesInv, Monitors!Listing, Monitors!At,
       Monitors!Idle
<1>1. check[c].existing # Absent =>
          \E i \in Monitors!Open : i.number = check[c].existing /\ i.title = x
  BY <1>0 DEF LoneInv, NumbersHeld, Monitors!Open, Monitors!At
<1>2. \A d \in MonitorsBounds.Checks : d # c => check[d].title # x
  BY <1>0 DEF LoneInv, Monitors!At
<1>3. CASE Monitors!ReadPage(c)
  <2>. DEFINE p == check[c].page
              e == IF check[c].existing # Absent THEN check[c].existing
                   ELSE Monitors!FindOnPage(Monitors!Page(p), check[c].title)
              k == IF Monitors!IsLastPage(Monitors!Page(p)) THEN Monitors!AfterList(c, e)
                   ELSE [check[c] EXCEPT !.page = @ + 1, !.existing = e]
  <2>1. k = Monitors!Idle /\ issues' = issues
    BY <1>0, <1>3 DEF Monitors!ReadPage
  <2>2. /\ check[c] \in Monitors!Check /\ e \in MonitorsBounds.Numbers \cup {Absent}
        /\ e = Absent => \A n \in 1..Len(issues) : issues[n].title = x =>
             n > p * MonitorsBounds.PerPage
        /\ Monitors!IsLastPage(Monitors!Page(p)) =>
             Len(issues) < p * MonitorsBounds.PerPage
        /\ p * MonitorsBounds.PerPage \in Nat
    BY <1>0, <1>3, PageSeen DEF Monitors!ReadPage
  <2>. HIDE DEF e
  <2>3. Monitors!IsLastPage(Monitors!Page(p)) /\ e = Absent /\ check[c].recovered
    <3>1. [check[c] EXCEPT !.page = @ + 1, !.existing = e].pc # "idle"
      BY <1>0, <2>2 DEF Monitors!Check
    <3>2. [check[c] EXCEPT !.pc = "comment", !.existing = e, !.page = 0].pc # "idle"
      BY <2>2 DEF Monitors!Check
    <3>3. [check[c] EXCEPT !.pc = "create", !.page = 0].pc # "idle"
      BY <2>2 DEF Monitors!Check
    <3>4. Monitors!Idle.pc = "idle"
      BY DEF Monitors!Idle
    <3>. QED  BY <2>1, <3>1, <3>2, <3>3, <3>4 DEF Monitors!AfterList
  <2>4. \A n \in 1..Len(issues) : issues[n].title # x
    BY <1>0, <2>2, <2>3 DEF Monitors!TypeOK
  <2>. QED  BY <2>1, <2>3, <2>4 DEF Monitors!OpenOf, Monitors!Open
<1>4. CASE Monitors!AddComment(c)
  <2>1. ~check[c].recovered
    <3>1. [check[c] EXCEPT !.pc = "close"].pc # "idle" /\ Monitors!Idle.pc = "idle"
      BY <1>0 DEF Monitors!Check, Monitors!Idle
    <3>. QED  BY <1>0, <1>4, <3>1 DEF Monitors!AddComment, Monitors!AfterComment
  <2>2. check[c].existing # Absent /\ issues' = issues
    BY <1>0, <1>4 DEF Monitors!AddComment, Monitors!At, StepsSettle,
         Monitors!ConstantsAssumption
  <2>. QED  BY <1>1, <2>1, <2>2 DEF Monitors!OpenOf, Monitors!Open
<1>5. CASE Monitors!CreateIssue(c)
  <2>1. ~check[c].recovered
    BY <1>0, <1>5 DEF Monitors!CreateIssue, Monitors!At, StepsSettle
  <2>2. PICK n \in Monitors!FreeNumbers :
       issues' = <<[number |-> n, title |-> x]>> \o issues
    BY <1>5 DEF Monitors!CreateIssue
  <2>3. PICK i \in Monitors!Issue : i = [number |-> n, title |-> x]
    BY DEF Monitors!FreeNumbers, Monitors!Issue
  <2>4. issues' = <<i>> \o issues /\ issues \in Seq(Monitors!Issue) /\ i.title = x
    BY <1>0, <2>2, <2>3 DEF Monitors!TypeOK
  <2>5. issues'[1] = i /\ 1 \in 1..Len(issues')
    BY <2>4
  <2>. QED  BY <2>1, <2>4, <2>5 DEF Monitors!OpenOf, Monitors!Open
<1>6. CASE Monitors!CloseIssue(c)
  <2>. DEFINE n == check[c].existing
  <2>1. Monitors!Closed(n) /\ check[c].recovered /\ n \in MonitorsBounds.Numbers
    BY <1>0, <1>6 DEF Monitors!CloseIssue, Monitors!At, StepsSettle
  <2>2. PICK i \in Monitors!Open : i.number = n /\ i.title = x
    BY <1>1, <2>1 DEF Monitors!ConstantsAssumption
  <2>3. /\ \A k \in 1..Len(issues') : \E j \in 1..Len(issues) :
             issues'[k] = issues[j] /\ issues[j].number # n
        /\ \A j \in 1..Len(issues) : issues[j].number # n =>
             \E k \in 1..Len(issues') : issues'[k] = issues[j]
    BY <1>0, <2>1, ClosedIssues
  <2>. HIDE DEF n
  <2>4. \A j \in Monitors!Open : j.number = n => j = i
    BY <1>0, <2>2 DEF Monitors!TypeOK, Monitors!Open
  <2>5. \A j : j \in Monitors!Open' <=> j \in Monitors!Open /\ j.number # n
    <3>1. ASSUME NEW j \in Monitors!Open' PROVE j \in Monitors!Open /\ j.number # n
      BY <2>3, <3>1 DEF Monitors!Open
    <3>2. ASSUME NEW j \in Monitors!Open, j.number # n PROVE j \in Monitors!Open'
      BY <2>3, <3>2 DEF Monitors!Open
    <3>. QED  BY <3>1, <3>2
  <2>6. Monitors!OpenOf(x)' = Monitors!OpenOf(x) \ {i} /\ i \in Monitors!OpenOf(x)
    BY <2>2, <2>4, <2>5 DEF Monitors!OpenOf
  <2>7. Cardinality(Monitors!OpenOf(x) \ {i}) = Cardinality(Monitors!OpenOf(x)) - 1
    BY <2>6, OpenIsFinite, FS_RemoveElement
  <2>8. Cardinality(Monitors!OpenOf(x)) \in Nat
    BY OpenIsFinite, FS_CardinalityType
  <2>. QED  BY <2>1, <2>6, <2>7, <2>8
<1>7. CASE Monitors!Evaluate(c) \/ Monitors!PingOk(c) \/ Monitors!PingFailed(c)
     \/ Monitors!Fail(c)
  BY <1>0, <1>7 DEF Monitors!Evaluate, Monitors!PingOk, Monitors!PingFailed,
       Monitors!Fail, Monitors!At
<1>8. ASSUME NEW d \in MonitorsBounds.Checks \ {c}, Monitors!Step(d)
             \/ \E y \in MonitorsBounds.Titles : Monitors!Start(d, y) PROVE FALSE
  <2>1. check'[c] = check[c]
    <3>. USE <1>0
    <3>1. CASE Monitors!Evaluate(d) \/ Monitors!PingOk(d) \/ Monitors!PingFailed(d)
      BY <3>1 DEF Monitors!Evaluate, Monitors!PingOk, Monitors!PingFailed,
           Monitors!Measured
    <3>2. CASE Monitors!ReadPage(d)
      BY <3>2 DEF Monitors!ReadPage
    <3>3. CASE Monitors!AddComment(d) \/ Monitors!CreateIssue(d)
      BY <3>3 DEF Monitors!AddComment, Monitors!CreateIssue
    <3>4. CASE Monitors!CloseIssue(d) \/ Monitors!Fail(d)
      BY <3>4 DEF Monitors!CloseIssue, Monitors!Fail
    <3>5. CASE \E y \in MonitorsBounds.Titles : Monitors!Start(d, y)
      BY <3>5 DEF Monitors!Start
    <3>. QED  BY <1>8, <3>1, <3>2, <3>3, <3>4, <3>5 DEF Monitors!Step
  <2>. QED  BY <1>0, <2>1
<1>9. CASE \/ Monitors!Outage \/ (\E y \in MonitorsBounds.Titles :
                Monitors!Break(y) \/ Monitors!Repair(y)) \/ UNCHANGED Monitors!vars
           \/ \E i \in Monitors!Issue : Monitors!CloseByHand(i)
  BY <1>0, <1>9 DEF Monitors!Outage, Monitors!Break, Monitors!Repair, Monitors!vars,
       Monitors!CloseByHand
<1>10. ASSUME NEW y \in MonitorsBounds.Titles, Monitors!Start(c, y) PROVE FALSE
  BY <1>0, <1>10 DEF Monitors!Start, Monitors!At
<1>11. CASE Monitors!Step(c)
  BY <1>3, <1>4, <1>5, <1>6, <1>7, <1>11 DEF Monitors!Step
<1>. QED  BY <1>8, <1>9, <1>10, <1>11 DEF Monitors!Next

LEMMA IssueStarts ==
  ASSUME Monitors!ConstantsAssumption, Monitors!Init
  PROVE  IssueInv
<1>1. issues = <<>> /\ Len(issues) = 0 /\ 1..Len(issues) = {}
  BY DEF Monitors!Init
<1>2. Monitors!TypeOK
  BY <1>1, IdleCheck DEF Monitors!Init, Monitors!TypeOK
<1>3. Monitors!Listing = {} /\ Monitors!Open = {}
  BY <1>1 DEF Monitors!Init, Monitors!Listing, Monitors!At, Monitors!Idle,
       Monitors!Open
<1>4. StepsSettle
  BY DEF Monitors!Init, StepsSettle, Monitors!Idle
<1>5. NumbersHeld /\ OneInv /\ LoneInv /\ SeesInv
  BY <1>1, <1>3 DEF Monitors!Init, NumbersHeld, OneInv, LoneInv, SeesInv
<1>. QED  BY <1>2, <1>4, <1>5 DEF IssueInv

LEMMA IssuesHold == Monitors!Spec => []IssueInv
<1>1. Monitors!ConstantsAssumption
  BY SingleServicesAssumption
<1>2. Monitors!Init => IssueInv
  BY <1>1, IssueStarts
<1>3. IssueInv /\ [Monitors!Next]_(Monitors!vars) => IssueInv'
  BY <1>1, IssueStep
<1>. QED  BY <1>2, <1>3, PTL DEF Monitors!Spec

LEMMA IssueTypes == Monitors!Spec => []Monitors!TypeOK
<1>1. IssueInv => Monitors!TypeOK
  BY DEF IssueInv
<1>. QED  BY <1>1, IssuesHold, PTL

LEMMA IssuesAlone == Monitors!Spec => []Monitors!OneIssuePerTitle
<1>1. IssueInv => Monitors!OneIssuePerTitle
  BY OneFollows
<1>. QED  BY <1>1, IssuesHold, PTL

LEMMA ChecksSettle == Monitors!Spec => [][Monitors!LoneCheckSettled]_(Monitors!vars)
<1>1. IssueInv /\ [Monitors!Next]_(Monitors!vars)
        => [Monitors!LoneCheckSettled]_(Monitors!vars)
  BY SingleServicesAssumption, LoneStep
<1>. QED  BY <1>1, IssuesHold, PTL DEF Monitors!Spec

-----------------------------------------------------------------------------
(* Requests to the api.  First what the tables of routes say of a request,  *)
(* then the invariant: a request has no context before it is authorised,   *)
(* and beyond that it has its own, for which it was admitted.              *)

\* The requests the tables admit, prefix patterns and what they stand for alike.
\* HEAD goes to the handlers of GET, but no table names it.
PublicPairs ==
    Router!On({"GET"},
       {"/health", "/openapi.json", "/docs", "/place/docs", "/race/docs",
        "/auth/join-request/*", "/auth/join-request/:id"})
    \cup Router!On({"POST"},
            {"/push/dispatch", "/auth/invite/verify", "/auth/register/options",
             "/auth/register/verify", "/auth/login/options",
             "/auth/login/verify", "/auth/logout", "/auth/join-request"})
SessionPairs ==
    Router!On({"GET", "POST"}, {"/player"})
    \cup Router!On({"POST", "DELETE"}, {"/push/subscription", "/push/request"})
    \cup Router!On({"POST"}, {"/push/test"})
    \cup Router!On({"GET", "POST", "DELETE"}, {"/favorite"})
    \cup Router!On({"PATCH"}, {"/auth/credential/*", "/auth/credential/:id"})

LEMMA HeadMatchesNone ==
  ASSUME NEW path
  PROVE  Router!ResolvePolicy("HEAD", path) = "service-only"
<1>1. ~Router!Matches("HEAD", path, Router!PublicRoutes)
  BY DEF Router!Matches, Router!PublicRoutes, Router!On
<1>2. ~Router!Matches("HEAD", path, Router!ServiceOrSessionRoutes)
  BY DEF Router!Matches, Router!ServiceOrSessionRoutes, Router!On
<1>3. ~Router!Matches("HEAD", path, Router!SessionOnlyRoutes)
  BY DEF Router!Matches, Router!SessionOnlyRoutes, Router!On
<1>. QED  BY <1>1, <1>2, <1>3 DEF Router!ResolvePolicy

LEMMA PublicMatches ==
  ASSUME NEW method, NEW path, Router!Matches(method, path, Router!PublicRoutes)
  PROVE  method = "OPTIONS" \/ <<method, path>> \in PublicPairs
BY DEF Router!Matches, Router!PublicRoutes, Router!MatchesPath, Router!Below,
     PublicPairs, Router!On

LEMMA EitherMatches ==
  ASSUME NEW method, NEW path
  PROVE  Router!Matches(method, path, Router!ServiceOrSessionRoutes)
         <=> <<method, path>> \in Router!ServiceOrSessionRoutes
BY DEF Router!Matches, Router!ServiceOrSessionRoutes, Router!MatchesPath,
     Router!Below, Router!On

LEMMA SessionMatches ==
  ASSUME NEW method, NEW path, Router!Matches(method, path, Router!SessionOnlyRoutes)
  PROVE  <<method, path>> \in SessionPairs
BY DEF Router!Matches, Router!SessionOnlyRoutes, Router!MatchesPath, Router!Below,
     SessionPairs, Router!On

\* What belongs to a user is neither public nor open to Workers.
LEMMA UsersOnly ==
  ASSUME NEW method, NEW path,
         Router!HandlerOf(method, path)
             \in Router!DocumentedSessionOnly \cup Router!UserHandlers
  PROVE  /\ Router!ResolvePolicy(method, path) # "public"
         /\ method # "HEAD" =>
              ~Router!AcceptsServiceAuth(Router!ResolvePolicy(method, path))
<1>1. CASE method = "HEAD"
  BY <1>1, HeadMatchesNone
<1>2. CASE method # "HEAD"
  <2>1. <<method, path>> \in SessionPairs
    BY <1>2 DEF Router!HandlerOf, Router!DocumentedSessionOnly, Router!UserHandlers,
         Router!DocumentedPlayer, Router!DocumentedSubscription,
         Router!DocumentedRequest, Router!DocumentedTest, Router!FavoriteHandlers,
         Router!WatchHandlers, Router!CredentialHandlers, Router!FavoriteRoutes,
         Router!PlayerRoutes, SessionPairs, Router!On
  <2>2. method # "OPTIONS" /\ path \notin {"/auth/credential/*"}
    BY <1>2 DEF Router!HandlerOf, Router!DocumentedSessionOnly, Router!UserHandlers,
         Router!DocumentedPlayer, Router!DocumentedSubscription,
         Router!DocumentedRequest, Router!DocumentedTest, Router!FavoriteHandlers,
         Router!WatchHandlers, Router!CredentialHandlers, Router!FavoriteRoutes,
         Router!PlayerRoutes, Router!On
  <2>3. <<method, path>> \notin PublicPairs
    BY <2>1 DEF PublicPairs, SessionPairs, Router!On
  <2>4. <<method, path>> \notin Router!ServiceOrSessionRoutes
    BY <2>1 DEF Router!ServiceOrSessionRoutes, SessionPairs, Router!On
  <2>5. Router!Matches(method, path, Router!SessionOnlyRoutes)
    <3>1. CASE <<method, path>> = <<"PATCH", "/auth/credential/:id">>
      <4>1. <<"PATCH", "/auth/credential/*">> \in Router!SessionOnlyRoutes
        BY DEF Router!SessionOnlyRoutes, Router!On
      <4>2. Router!MatchesPath("/auth/credential/*", "/auth/credential/:id")
        BY DEF Router!MatchesPath, Router!Below
      <4>. QED  BY <3>1, <4>1, <4>2 DEF Router!Matches
    <3>2. CASE <<method, path>> # <<"PATCH", "/auth/credential/:id">>
      <4>1. <<method, path>> \in Router!SessionOnlyRoutes
        BY <2>1, <2>2, <3>2 DEF SessionPairs, Router!SessionOnlyRoutes, Router!On
      <4>. QED  BY <4>1 DEF Router!Matches, Router!MatchesPath
    <3>. QED  BY <3>1, <3>2
  <2>6. /\ ~Router!Matches(method, path, Router!PublicRoutes)
        /\ ~Router!Matches(method, path, Router!ServiceOrSessionRoutes)
    BY <2>2, <2>3, <2>4, PublicMatches, EitherMatches
  <2>. QED  BY <2>5, <2>6 DEF Router!ResolvePolicy, Router!AcceptsServiceAuth
<1>. QED  BY <1>1, <1>2

\* What the document promises to either is not public.
LEMMA EitherOnly ==
  ASSUME NEW method, NEW path,
         Router!HandlerOf(method, path) \in Router!DocumentedEither
  PROVE  Router!ResolvePolicy(method, path) # "public"
<1>1. CASE method = "HEAD"
  BY <1>1, HeadMatchesNone
<1>2. CASE method # "HEAD"
  <2>1. <<method, path>> \in Router!DocumentedEither /\ method # "OPTIONS"
    BY <1>2 DEF Router!HandlerOf, Router!DocumentedEither,
         Router!DocumentedServiceOrSession, Router!DocumentedPlace,
         Router!DocumentedRace, Router!On
  <2>2. <<method, path>> \notin PublicPairs
    BY <2>1 DEF Router!DocumentedEither, Router!DocumentedServiceOrSession,
         Router!DocumentedPlace, Router!DocumentedRace, PublicPairs, Router!On
  <2>3. ~Router!Matches(method, path, Router!PublicRoutes)
    BY <2>1, <2>2, PublicMatches
  <2>. QED  BY <2>3 DEF Router!ResolvePolicy
<1>. QED  BY <1>1, <1>2

\* What is neither documented nor meant for callers without an account.
WorkersOnly ==
    Router!Registered
    \ (Router!DocumentedEither \cup Router!DocumentedSessionOnly
       \cup Router!UserHandlers \cup Router!DocumentedPublic
       \cup Router!DocsRoutes \cup Router!AuthCeremonyRoutes
       \cup Router!PushDispatchRoutes
       \cup Router!On({"GET"}, {"/place/docs", "/race/docs"}))

LEMMA ServiceOnly ==
  ASSUME NEW method, NEW path, Router!HandlerOf(method, path) \in WorkersOnly
  PROVE  Router!ResolvePolicy(method, path) = "service-only"
<1>1. CASE method = "HEAD"
  BY <1>1, HeadMatchesNone
<1>2. CASE method # "HEAD"
  <2>1. <<method, path>> \in WorkersOnly
    BY <1>2 DEF Router!HandlerOf
  <2>2. method # "OPTIONS"
    BY <2>1 DEF WorkersOnly, Router!Registered, Router!CalendarRoutes,
         Router!PlaceRoutes, Router!RaceRoutes, Router!PlayerRoutes,
         Router!FavoriteRoutes, Router!AuthAdminRoutes, Router!AuthCeremonyRoutes,
         Router!PushSubscriptionRoutes, Router!PushDispatchRoutes,
         Router!ServerDrivenUiRoutes, Router!ReleaseNoteRoutes, Router!DocsRoutes,
         Router!InternalRoutes, Router!DebugRoutes, Router!BackfillRoutes,
         Router!BatchLockRoutes, Router!FeatureFlagRoutes,
         Router!AllReleaseNotesRoutes, Router!UiLayoutRoutes, Router!On
  <2>3. path \notin {"/auth/join-request/*", "/auth/credential/*"}
    BY <2>1 DEF WorkersOnly, Router!Registered, Router!CalendarRoutes,
         Router!PlaceRoutes, Router!RaceRoutes, Router!PlayerRoutes,
         Router!FavoriteRoutes, Router!AuthAdminRoutes, Router!AuthCeremonyRoutes,
         Router!PushSubscriptionRoutes, Router!PushDispatchRoutes,
         Router!ServerDrivenUiRoutes, Router!ReleaseNoteRoutes, Router!DocsRoutes,
         Router!InternalRoutes, Router!DebugRoutes, Router!BackfillRoutes,
         Router!BatchLockRoutes, Router!FeatureFlagRoutes,
         Router!AllReleaseNotesRoutes, Router!UiLayoutRoutes, Router!On
  <2>4. <<method, path>> \notin PublicPairs
    BY <2>1, <2>3 DEF WorkersOnly, PublicPairs, Router!DocumentedPublic,
         Router!DocsRoutes, Router!AuthCeremonyRoutes, Router!PushDispatchRoutes,
         Router!On
  <2>5. <<method, path>> \notin Router!ServiceOrSessionRoutes
    BY <2>1 DEF WorkersOnly, Router!ServiceOrSessionRoutes, Router!DocumentedEither,
         Router!DocumentedServiceOrSession, Router!DocumentedPlace,
         Router!DocumentedRace, Router!On
  <2>6. <<method, path>> \notin SessionPairs
    BY <2>1, <2>3 DEF WorkersOnly, SessionPairs, Router!DocumentedSessionOnly,
         Router!UserHandlers, Router!DocumentedPlayer,
         Router!DocumentedSubscription, Router!DocumentedRequest,
         Router!DocumentedTest, Router!FavoriteHandlers, Router!WatchHandlers,
         Router!CredentialHandlers, Router!FavoriteRoutes, Router!PlayerRoutes,
         Router!On
  <2>7. /\ ~Router!Matches(method, path, Router!PublicRoutes)
        /\ ~Router!Matches(method, path, Router!ServiceOrSessionRoutes)
        /\ ~Router!Matches(method, path, Router!SessionOnlyRoutes)
    BY <2>2, <2>4, <2>5, <2>6, PublicMatches, EitherMatches, SessionMatches
  <2>. QED  BY <2>7 DEF Router!ResolvePolicy
<1>. QED  BY <1>1, <1>2

\* The reasons for which a request is let through.
Admitted(q, c) ==
    \/ Router!ResolvePolicy(q.method, q.path) = "public"
    \/ /\ c.internal
       /\ Router!AcceptsServiceAuth(Router!ResolvePolicy(q.method, q.path))
    \/ /\ c.user # Absent
       /\ Router!AcceptsSessionAuth(Router!ResolvePolicy(q.method, q.path))

\* What holds of a request at its stage, whatever the others do: it has no
\* context before it is authorised, its context is its own, and it reaches the
\* limits and the handler only when it was admitted.
RequestFits(s, q, c) ==
    /\ s \in {"idle", "preflight", "blocked", "authorise", "session"}
         => c = Router!NoContext
    /\ s # "idle" => q \in Router!Sent
    /\ c.user # Absent => c.user = q.session
    /\ c.internal => q.service
    /\ s = "session" =>
         /\ Router!AcceptsSessionAuth(Router!ResolvePolicy(q.method, q.path))
         /\ q.session # Absent
    /\ s \in {"limit", "handle"} => Admitted(q, c)
    /\ s = "blocked" /\ q.client = "front" =>
         q.method \notin Router!AllowMethods \cup Router!SafelistedMethods

\* What a request is answered with.
Outcome == [status : {0, 200, 400, 401, 404, 413, 429, 500},
            cache : {"none", "no-store", "public"}]

RequestsFit == \A r \in RouterBounds.Requests :
     RequestFits(stage[r], sent[r], context[r])

RouterInv == Router!TypeOK /\ RequestsFit

LEMMA RouterStarts == Router!ConstantsAssumption /\ Router!Init => RouterInv
<1>. SUFFICES ASSUME Router!ConstantsAssumption, Router!Init PROVE RouterInv
  OBVIOUS
<1>1. Router!TypeOK
  BY DEF Router!Init, Router!TypeOK, Router!Stages, Router!Context,
       Router!NoContext, Router!NoAnswer
<1>2. RequestsFit
  <2>. SUFFICES ASSUME NEW r \in RouterBounds.Requests
                PROVE  RequestFits(stage[r], sent[r], context[r])
    BY DEF RequestsFit
  <2>1. stage[r] = "idle" /\ context[r] = Router!NoContext
    BY DEF Router!Init
  <2>. QED  BY <2>1 DEF RequestFits, Router!NoContext
<1>. QED  BY <1>1, <1>2 DEF RouterInv

\* A step of one request leaves what holds of the others.
LEMMA OthersFit ==
  ASSUME RouterInv, NEW r \in RouterBounds.Requests,
         \A o \in RouterBounds.Requests \ {r} :
             /\ stage'[o] = stage[o]
             /\ sent'[o] = sent[o]
             /\ context'[o] = context[o],
         RequestFits(stage'[r], sent'[r], context'[r])
  PROVE  RequestsFit'
<1>. SUFFICES ASSUME NEW o \in RouterBounds.Requests
              PROVE  RequestFits(stage'[o], sent'[o], context'[o])
  BY DEF RequestsFit
<1>1. CASE o = r
  BY <1>1
<1>2. CASE o # r
  <2>1. RequestFits(stage[o], sent[o], context[o])
    BY DEF RouterInv, RequestsFit
  <2>2. stage'[o] = stage[o] /\ sent'[o] = sent[o] /\ context'[o] = context[o]
    BY <1>2
  <2>. QED  BY <2>1, <2>2
<1>. QED  BY <1>1, <1>2

LEMMA SendFits ==
  ASSUME Router!ConstantsAssumption, RouterInv, NEW r \in RouterBounds.Requests,
         Router!Send(r)
  PROVE  RouterInv'
<1>1. PICK q \in RouterBounds.Sendable[r] :
          /\ sent' = [sent EXCEPT ![r] = q]
          /\ stage' = [stage EXCEPT ![r] =
                           IF Router!NeedsPreflight(q) THEN "preflight" ELSE "authorise"]
  BY DEF Router!Send, Router!Goto
<1>2. q \in Router!Sent
  BY DEF Router!ConstantsAssumption
<1>3. UNCHANGED <<configured, live, context, answer>> /\ stage[r] = "idle"
  BY DEF Router!Send, Router!At
<1>4. Router!TypeOK'
  BY <1>1, <1>2, <1>3 DEF RouterInv, Router!TypeOK, Router!Stages
<1>5. sent'[r] = q /\ stage'[r] \in {"preflight", "authorise"}
  BY <1>1 DEF RouterInv, Router!TypeOK
<1>6. context'[r] = Router!NoContext
  BY <1>3 DEF RouterInv, RequestsFit, RequestFits
<1>7. RequestFits(stage'[r], sent'[r], context'[r])
  BY <1>2, <1>5, <1>6 DEF RequestFits, Router!NoContext
<1>8. \A o \in RouterBounds.Requests \ {r} :
          /\ stage'[o] = stage[o]
          /\ sent'[o] = sent[o]
          /\ context'[o] = context[o]
  BY <1>1, <1>3 DEF RouterInv, Router!TypeOK
<1>9. RequestsFit'
  BY <1>7, <1>8, OthersFit
<1>. QED  BY <1>4, <1>9 DEF RouterInv

\* The headers a page may need are those the preflight allows.
LEMMA HeadersAllowed ==
  ASSUME NEW q
  PROVE  Router!HeadersOf(q) \subseteq Router!AllowHeaders
BY DEF Router!HeadersOf, Router!AllowHeaders

\* A request goes to another stage, and nothing else of it changes.
LEMMA GoesOn ==
  ASSUME RouterInv, NEW r \in RouterBounds.Requests, NEW s \in Router!Stages,
         stage' = [stage EXCEPT ![r] = s],
         UNCHANGED <<configured, live, sent, context>>,
         answer' \in [RouterBounds.Requests -> Outcome],
         RequestFits(s, sent[r], context[r])
  PROVE  RouterInv'
<1>1. Router!TypeOK'
  BY DEF RouterInv, Router!TypeOK, Outcome
<1>2. stage'[r] = s /\ sent'[r] = sent[r] /\ context'[r] = context[r]
  BY DEF RouterInv, Router!TypeOK
<1>3. RequestFits(stage'[r], sent'[r], context'[r])
  BY <1>2
<1>4. \A o \in RouterBounds.Requests \ {r} :
          /\ stage'[o] = stage[o]
          /\ sent'[o] = sent[o]
          /\ context'[o] = context[o]
  BY DEF RouterInv, Router!TypeOK
<1>5. RequestsFit'
  BY <1>3, <1>4, OthersFit
<1>. QED  BY <1>1, <1>5 DEF RouterInv

\* The answers of handlers and of the middleware before them.
LEMMA OutcomesKnown ==
  ASSUME NEW r, NEW code \in Router!Outcomes(r)
  PROVE  code \in {200, 400, 401, 404, 500}
BY DEF Router!Outcomes

LEMMA CacheHeaderKnown ==
  ASSUME NEW q, NEW code
  PROVE  Router!CacheHeader(q, code) \in {"none", "no-store", "public"}
BY DEF Router!CacheHeader

\* An answered request needs only its context to be its own.
LEMMA AnswerFits ==
  ASSUME RouterInv, NEW r \in RouterBounds.Requests, stage[r] # "idle",
         UNCHANGED <<configured, live, sent, context>>,
         NEW code \in {200, 400, 401, 404, 413, 429, 500},
         NEW cache \in {"none", "no-store", "public"}, Router!Answer(r, code, cache)
  PROVE  RouterInv'
<1>1. /\ stage' = [stage EXCEPT ![r] = "answered"]
      /\ answer' \in [RouterBounds.Requests -> Outcome]
  BY DEF Router!Answer, Router!Goto, RouterInv, Router!TypeOK, Outcome
<1>2. RequestFits("answered", sent[r], context[r])
  BY DEF RouterInv, RequestsFit, RequestFits
<1>. QED  BY <1>1, <1>2, GoesOn DEF Router!Stages

LEMMA PreflightFits ==
  ASSUME RouterInv, NEW r \in RouterBounds.Requests, Router!Preflight(r)
  PROVE  RouterInv'
<1>1. /\ stage[r] = "preflight" /\ UNCHANGED <<configured, live, sent, context>>
      /\ answer' \in [RouterBounds.Requests -> Outcome]
  BY DEF Router!Preflight, Router!At, RouterInv, Router!TypeOK, Outcome
<1>2. /\ context[r] = Router!NoContext
      /\ sent[r] \in Router!Sent
  BY <1>1 DEF RouterInv, RequestsFit, RequestFits
<1>3. CASE sent[r].client = "front"
     /\ sent[r].method \in Router!AllowMethods \cup Router!SafelistedMethods
  <2>1. stage' = [stage EXCEPT ![r] = "authorise"]
    BY <1>3, HeadersAllowed DEF Router!Preflight, Router!Goto
  <2>2. RequestFits("authorise", sent[r], context[r])
    BY <1>2 DEF RequestFits, Router!NoContext
  <2>. QED  BY <1>1, <2>1, <2>2, GoesOn DEF Router!Stages
<1>4. CASE ~(sent[r].client = "front"
     /\ sent[r].method \in Router!AllowMethods \cup Router!SafelistedMethods)
  <2>1. stage' = [stage EXCEPT ![r] = "blocked"]
    BY <1>4 DEF Router!Preflight, Router!Goto
  <2>2. RequestFits("blocked", sent[r], context[r])
    BY <1>2, <1>4 DEF RequestFits, Router!NoContext
  <2>. QED  BY <1>1, <2>1, <2>2, GoesOn DEF Router!Stages
<1>. QED  BY <1>3, <1>4

\* What a request's context is after either of its changes.
LEMMA NoContextFields == ~Router!NoContext.internal /\ Router!NoContext.user = Absent
BY DEF Router!NoContext

LEMMA InternalSet ==
  ASSUME NEW c \in Router!Context, NEW d, d = [c EXCEPT !.internal = TRUE]
  PROVE  d.internal /\ d.user = c.user /\ d \in Router!Context
BY DEF Router!Context

LEMMA UserSet ==
  ASSUME NEW c \in Router!Context, NEW u \in RouterBounds.Users \cup {Absent}, NEW d,
         d = [c EXCEPT !.user = u]
  PROVE  d.internal = c.internal /\ d.user = u /\ d \in Router!Context
BY DEF Router!Context

LEMMA AuthoriseFits ==
  ASSUME RouterInv, NEW r \in RouterBounds.Requests, Router!Authorise(r)
  PROVE  RouterInv'
<1>1. stage[r] = "authorise" /\ UNCHANGED <<configured, live, sent>>
  BY DEF Router!Authorise, Router!At
<1>2. /\ context[r] = Router!NoContext
      /\ sent[r] \in Router!Sent
  BY <1>1 DEF RouterInv, RequestsFit, RequestFits
<1>3. CASE /\ Router!PolicyOf(r) = "public"
           /\ Router!Goto(r, "limit") /\ UNCHANGED <<context, answer>>
  <2>1. RequestFits("limit", sent[r], context[r])
    BY <1>2, <1>3 DEF RequestFits, Router!NoContext, Admitted, Router!PolicyOf
  <2>2. stage' = [stage EXCEPT ![r] = "limit"]
    BY <1>3 DEF Router!Goto
  <2>3. answer' \in [RouterBounds.Requests -> Outcome]
    BY <1>3 DEF RouterInv, Router!TypeOK, Outcome
  <2>. QED  BY <1>1, <1>3, <2>1, <2>2, <2>3, GoesOn DEF Router!Stages
<1>4. CASE Router!Answer(r, 500, "none") /\ UNCHANGED context
  BY <1>1, <1>4, AnswerFits
<1>5. CASE /\ Router!AcceptsServiceAuth(Router!PolicyOf(r)) /\ sent[r].service
           /\ Router!RunWithInternalServiceCall(r) /\ Router!Goto(r, "limit")
           /\ UNCHANGED answer
  <2>1. context' = [context EXCEPT ![r].internal = TRUE]
    BY <1>5 DEF Router!RunWithInternalServiceCall
  <2>2. stage' = [stage EXCEPT ![r] = "limit"]
    BY <1>5 DEF Router!Goto
  <2>3. context'[r] = [context[r] EXCEPT !.internal = TRUE]
    BY <2>1 DEF RouterInv, Router!TypeOK
  <2>4. /\ context'[r].internal
        /\ context'[r].user = Absent
        /\ context'[r] \in Router!Context
    <3>1. context[r] \in Router!Context /\ context[r].user = Absent
      BY <1>2, NoContextFields DEF RouterInv, Router!TypeOK
    <3>. QED  BY <2>3, <3>1, InternalSet
  <2>5. context' = [context EXCEPT ![r] = context'[r]]
    BY <2>1 DEF RouterInv, Router!TypeOK
  <2>6. Router!TypeOK'
    BY <1>1, <1>5, <2>2, <2>4, <2>5 DEF RouterInv, Router!TypeOK, Router!Stages
  <2>7. stage'[r] = "limit" /\ sent'[r] = sent[r]
    BY <1>1, <2>2 DEF RouterInv, Router!TypeOK
  <2>8. RequestFits(stage'[r], sent'[r], context'[r])
    BY <1>2, <1>5, <2>4, <2>7 DEF RequestFits, Admitted, Router!PolicyOf
  <2>9. \A o \in RouterBounds.Requests \ {r} :
            /\ stage'[o] = stage[o]
            /\ sent'[o] = sent[o]
            /\ context'[o] = context[o]
    BY <1>1, <2>2, <2>5 DEF RouterInv, Router!TypeOK
  <2>10. RequestsFit'
    BY <2>8, <2>9, OthersFit
  <2>. QED  BY <2>6, <2>10 DEF RouterInv
<1>6. CASE /\ Router!AcceptsSessionAuth(Router!PolicyOf(r))
           /\ sent[r].session # Absent
           /\ Router!Goto(r, "session") /\ UNCHANGED <<context, answer>>
  <2>1. RequestFits("session", sent[r], context[r])
    BY <1>2, <1>6 DEF RequestFits, Router!NoContext, Router!PolicyOf
  <2>2. stage' = [stage EXCEPT ![r] = "session"]
    BY <1>6 DEF Router!Goto
  <2>3. answer' \in [RouterBounds.Requests -> Outcome]
    BY <1>6 DEF RouterInv, Router!TypeOK, Outcome
  <2>. QED  BY <1>1, <1>6, <2>1, <2>2, <2>3, GoesOn DEF Router!Stages
<1>7. CASE Router!Answer(r, 401, "none") /\ UNCHANGED context
  BY <1>1, <1>7, AnswerFits
<1>. QED  BY <1>3, <1>4, <1>5, <1>6, <1>7 DEF Router!Authorise

LEMMA CheckSessionFits ==
  ASSUME Router!ConstantsAssumption, RouterInv, NEW r \in RouterBounds.Requests,
         Router!CheckSessionAuth(r)
  PROVE  RouterInv'
<1>1. stage[r] = "session" /\ UNCHANGED <<configured, live, sent>>
  BY DEF Router!CheckSessionAuth, Router!At
<1>2. /\ context[r] = Router!NoContext
      /\ sent[r] \in Router!Sent
      /\ Router!AcceptsSessionAuth(Router!ResolvePolicy(sent[r].method, sent[r].path))
      /\ sent[r].session # Absent
  BY <1>1 DEF RouterInv, RequestsFit, RequestFits
<1>3. CASE /\ Router!RunWithCurrentUserId(r, sent[r].session)
           /\ Router!Goto(r, "limit") /\ UNCHANGED answer
  <2>1. context' = [context EXCEPT ![r].user = sent[r].session]
    BY <1>3 DEF Router!RunWithCurrentUserId
  <2>2. stage' = [stage EXCEPT ![r] = "limit"]
    BY <1>3 DEF Router!Goto
  <2>3. context'[r] = [context[r] EXCEPT !.user = sent[r].session]
    BY <2>1 DEF RouterInv, Router!TypeOK
  <2>4. /\ ~context'[r].internal
        /\ context'[r].user = sent[r].session
        /\ context'[r] \in Router!Context
    <3>1. context[r] \in Router!Context /\ ~context[r].internal
      BY <1>2, NoContextFields DEF RouterInv, Router!TypeOK
    <3>2. sent[r].session \in RouterBounds.Users \cup {Absent}
      BY <1>2 DEF Router!Sent
    <3>. QED  BY <2>3, <3>1, <3>2, UserSet
  <2>5. context' = [context EXCEPT ![r] = context'[r]]
    BY <2>1 DEF RouterInv, Router!TypeOK
  <2>6. Router!TypeOK'
    BY <1>1, <1>3, <2>2, <2>4, <2>5 DEF RouterInv, Router!TypeOK, Router!Stages
  <2>7. stage'[r] = "limit" /\ sent'[r] = sent[r]
    BY <1>1, <2>2 DEF RouterInv, Router!TypeOK
  <2>8. RequestFits(stage'[r], sent'[r], context'[r])
    BY <1>2, <2>4, <2>7 DEF RequestFits, Admitted
  <2>9. \A o \in RouterBounds.Requests \ {r} :
            /\ stage'[o] = stage[o]
            /\ sent'[o] = sent[o]
            /\ context'[o] = context[o]
    BY <1>1, <2>2, <2>5 DEF RouterInv, Router!TypeOK
  <2>10. RequestsFit'
    BY <2>8, <2>9, OthersFit
  <2>. QED  BY <2>6, <2>10 DEF RouterInv
<1>4. CASE Router!Answer(r, 401, "none") /\ UNCHANGED context
  BY <1>1, <1>4, AnswerFits
<1>. QED  BY <1>3, <1>4 DEF Router!CheckSessionAuth

LEMMA LimitFits ==
  ASSUME RouterInv, NEW r \in RouterBounds.Requests, Router!Limit(r)
  PROVE  RouterInv'
<1>1. stage[r] = "limit" /\ UNCHANGED <<configured, live, sent, context>>
  BY DEF Router!Limit, Router!At
<1>2. CASE Router!Answer(r, 429, "none")
  BY <1>1, <1>2, AnswerFits
<1>3. CASE Router!Answer(r, 413, "none")
  BY <1>1, <1>3, AnswerFits
<1>4. CASE Router!Goto(r, "handle") /\ UNCHANGED answer
  <2>1. RequestFits("handle", sent[r], context[r])
    BY <1>1 DEF RouterInv, RequestsFit, RequestFits
  <2>2. stage' = [stage EXCEPT ![r] = "handle"]
    BY <1>4 DEF Router!Goto
  <2>3. answer' \in [RouterBounds.Requests -> Outcome]
    BY <1>4 DEF RouterInv, Router!TypeOK, Outcome
  <2>. QED  BY <1>1, <2>1, <2>2, <2>3, GoesOn DEF Router!Stages
<1>. QED  BY <1>2, <1>3, <1>4 DEF Router!Limit

LEMMA HandleFits ==
  ASSUME RouterInv, NEW r \in RouterBounds.Requests, Router!Handle(r)
  PROVE  RouterInv'
<1>1. stage[r] = "handle" /\ UNCHANGED <<configured, live, sent, context>>
  BY DEF Router!Handle, Router!At
<1>2. PICK code \in Router!Outcomes(r) :
     Router!Answer(r, code, Router!CacheHeader(sent[r], code))
  BY DEF Router!Handle
<1>3. /\ code \in {200, 400, 401, 404, 413, 429, 500}
      /\ Router!CacheHeader(sent[r], code) \in {"none", "no-store", "public"}
  BY OutcomesKnown, CacheHeaderKnown
<1>. QED  BY <1>1, <1>2, <1>3, AnswerFits

LEMMA RouterSteps == Router!ConstantsAssumption /\ RouterInv
     /\ [Router!Next]_(Router!vars) => RouterInv'
<1>. SUFFICES ASSUME Router!ConstantsAssumption, RouterInv,
                     [Router!Next]_(Router!vars) PROVE RouterInv'
  OBVIOUS
<1>1. CASE UNCHANGED Router!vars
  BY <1>1 DEF Router!vars, RouterInv, Router!TypeOK, RequestsFit
<1>2. CASE \E r \in RouterBounds.Requests :
              \/ Router!Send(r) \/ Router!Preflight(r) \/ Router!Authorise(r)
              \/ Router!CheckSessionAuth(r)
              \/ Router!Limit(r) \/ Router!Handle(r)
  BY <1>2, SendFits, PreflightFits, AuthoriseFits, CheckSessionFits, LimitFits,
       HandleFits
<1>3. CASE \E u \in RouterBounds.Users : Router!EndSession(u)
  BY <1>3 DEF Router!EndSession, RouterInv, Router!TypeOK, RequestsFit
<1>. QED  BY <1>1, <1>2, <1>3 DEF Router!Next

LEMMA CallerKnown == RouterInv => Router!HandlersKnowTheirCaller
<1>. SUFFICES ASSUME RouterInv, NEW r \in RouterBounds.Requests,
                     Router!At(r, "handle")
              PROVE  LET q == sent[r]
                         c == context[r]
                         handler == Router!HandlerOf(q.method, q.path)
                     IN /\ c.user # Absent => c.user = q.session
                        /\ c.internal => q.service
                        /\ handler \in Router!DocumentedSessionOnly
                                       \cup Router!UserHandlers =>
                              c.user # Absent \/ (q.method = "HEAD" /\ c.internal)
                        /\ handler \in Router!DocumentedEither =>
                              c.user # Absent \/ c.internal
                        /\ handler \in WorkersOnly => c.internal
  BY DEF Router!HandlersKnowTheirCaller, WorkersOnly
<1>1. /\ context[r].user # Absent => context[r].user = sent[r].session
      /\ context[r].internal => sent[r].service
      /\ Admitted(sent[r], context[r])
  BY DEF RouterInv, RequestsFit, RequestFits, Router!At
<1>. DEFINE handler == Router!HandlerOf(sent[r].method, sent[r].path)
            policy == Router!ResolvePolicy(sent[r].method, sent[r].path)
<1>2. \/ policy = "public"
      \/ context[r].internal /\ Router!AcceptsServiceAuth(policy)
      \/ context[r].user # Absent /\ Router!AcceptsSessionAuth(policy)
  BY <1>1 DEF Admitted
<1>3. ASSUME handler \in Router!DocumentedSessionOnly \cup Router!UserHandlers
      PROVE  \/ context[r].user # Absent
             \/ sent[r].method = "HEAD" /\ context[r].internal
  <2>1. /\ policy # "public"
        /\ sent[r].method # "HEAD" => ~Router!AcceptsServiceAuth(policy)
    BY <1>3, UsersOnly
  <2>2. sent[r].method = "HEAD" => policy = "service-only"
    BY HeadMatchesNone
  <2>. QED  BY <1>2, <2>1, <2>2
<1>4. ASSUME handler \in Router!DocumentedEither
      PROVE  context[r].user # Absent \/ context[r].internal
  <2>1. policy # "public"
    BY <1>4, EitherOnly
  <2>. QED  BY <1>2, <2>1
<1>5. ASSUME handler \in WorkersOnly PROVE context[r].internal
  <2>1. policy = "service-only"
    BY <1>5, ServiceOnly
  <2>. QED  BY <1>2, <2>1 DEF Router!AcceptsSessionAuth
<1>. QED  BY <1>1, <1>3, <1>4, <1>5

\* Methods that the preflight refuses are those of the renaming of a credential,
\* or of no route that is open to sessions or to all.
LEMMA RefusedMethods ==
  ASSUME NEW method \in Router!Methods, NEW path \in Router!Paths,
         method \notin Router!AllowMethods \cup Router!SafelistedMethods,
         Router!ResolvePolicy(method, path) # "service-only"
  PROVE  <<method, path>> \in Router!CredentialHandlers
<1>1. method \notin {"GET", "HEAD", "POST", "DELETE", "OPTIONS"}
  BY DEF Router!AllowMethods, Router!SafelistedMethods
<1>2. ~Router!Matches(method, path, Router!PublicRoutes)
  BY <1>1, PublicMatches DEF PublicPairs, Router!On
<1>3. ~Router!Matches(method, path, Router!ServiceOrSessionRoutes)
  BY <1>1, EitherMatches DEF Router!ServiceOrSessionRoutes, Router!On
<1>4. Router!Matches(method, path, Router!SessionOnlyRoutes)
  BY <1>2, <1>3 DEF Router!ResolvePolicy
<1>5. <<method, path>> \in SessionPairs
  BY <1>4, SessionMatches
<1>6. path # "/auth/credential/*"
  BY DEF Router!Paths, Router!Registered, Router!CalendarRoutes, Router!PlaceRoutes,
       Router!RaceRoutes, Router!PlayerRoutes, Router!FavoriteRoutes,
       Router!AuthAdminRoutes, Router!AuthCeremonyRoutes,
       Router!PushSubscriptionRoutes, Router!PushDispatchRoutes,
       Router!ServerDrivenUiRoutes, Router!ReleaseNoteRoutes, Router!DocsRoutes,
       Router!InternalRoutes, Router!DebugRoutes, Router!BackfillRoutes,
       Router!BatchLockRoutes, Router!FeatureFlagRoutes,
       Router!AllReleaseNotesRoutes, Router!UiLayoutRoutes, Router!On
<1>. QED  BY <1>1, <1>5, <1>6 DEF SessionPairs, Router!CredentialHandlers, Router!On

LEMMA FrontPasses == RouterInv => Router!FrontReachesItsRoutes
<1>. SUFFICES ASSUME RouterInv, NEW r \in RouterBounds.Requests,
                     Router!At(r, "blocked"), sent[r].client = "front",
                     Router!PolicyOf(r) # "service-only"
              PROVE  <<sent[r].method, sent[r].path>> \in Router!CredentialHandlers
  BY DEF Router!FrontReachesItsRoutes
<1>1. /\ sent[r].method \notin Router!AllowMethods \cup Router!SafelistedMethods
      /\ sent[r] \in Router!Sent
  BY DEF RouterInv, RequestsFit, RequestFits, Router!At
<1>2. sent[r].method \in Router!Methods /\ sent[r].path \in Router!Paths
  BY <1>1 DEF Router!Sent
<1>. QED  BY <1>1, <1>2, RefusedMethods DEF Router!PolicyOf
LEMMA RouterHolds == Router!Spec => []RouterInv
<1>1. Router!ConstantsAssumption
  BY SingleServicesAssumption
<1>2. Router!Init => RouterInv
  BY <1>1, RouterStarts
<1>3. RouterInv /\ [Router!Next]_(Router!vars) => RouterInv'
  BY <1>1, RouterSteps
<1>. QED  BY <1>2, <1>3, PTL DEF Router!Spec

LEMMA RouterTypes == Router!Spec => []Router!TypeOK
<1>1. RouterInv => Router!TypeOK
  BY DEF RouterInv
<1>. QED  BY <1>1, RouterHolds, PTL

-----------------------------------------------------------------------------
(* Data quality.  The text of a row is written another way than the text   *)
(* of the start of the window, so a comparison of the two may miss rows of *)
(* the day of the start; it never finds one from before.                   *)

QualityInv == Quality!TypeOK /\ Quality!AlarmIsRecent

LEMMA StepsAreNat == QualityBounds.FirstStep..QualityBounds.LastStep \subseteq Nat
BY SingleServicesAssumption DEF Quality!ConstantsAssumption

LEMMA TypesAreNat ==
  ASSUME Quality!TypeOK
  PROVE  clock \in Nat /\ checked \in Nat /\ log \subseteq Nat
BY StepsAreNat DEF Quality!TypeOK

\* Days count up with the steps of the clock.
LEMMA DaysAscend ==
  ASSUME NEW s \in Int, NEW t \in Int, t \div Quality!PerDay > s \div Quality!PerDay
  PROVE  t >= s
<1>. Quality!ConstantsAssumption
  BY SingleServicesAssumption
<1>1. CASE QualityBounds.StepMinutes = 5
  <2>1. Quality!PerDay = 288
    BY <1>1 DEF Quality!PerDay, Quality!PerHour
  <2>. QED  BY <2>1
<1>2. CASE QualityBounds.StepMinutes = 10
  <2>1. Quality!PerDay = 144
    BY <1>2 DEF Quality!PerDay, Quality!PerHour
  <2>. QED  BY <2>1
<1>. QED  BY <1>1, <1>2 DEF Quality!ConstantsAssumption

LEMMA WindowIsInt == Quality!WindowSteps \in Int
<1>. Quality!ConstantsAssumption
  BY SingleServicesAssumption
<1>1. QualityBounds.StepMinutes = 5 => Quality!WindowSteps = 14
  BY DEF Quality!WindowSteps
<1>2. QualityBounds.StepMinutes = 10 => Quality!WindowSteps = 7
  BY DEF Quality!WindowSteps
<1>. QED  BY <1>1, <1>2 DEF Quality!ConstantsAssumption

\* A row the check finds is not older than the window.
LEMMA RowsAreRecent ==
  ASSUME QualityInv, NEW start \in Int, NEW t \in Quality!RowsSince(start)
  PROVE  t \in log /\ t >= start
<1>1. t \in log
     /\ Quality!IsGte(Quality!CurrentTimestamp(t), Quality!ToISOString(start))
  BY DEF Quality!RowsSince
<1>2. t \div Quality!PerDay > start \div Quality!PerDay
  BY <1>1 DEF Quality!IsGte, Quality!CurrentTimestamp, Quality!ToISOString,
       Quality!Text
<1>. QED  BY <1>1, <1>2, DaysAscend, TypesAreNat DEF QualityInv

LEMMA QualityStep ==
  ASSUME QualityInv, [Quality!Next]_(Quality!vars)
  PROVE  QualityInv'
<1>1. CASE Quality!Tick
  BY <1>1, StepsAreNat, SingleServicesAssumption DEF Quality!ConstantsAssumption,
       Quality!Tick, QualityInv, Quality!TypeOK, Quality!AlarmIsRecent
<1>2. CASE Quality!RecordDataQualityWarning
  BY <1>2 DEF Quality!RecordDataQualityWarning, QualityInv, Quality!TypeOK,
       Quality!AlarmIsRecent
<1>3. CASE Quality!CheckOneSource
  <2>. DEFINE found == Quality!RowsSince(clock - Quality!WindowSteps)
  <2>1. clock - Quality!WindowSteps \in Int
    BY WindowIsInt, TypesAreNat DEF QualityInv
  <2>2. \A t \in found : t \in log /\ t >= clock - Quality!WindowSteps
    BY <2>1, RowsAreRecent
  <2>. HIDE DEF found
  <2>3. /\ alarm' = (found # {}) /\ counted' = counted \cup found
        /\ checked' = clock /\ clock' = clock /\ log' = log
        /\ due' = FALSE
    BY <1>3 DEF Quality!CheckOneSource, found
  <2>4. Quality!AlarmIsRecent'
    BY <2>2, <2>3 DEF Quality!AlarmIsRecent, Quality!WindowSteps
  <2>5. (found # {}) \in BOOLEAN
    OBVIOUS
  <2>. QED  BY <2>2, <2>3, <2>4, <2>5 DEF QualityInv, Quality!TypeOK
<1>4. CASE UNCHANGED Quality!vars
  BY <1>4 DEF Quality!vars, QualityInv, Quality!TypeOK, Quality!AlarmIsRecent
<1>. QED  BY <1>1, <1>2, <1>3, <1>4 DEF Quality!Next

LEMMA QualityStarts == ASSUME Quality!Init PROVE QualityInv
<1>1. QualityBounds.FirstStep \in QualityBounds.FirstStep..QualityBounds.LastStep
  BY SingleServicesAssumption DEF Quality!ConstantsAssumption
<1>2. clock = QualityBounds.FirstStep /\ checked = QualityBounds.FirstStep /\ ~due
      /\ log = {} /\ counted = {} /\ ~alarm
  BY DEF Quality!Init
<1>3. Quality!TypeOK
  BY <1>1, <1>2 DEF Quality!Init, Quality!TypeOK
<1>. QED  BY <1>2, <1>3 DEF QualityInv, Quality!AlarmIsRecent

LEMMA QualityHolds == Quality!Spec => []QualityInv
<1>2. Quality!Init => QualityInv
  BY QualityStarts
<1>3. QualityInv /\ [Quality!Next]_(Quality!vars) => QualityInv'
  BY QualityStep
<1>. QED  BY <1>2, <1>3, PTL DEF Quality!Spec

LEMMA QualityTypes == Quality!Spec => []Quality!TypeOK
<1>1. QualityInv => Quality!TypeOK
  BY DEF QualityInv
<1>. QED  BY <1>1, QualityHolds, PTL

-----------------------------------------------------------------------------
(* Releases.  The versions stay in order because of what a draft rests on: *)
(* a change labelled major that no release contains, whose commit keeps     *)
(* every job that lists it from releasing by itself.                       *)

Version == Nat \X Nat \X Nat
Release == [version : Version, at : Nat, noted : SUBSET Nat, automatic : BOOLEAN,
            checked : Nat]
Draft == [version : Version, noted : SUBSET Nat]
\* The job, between two of its requests.
ReleaseKinds == {"automatic", "draft"}
Comparing == [step : {"compare"}, last : Version]
Deciding == [step : {"labels"}, last : Version, commits : SUBSET Nat]
Summarizing == [step : {"summary"}, kind : ReleaseKinds, version : Version,
                commits : SUBSET Nat]
Writing == [step : {"find", "create"}, kind : ReleaseKinds, version : Version,
            commits : SUBSET Nat, noted : SUBSET Nat, found : BOOLEAN]
DualWriting == [step : {"dual write"}, version : Version]
ReleaseJob == {Releases!Idle} \cup Comparing \cup Deciding \cup Summarizing \cup Writing
       \cup DualWriting

ReleaseTyped ==
    /\ main \in Seq(Releases!Levels)
    /\ published \in Seq(Release) /\ Len(published) > 0
    /\ drafts \in SUBSET Draft
    /\ job \in ReleaseJob

\* What an automatic release may bring.
Automatable == {"none", "patch", "minor"}

Latest == published[Len(published)]
SinceLatest == (Latest.at + 1)..Len(main)
Deep(S) == \E i \in S : i \in 1..Len(main) /\ main[i] = "major"

\* The releases follow one another in version and in place.
InOrder ==
    /\ \A i \in 1..Len(published) : published[i].at <= Len(main)
    /\ \A i, j \in 1..Len(published) : i < j =>
           /\ Releases!Older(published[i].version, published[j].version)
           /\ published[i].at <= published[j].at
    /\ ~published[1].automatic

\* The one draft there may be is the next major version, and the major change it
\* waits for is not released.
DraftsAhead ==
    /\ \A d \in drafts : d.version = Releases!NextMajorVersion(Latest.version)
    /\ \A d, e \in drafts : d = e
    /\ drafts # {} => Deep(SinceLatest)

\* The job lists commits of a tag that is the last no more: the major one among
\* them is released, its draft having been published.
Behind(S) == Deep(S) /\ Releases!NextMajorVersion(job.last) \in Releases!Versions

\* All commits after the last release, up to some one.
AllListed(S) == \E n \in Nat : n <= Len(main) /\ S = (Latest.at + 1)..n

Tagged(v) == \E i \in 1..Len(published) : published[i].version = v

JobFits ==
    /\ Releases!At("compare") =>
           /\ Tagged(job.last)
           /\ job.last = Latest.version \/ Behind(Releases!CommitsSince(job.last))
    /\ Releases!At("labels") =>
           \/ /\ job.last = Latest.version /\ AllListed(job.commits)
              /\ drafts # {} => Deep(job.commits)
           \/ Behind(job.commits)
    /\ job.step \in {"summary", "find", "create"} /\ job.kind = "automatic" =>
           /\ drafts = {} /\ AllListed(job.commits)
           /\ \A c \in job.commits : main[c] \in Automatable
           /\ \E bump \in {"minor", "patch"} :
                  job.version = Releases!NextVersion(Latest.version, bump)
    /\ job.step \in {"summary", "find", "create"} /\ job.kind = "draft" =>
           \/ job.version \in Releases!Versions
           \/ job.version = Releases!NextMajorVersion(Latest.version)
                /\ Deep(SinceLatest)

\* MajorAwaitsPerson, of the releases after the first.
Cleared ==
    \A i \in 2..Len(published) : published[i].automatic =>
        \A c \in Releases!Brought(i) : c <= published[i].checked =>
             main[c] \in Automatable

ReleaseInv == ReleaseTyped /\ InOrder /\ DraftsAhead /\ JobFits /\ Cleared

-----------------------------------------------------------------------------
(* Versions. *)

LEMMA OlderIsTransitive ==
  ASSUME NEW a \in Version, NEW b \in Version, NEW c \in Version,
         Releases!Older(a, b), Releases!Older(b, c)
  PROVE  Releases!Older(a, c)
BY DEF Releases!Older, Version

LEMMA OlderIsStrict ==
  ASSUME NEW a \in Version
  PROVE  ~Releases!Older(a, a)
BY DEF Releases!Older, Version

LEMMA NextIsNewer ==
  ASSUME NEW v \in Version, NEW bump \in {"minor", "patch"}
  PROVE  /\ Releases!NextVersion(v, bump) \in Version
         /\ Releases!NextMajorVersion(v) \in Version
         /\ Releases!Older(v, Releases!NextVersion(v, bump))
         /\ Releases!Older(v, Releases!NextMajorVersion(v))
BY DEF Releases!NextVersion, Releases!NextMajorVersion, Releases!Older, Version

\* The last release is the newest.
LEMMA LatestIsNewest ==
  ASSUME ReleaseTyped, InOrder
  PROVE  /\ Len(published) \in Nat \ {0} /\ Latest \in Release
         /\ Latest.at \in Nat /\ Latest.at <= Len(main) /\ Len(main) \in Nat
         /\ Releases!LatestReleaseTag = Latest.version
         /\ \A i \in 1..Len(published) :
                /\ published[i] \in Release
                /\ published[i].at <= Latest.at
                /\ published[i].version = Latest.version => i = Len(published)
                /\ published[i].version = Latest.version
                   \/ Releases!Older(published[i].version, Latest.version)
<1>1. /\ Len(published) \in Nat \ {0} /\ Len(main) \in Nat
      /\ \A i \in 1..Len(published) : published[i] \in Release
  BY ElementOfSeq, LenProperties DEF ReleaseTyped
<1>2. Latest \in Release /\ Releases!LatestReleaseTag = Latest.version
  BY <1>1 DEF Latest, Releases!LatestReleaseTag, Releases!Last
<1>3. ASSUME NEW i \in 1..Len(published)
      PROVE  /\ published[i].at <= Latest.at
             /\ published[i].version = Latest.version => i = Len(published)
             /\ published[i].version = Latest.version
                \/ Releases!Older(published[i].version, Latest.version)
  <2>1. CASE i = Len(published)
    BY <1>1, <2>1 DEF Latest, Release
  <2>2. CASE i # Len(published)
    <3>1. /\ Releases!Older(published[i].version, Latest.version)
          /\ published[i].at <= Latest.at
      BY <1>1, <2>2 DEF InOrder, Latest
    <3>. QED  BY <1>1, <1>2, <3>1, OlderIsStrict DEF Release
  <2>. QED  BY <2>1, <2>2
<1>. QED  BY <1>1, <1>2, <1>3 DEF InOrder, Latest, Release

\* The commits since the last tag are those after the last release.
LEMMA CommitsOfLatest ==
  ASSUME ReleaseTyped, InOrder
  PROVE  Releases!CommitsSince(Latest.version) = SinceLatest
<1>1. \A i \in DOMAIN main :
          (\A r \in Releases!Range(published) : r.version = Latest.version =>
               i > r.at)
          <=> i > Latest.at
  <2>1. DOMAIN published = 1..Len(published) /\ DOMAIN main = 1..Len(main)
    BY LenProperties DEF ReleaseTyped
  <2>2. \A r \in Releases!Range(published) : r.version = Latest.version => r = Latest
    <3>1. ASSUME NEW r \in Releases!Range(published), r.version = Latest.version
          PROVE  r = Latest
      <4>1. PICK i \in 1..Len(published) : r = published[i]
        BY <2>1 DEF Releases!Range
      <4>2. i = Len(published)
        BY <3>1, <4>1, LatestIsNewest
      <4>. QED  BY <4>1, <4>2 DEF Latest
    <3>. QED  BY <3>1
  <2>3. Latest \in Releases!Range(published)
    <3>1. Len(published) \in DOMAIN published
      BY LenProperties DEF ReleaseTyped
    <3>2. \A i \in DOMAIN published : published[i] \in Releases!Range(published)
      BY DEF Releases!Range
    <3>. QED  BY <3>1, <3>2 DEF Latest
  <2>. QED  BY <2>1, <2>2, <2>3
<1>2. DOMAIN main = 1..Len(main)
  BY LenProperties DEF ReleaseTyped
<1>. QED  BY <1>1, <1>2, LatestIsNewest DEF Releases!CommitsSince, SinceLatest

-----------------------------------------------------------------------------
(* Main grows and its commits are labelled; no release changes. *)

MainGrows ==
    /\ main' \in Seq(Releases!Levels) /\ Len(main') >= Len(main)
    /\ \A i \in 1..Len(main) : main[i] \in Automatable \cup {"major"} =>
         main'[i] = main[i]

LEMMA MainOnlyGrows ==
  ASSUME ReleaseTyped, Releases!Merge \/ Releases!Label
  PROVE  MainGrows /\ UNCHANGED <<published, drafts, job>>
<1>0. main \in Seq(Releases!Levels) /\ Len(main) \in Nat
     /\ DOMAIN main = 1..Len(main)
  BY LenProperties DEF ReleaseTyped
<1>1. CASE Releases!Merge
  BY <1>0, <1>1 DEF Releases!Merge, MainGrows
<1>2. CASE Releases!Label
  <2>1. PICK i \in 1..Len(main), level \in Releases!Labels :
          main[i] = "unlabelled" /\ main' = [main EXCEPT ![i] = level]
    BY <1>0, <1>2 DEF Releases!Label
  <2>2. level \in Releases!Levels
    BY DEF Releases!Levels
  <2>3. /\ main' \in Seq(Releases!Levels) /\ Len(main') = Len(main)
        /\ \A j \in 1..Len(main) : main'[j] = IF j = i THEN level ELSE main[j]
    BY <1>0, <2>1, <2>2, ExceptSeq, Zenon
  <2>. QED  BY <1>0, <1>2, <2>1, <2>3 DEF Releases!Label, MainGrows, Automatable
<1>. QED  BY <1>1, <1>2

LEMMA GrowthKeeps ==
  ASSUME ReleaseTyped, InOrder, MainGrows, UNCHANGED <<published, drafts, job>>
  PROVE  /\ \A S : Deep(S) => Deep(S)'
         /\ \A S : AllListed(S) => AllListed(S)'
         /\ Latest' = Latest /\ Releases!Versions' = Releases!Versions
         /\ Deep(SinceLatest) => Deep(SinceLatest)'
         /\ \A v : Deep(Releases!CommitsSince(v)) => Deep(Releases!CommitsSince(v))'
<1>0. /\ DOMAIN main = 1..Len(main) /\ DOMAIN main' = 1..Len(main')
      /\ Len(main) \in Nat /\ Len(main') \in Nat
  BY LenProperties DEF ReleaseTyped, MainGrows
<1>1. Latest' = Latest /\ Releases!Versions' = Releases!Versions
  BY DEF Latest, Releases!Versions
<1>2. ASSUME NEW S, NEW T, S \subseteq T, Deep(S)
      PROVE  \E i \in T : i \in 1..Len(main') /\ main'[i] = "major"
  BY <1>0, <1>2 DEF Deep, MainGrows
<1>3. SinceLatest \subseteq SinceLatest'
  BY <1>0, <1>1, LatestIsNewest DEF SinceLatest, MainGrows
<1>4. ASSUME NEW v PROVE Releases!CommitsSince(v) \subseteq Releases!CommitsSince(v)'
  BY <1>0 DEF Releases!CommitsSince, MainGrows
<1>5. ASSUME NEW S, AllListed(S) PROVE AllListed(S)'
  BY <1>0, <1>1, <1>5 DEF AllListed, MainGrows
<1>. QED  BY <1>1, <1>2, <1>3, <1>4, <1>5 DEF Deep

LEMMA GrowthStep ==
  ASSUME ReleaseInv, MainGrows, UNCHANGED <<published, drafts, job>>
  PROVE  ReleaseInv'
<1>0. ReleaseTyped /\ InOrder /\ Len(main) \in Nat /\ Len(main') \in Nat
  BY LenProperties DEF ReleaseInv, ReleaseTyped, MainGrows
<1>1. ReleaseTyped' /\ InOrder' /\ DraftsAhead'
  <2>1. ReleaseTyped'
    BY DEF ReleaseInv, ReleaseTyped, MainGrows
  <2>2. InOrder'
    <3>1. \A i \in 1..Len(published) : published[i] \in Release
      BY <1>0, LatestIsNewest
    <3>. QED  BY <1>0, <3>1 DEF InOrder, MainGrows, Release
  <2>3. DraftsAhead'
    BY <1>0, GrowthKeeps DEF ReleaseInv, DraftsAhead
  <2>. QED  BY <2>1, <2>2, <2>3
<1>2. JobFits'
  <2>1. JobFits /\ job \in ReleaseJob
    BY DEF ReleaseInv, ReleaseTyped
  <2>2. \A S : Behind(S) => Behind(S)'
    BY <1>0, GrowthKeeps DEF Behind
  <2>3. (Releases!At("compare") =>
             /\ Tagged(job.last)
             /\ job.last = Latest.version
                  \/ Behind(Releases!CommitsSince(job.last)))'
    BY <1>0, <2>1, GrowthKeeps DEF JobFits, Releases!At, Tagged, Behind
  <2>4. (Releases!At("labels") =>
             \/ /\ job.last = Latest.version
                /\ AllListed(job.commits)
                /\ drafts # {} => Deep(job.commits)
             \/ Behind(job.commits))'
    BY <1>0, <2>1, <2>2, GrowthKeeps DEF JobFits, Releases!At
  <2>5. (job.step \in {"summary", "find", "create"} /\ job.kind = "automatic" =>
           /\ drafts = {} /\ AllListed(job.commits)
           /\ \A c \in job.commits : main[c] \in Automatable
           /\ \E bump \in {"minor", "patch"} :
                  job.version = Releases!NextVersion(Latest.version, bump))'
    <3>1. ASSUME AllListed(job.commits), \A c \in job.commits :
                 main[c] \in Automatable
          PROVE  \A c \in job.commits : main'[c] \in Automatable
      BY <1>0, <3>1, LatestIsNewest DEF AllListed, MainGrows
    <3>. QED  BY <1>0, <2>1, <3>1, GrowthKeeps DEF JobFits
  <2>6. (job.step \in {"summary", "find", "create"} /\ job.kind = "draft" =>
           \/ job.version \in Releases!Versions
           \/ job.version = Releases!NextMajorVersion(Latest.version)
                /\ Deep(SinceLatest))'
    BY <1>0, <2>1, GrowthKeeps DEF JobFits
  <2>. QED  BY <2>3, <2>4, <2>5, <2>6 DEF JobFits
<1>3. Cleared'
  <2>. SUFFICES ASSUME NEW i \in 2..Len(published), published[i].automatic,
                       NEW c \in Releases!Brought(i), c <= published[i].checked
                PROVE  main'[c] \in Automatable
    BY DEF Cleared, Releases!Brought
  <2>1. main[c] \in Automatable
    BY DEF ReleaseInv, Cleared
  <2>2. c \in 1..Len(main)
    <3>1. published[i] \in Release /\ published[i - 1] \in Release
      BY <1>0, LatestIsNewest
    <3>2. published[i].at <= Len(main)
      BY <1>0, LatestIsNewest DEF InOrder
    <3>. QED  BY <1>0, <3>1, <3>2 DEF Releases!Brought, Release
  <2>. QED  BY <2>1, <2>2 DEF MainGrows
<1>. QED  BY <1>1, <1>2, <1>3 DEF ReleaseInv

-----------------------------------------------------------------------------
(* Steps of the job that only change the job. *)

LEMMA JobShape ==
  ASSUME ReleaseTyped
  PROVE  /\ Releases!At("compare") => job \in Comparing
         /\ Releases!At("labels") => job \in Deciding
         /\ Releases!At("summary") => job \in Summarizing
         /\ Releases!At("find") \/ Releases!At("create") => job \in Writing
<1>1. /\ job = Releases!Idle => job.step = "idle"
      /\ job \in Comparing => job.step = "compare"
      /\ job \in Deciding => job.step = "labels"
      /\ job \in Summarizing => job.step = "summary"
      /\ job \in Writing => job.step \in {"find", "create"}
      /\ job \in DualWriting => job.step = "dual write"
  <2>1. job = Releases!Idle => job.step = "idle"
    BY DEF Releases!Idle
  <2>2. job \in Comparing => job.step = "compare"
    BY DEF Comparing
  <2>3. job \in Deciding => job.step = "labels"
    BY DEF Deciding
  <2>4. job \in Summarizing => job.step = "summary"
    BY DEF Summarizing
  <2>5. job \in Writing => job.step \in {"find", "create"}
    BY DEF Writing
  <2>6. job \in DualWriting => job.step = "dual write"
    BY DEF DualWriting
  <2>. QED  BY <2>1, <2>2, <2>3, <2>4, <2>5, <2>6
<1>. QED  BY <1>1 DEF ReleaseTyped, ReleaseJob, Releases!At

LEMMA JobStep ==
  ASSUME ReleaseInv, UNCHANGED <<main, published, drafts>>, job' \in ReleaseJob,
         JobFits'
  PROVE  ReleaseInv'
BY DEF ReleaseInv, ReleaseTyped, InOrder, DraftsAhead, Latest, SinceLatest, Deep,
     Cleared, Releases!Brought

LEMMA StartStep ==
  ASSUME ReleaseInv, Releases!Start
  PROVE  ReleaseInv'
<1>0. ReleaseTyped /\ InOrder /\ UNCHANGED <<main, published, drafts>>
  BY DEF ReleaseInv, Releases!Start
<1>1. job' = [step |-> "compare", last |-> Latest.version] /\ Latest \in Release
  BY <1>0, LatestIsNewest DEF Releases!Start
<1>2. job' \in ReleaseJob
  <2>1. job' \in Comparing
    BY <1>1 DEF Comparing, Release
  <2>. QED  BY <2>1 DEF ReleaseJob
<1>3. Tagged(Latest.version)' /\ Latest' = Latest
  BY <1>0, LenProperties DEF Tagged, Latest, ReleaseTyped
<1>4. JobFits'
  BY <1>1, <1>3 DEF JobFits, Releases!At
<1>. QED  BY <1>0, <1>2, <1>4, JobStep

LEMMA CompareStep ==
  ASSUME ReleaseInv, Releases!Compare
  PROVE  ReleaseInv'
<1>0. ReleaseTyped /\ InOrder /\ DraftsAhead /\ UNCHANGED <<main, published, drafts>>
  BY DEF ReleaseInv, Releases!Compare
<1>. DEFINE commits == Releases!CommitsSince(job.last)
<1>1. /\ job \in Comparing
      /\ job.last = Latest.version \/ Behind(commits)
      /\ commits \subseteq Nat
  BY <1>0, JobShape, LenProperties DEF Releases!Compare, Releases!At, ReleaseInv,
       JobFits, Releases!CommitsSince, ReleaseTyped
<1>2. job' = Releases!Idle
     \/ job' = [step |-> "labels", last |-> job.last, commits |-> commits]
  BY DEF Releases!Compare
<1>. HIDE DEF commits
<1>3. job' \in ReleaseJob
  <2>1. job' = Releases!Idle \/ job' \in Deciding
    <3>1. job.last \in Version
      BY <1>1 DEF Comparing
    <3>2. [step |-> "labels", last |-> job.last, commits |-> commits] \in Deciding
      BY <1>1, <3>1 DEF Deciding
    <3>. QED  BY <1>2, <3>2
  <2>. QED  BY <2>1 DEF ReleaseJob
<1>4. ASSUME job' = [step |-> "labels", last |-> job.last, commits |-> commits]
      PROVE  JobFits'
  <2>1. CASE job.last = Latest.version
    <3>1. commits = SinceLatest
      BY <1>0, <2>1, CommitsOfLatest DEF commits
    <3>2. AllListed(commits)
      BY <1>0, <3>1, LatestIsNewest DEF AllListed, SinceLatest
    <3>3. (job.last = Latest.version /\ AllListed(job.commits)
           /\ (drafts # {} => Deep(job.commits)))'
      BY <1>0, <1>4, <2>1, <3>1, <3>2 DEF DraftsAhead, Latest, AllListed, Deep,
           SinceLatest
    <3>. QED  BY <1>4, <3>3 DEF JobFits, Releases!At
  <2>2. CASE Behind(commits)
    <3>1. Behind(job.commits)'
      BY <1>0, <1>4, <2>2 DEF Behind, Deep, Releases!Versions
    <3>. QED  BY <1>4, <3>1 DEF JobFits, Releases!At
  <2>. QED  BY <1>1, <2>1, <2>2
<1>5. job' = Releases!Idle => JobFits'
  BY DEF Releases!Idle, JobFits, Releases!At
<1>. QED  BY <1>0, <1>2, <1>3, <1>4, <1>5, JobStep

LEMMA DecideStep ==
  ASSUME ReleaseInv, Releases!Decide
  PROVE  ReleaseInv'
<1>0. ReleaseTyped /\ InOrder /\ UNCHANGED <<main, published, drafts>>
  BY DEF ReleaseInv, Releases!Decide
<1>1. /\ job \in Deciding
      /\ \/ /\ job.last = Latest.version /\ AllListed(job.commits)
            /\ drafts # {} => Deep(job.commits)
         \/ Behind(job.commits)
  BY <1>0, JobShape DEF Releases!Decide, Releases!At, ReleaseInv, JobFits
<1>. DEFINE Decided(kind, version) ==
         job' = [step |-> "summary", kind |-> kind, version |-> version,
                 commits |-> job.commits]
<1>2. PICK unread \in SUBSET job.commits :
        LET levels == {main[i] : i \in job.commits \ unread}
                      \cup IF unread = {} THEN {} ELSE {"unlabelled"}
        IN \/ /\ Releases!AutoReleaseEligible(levels)
              /\ \E bump \in {"minor", "patch"} :
                     Decided("automatic", Releases!NextVersion(job.last, bump))
           \/ /\ Releases!MajorDraftEligible(levels)
              /\ Decided("draft", Releases!NextMajorVersion(job.last))
           \/ job' = Releases!Idle
  BY DEF Releases!Decide
<1>. DEFINE levels == {main[i] : i \in job.commits \ unread}
                      \cup IF unread = {} THEN {} ELSE {"unlabelled"}
<1>3. ASSUME NEW bump \in {"minor", "patch"}, Releases!AutoReleaseEligible(levels),
             Decided("automatic", Releases!NextVersion(job.last, bump))
      PROVE  job' \in ReleaseJob /\ JobFits'
  <2>1. \A c \in job.commits : main[c] \in Automatable
    BY <1>3 DEF Releases!AutoReleaseEligible, Releases!Releasable, Automatable
  <2>2. ~Deep(job.commits)
    BY <2>1 DEF Deep, Automatable
  <2>3. job.last = Latest.version /\ AllListed(job.commits) /\ drafts = {}
    BY <1>1, <2>2 DEF Behind
  <2>4. Releases!NextVersion(job.last, bump) \in Version
    BY <1>1, NextIsNewer DEF Deciding
  <2>5. job' \in ReleaseJob
    <3>1. job' \in Summarizing
      BY <1>1, <1>3, <2>4 DEF Deciding, Summarizing, ReleaseKinds
    <3>. QED  BY <3>1 DEF ReleaseJob
  <2>6. /\ job'.step = "summary" /\ job'.kind = "automatic"
        /\ job'.commits = job.commits
        /\ job'.version = Releases!NextVersion(Latest.version, bump)
    BY <1>3, <2>3
  <2>7. AllListed(job.commits)'
    BY <1>0, <2>3, <2>6 DEF AllListed, Latest
  <2>8. (drafts = {} /\ \A c \in job.commits : main[c] \in Automatable)'
    BY <1>0, <2>1, <2>3, <2>6
  <2>9. (\E b \in {"minor", "patch"} :
            job.version = Releases!NextVersion(Latest.version, b))'
    BY <1>0, <2>6 DEF Latest, Releases!NextVersion
  <2>. QED  BY <2>5, <2>6, <2>7, <2>8, <2>9 DEF JobFits, Releases!At
<1>4. ASSUME Releases!MajorDraftEligible(levels), Decided("draft",
             Releases!NextMajorVersion(job.last))
      PROVE  job' \in ReleaseJob /\ JobFits'
  <2>1. Releases!NextMajorVersion(job.last) \in Version
    BY <1>1, NextIsNewer DEF Deciding
  <2>2. job' \in ReleaseJob
    <3>1. job' \in Summarizing
      BY <1>1, <1>4, <2>1 DEF Deciding, Summarizing, ReleaseKinds
    <3>. QED  BY <3>1 DEF ReleaseJob
  <2>3. /\ job'.step = "summary" /\ job'.kind = "draft"
        /\ job'.version = Releases!NextMajorVersion(job.last)
    BY <1>4
  <2>4. CASE Behind(job.commits)
    <3>1. job'.version \in Releases!Versions'
      BY <1>0, <2>3, <2>4 DEF Behind, Releases!Versions
    <3>. QED  BY <2>2, <2>3, <3>1 DEF JobFits, Releases!At
  <2>5. CASE job.last = Latest.version /\ AllListed(job.commits)
    <3>1. \E c \in job.commits : main[c] = "major"
      BY <1>4 DEF Releases!MajorDraftEligible
    <3>2. Deep(SinceLatest)
      BY <1>0, <2>5, <3>1, LatestIsNewest DEF AllListed, Deep, SinceLatest
    <3>3. (job.version = Releases!NextMajorVersion(Latest.version)
         /\ Deep(SinceLatest))'
      BY <1>0, <2>3, <2>5, <3>2 DEF Latest, Deep, SinceLatest,
           Releases!NextMajorVersion
    <3>. QED  BY <2>2, <2>3, <3>3 DEF JobFits, Releases!At
  <2>. QED  BY <1>1, <2>4, <2>5
<1>5. job' = Releases!Idle => job' \in ReleaseJob /\ JobFits'
  BY DEF Releases!Idle, ReleaseJob, JobFits, Releases!At
<1>. QED  BY <1>0, <1>2, <1>3, <1>4, <1>5, JobStep

LEMMA SummaryStep ==
  ASSUME ReleaseInv, Releases!GenerateReleaseSummary
  PROVE  ReleaseInv'
<1>0. ReleaseTyped /\ InOrder /\ JobFits /\ UNCHANGED <<main, published, drafts>>
  BY DEF ReleaseInv, Releases!GenerateReleaseSummary
<1>1. Releases!At("summary") /\ job \in Summarizing
  BY <1>0, JobShape DEF Releases!GenerateReleaseSummary
<1>. DEFINE noted == Releases!CommitsSince(Releases!LatestReleaseTag)
            then == IF job.kind = "draft" THEN "find" ELSE "create"
<1>2. noted \subseteq Nat
  BY <1>0, LenProperties DEF Releases!CommitsSince, ReleaseTyped
<1>3. job' = [step |-> then, kind |-> job.kind, version |-> job.version,
              commits |-> job.commits, noted |-> noted, found |-> FALSE]
  BY DEF Releases!GenerateReleaseSummary
<1>. HIDE DEF noted
<1>4. job' \in ReleaseJob
  <2>1. /\ job.kind \in ReleaseKinds /\ job.version \in Version
        /\ job.commits \in SUBSET Nat /\ noted \in SUBSET Nat
        /\ then \in {"find", "create"}
    BY <1>1, <1>2 DEF Summarizing
  <2>2. job' \in Writing
    BY <1>3, <2>1 DEF Writing
  <2>. QED  BY <2>2 DEF ReleaseJob
<1>5. /\ job'.step = then /\ job'.kind = job.kind /\ job'.version = job.version
      /\ job'.commits = job.commits
  BY <1>3
<1>6. JobFits'
  BY <1>0, <1>1, <1>5 DEF JobFits, Releases!At, AllListed, Deep, SinceLatest,
       Latest, Releases!Versions
<1>. QED  BY <1>0, <1>4, <1>6, JobStep

LEMMA FindStep ==
  ASSUME ReleaseInv, Releases!FindDraft
  PROVE  ReleaseInv'
<1>0. ReleaseTyped /\ InOrder /\ JobFits /\ UNCHANGED <<main, published, drafts>>
  BY DEF ReleaseInv, Releases!FindDraft
<1>1. Releases!At("find") /\ job \in Writing
  BY <1>0, JobShape DEF Releases!FindDraft
<1>. DEFINE found == \E draft \in drafts : draft.version = job.version
<1>2. job' = [job EXCEPT !.step = "create", !.found = found]
  BY DEF Releases!FindDraft
<1>3. found \in BOOLEAN
  OBVIOUS
<1>. HIDE DEF found
<1>4. job' \in Writing
  BY <1>1, <1>2, <1>3 DEF Writing
<1>5. /\ job'.step = "create" /\ job'.kind = job.kind
      /\ job'.version = job.version /\ job'.commits = job.commits
  BY <1>1, <1>2 DEF Writing
<1>6. JobFits'
  BY <1>0, <1>1, <1>5 DEF JobFits, Releases!At, AllListed, Deep, SinceLatest,
       Latest, Releases!Versions
<1>. QED  BY <1>0, <1>4, <1>6, JobStep DEF ReleaseJob

\* The job ends, or only the table of release notes is written.
LEMMA EndStep ==
  ASSUME ReleaseInv, Releases!Fail \/ Releases!DualWrite \/ Releases!Backfill
  PROVE  ReleaseInv'
<1>1. UNCHANGED <<main, published, drafts>> /\ (job' = Releases!Idle \/ job' = job)
  BY DEF Releases!Fail, Releases!DualWrite, Releases!Backfill
<1>2. job' \in ReleaseJob
  BY <1>1 DEF ReleaseInv, ReleaseTyped, ReleaseJob
<1>3. CASE job' = Releases!Idle
  <2>1. JobFits'
    BY <1>3 DEF Releases!Idle, JobFits, Releases!At
  <2>. QED  BY <1>1, <1>2, <2>1, JobStep
<1>4. CASE job' = job
  <2>1. JobFits'
    BY <1>1, <1>4 DEF ReleaseInv, JobFits, Releases!At, Tagged, Behind,
         Releases!CommitsSince, AllListed, Deep, SinceLatest, Latest,
         Releases!Versions
  <2>. QED  BY <1>1, <1>2, <2>1, JobStep
<1>. QED  BY <1>1, <1>3, <1>4

-----------------------------------------------------------------------------
(* A release is published. *)

LEMMA Appended ==
  ASSUME ReleaseInv, NEW r \in Release, r.at = Len(main),
         Releases!Older(Latest.version, r.version),
         published' = Append(published, r), main' = main
  PROVE  /\ published' \in Seq(Release) /\ Len(published') = Len(published) + 1
         /\ \A i \in 1..Len(published) : published'[i] = published[i]
         /\ published'[Len(published) + 1] = r /\ Latest' = r
         /\ InOrder'
         /\ \A i \in 2..Len(published) : Releases!Brought(i)' = Releases!Brought(i)
         /\ {x.version : x \in Releases!Range(published)} \cup {r.version}
                = {x.version : x \in Releases!Range(published)}'
         /\ \A v : v # r.version =>
              Releases!CommitsSince(v)' = Releases!CommitsSince(v)
<1>0. ReleaseTyped /\ InOrder
  BY DEF ReleaseInv
<1>1. /\ published' \in Seq(Release) /\ Len(published') = Len(published) + 1
      /\ \A i \in 1..Len(published) : published'[i] = published[i]
      /\ published'[Len(published) + 1] = r
      /\ Len(published) \in Nat \ {0}
  BY <1>0 DEF ReleaseTyped
<1>2. Latest' = r
  BY <1>1 DEF Latest
<1>3. \A i \in 1..Len(published) : Releases!Older(published[i].version, r.version)
  <2>. SUFFICES ASSUME NEW i \in 1..Len(published)
                PROVE  Releases!Older(published[i].version, r.version)
    OBVIOUS
  <2>1. /\ published[i].version \in Version /\ Latest.version \in Version
        /\ r.version \in Version
    BY <1>0, LatestIsNewest DEF Release
  <2>2. published[i].version = Latest.version
        \/ Releases!Older(published[i].version, Latest.version)
    BY <1>0, LatestIsNewest
  <2>. QED  BY <2>1, <2>2, OlderIsTransitive
<1>4. InOrder'
  <2>1. \A i \in 1..Len(published') : published'[i].at <= Len(main')
    BY <1>0, <1>1, LatestIsNewest DEF InOrder, Release
  <2>2. ASSUME NEW i \in 1..Len(published'), NEW j \in 1..Len(published'), i < j
        PROVE  /\ Releases!Older(published'[i].version, published'[j].version)
               /\ published'[i].at <= published'[j].at
    <3>1. i \in 1..Len(published) /\ published'[i] = published[i]
      BY <1>1, <2>2
    <3>2. CASE j \in 1..Len(published)
      BY <1>0, <1>1, <2>2, <3>1, <3>2 DEF InOrder
    <3>3. CASE j = Len(published) + 1
      BY <1>0, <1>1, <1>3, <3>1, <3>3 DEF InOrder
    <3>. QED  BY <1>1, <3>2, <3>3
  <2>3. ~published'[1].automatic
    BY <1>0, <1>1 DEF InOrder
  <2>. QED  BY <2>1, <2>2, <2>3 DEF InOrder
<1>5. \A i \in 2..Len(published) : Releases!Brought(i)' = Releases!Brought(i)
  BY <1>1 DEF Releases!Brought
<1>6. Releases!Range(published') = Releases!Range(published) \cup {r}
  <2>1. DOMAIN published = 1..Len(published)
       /\ DOMAIN published' = 1..Len(published')
    BY <1>0, <1>1, LenProperties DEF ReleaseTyped
  <2>2. DOMAIN published' = DOMAIN published \cup {Len(published) + 1}
    BY <1>1, <2>1
  <2>. QED  BY <1>1, <2>1, <2>2 DEF Releases!Range
<1>7. {x.version : x \in Releases!Range(published)} \cup {r.version}
         = {x.version : x \in Releases!Range(published)}'
  BY <1>6
<1>8. \A v : v # r.version => Releases!CommitsSince(v)' = Releases!CommitsSince(v)
  BY <1>6 DEF Releases!CommitsSince
<1>. QED  BY <1>1, <1>2, <1>4, <1>5, <1>7, <1>8

\* A person publishes the draft: what the job has listed holds the major change.
LEMMA PublishStep ==
  ASSUME ReleaseInv, Releases!Publish
  PROVE  ReleaseInv'
<1>0. ReleaseTyped /\ InOrder /\ DraftsAhead /\ JobFits /\ Cleared
     /\ main' = main /\ job' = job
  BY DEF ReleaseInv, Releases!Publish
<1>1. PICK draft \in drafts :
        /\ drafts' = drafts \ {draft}
        /\ published' = Append(published,
             [version |-> draft.version, at |-> Len(main), noted |-> draft.noted,
              automatic |-> FALSE, checked |-> 0])
  BY DEF Releases!Publish
<1>. DEFINE r == [version |-> draft.version, at |-> Len(main), noted |-> draft.noted,
                  automatic |-> FALSE, checked |-> 0]
<1>2. /\ drafts' = {} /\ draft \in Draft
      /\ draft.version = Releases!NextMajorVersion(Latest.version)
      /\ Deep(SinceLatest)
  BY <1>0, <1>1 DEF DraftsAhead, ReleaseTyped
<1>3. /\ r \in Release /\ r.at = Len(main) /\ r.version = draft.version
      /\ ~r.automatic
  BY <1>0, <1>2, LatestIsNewest DEF Draft, Release
<1>4. Releases!Older(Latest.version, r.version)
  BY <1>0, <1>2, <1>3, LatestIsNewest, NextIsNewer DEF Release
<1>. HIDE DEF r
<1>5. published' = Append(published, r)
  BY <1>1 DEF r
<1>6. /\ InOrder' /\ published' \in Seq(Release) /\ Latest' = r
      /\ Len(published') = Len(published) + 1
      /\ \A i \in 1..Len(published) : published'[i] = published[i]
      /\ published'[Len(published) + 1] = r
  BY <1>0, <1>3, <1>4, <1>5, Appended
<1>7. Releases!Versions \subseteq Releases!Versions'
  BY <1>0, <1>1, <1>2, <1>3, <1>4, <1>5, Appended DEF Releases!Versions
<1>8. ReleaseTyped' /\ DraftsAhead'
  BY <1>0, <1>2, <1>6, LatestIsNewest DEF ReleaseTyped, DraftsAhead
<1>9. draft.version \in Releases!Versions
  BY DEF Releases!Versions
<1>10. JobFits'
  <2>1. Deep(job.commits)
       /\ Releases!NextMajorVersion(job.last) \in Releases!Versions
           => Behind(job.commits)'
    BY <1>0, <1>7 DEF Behind, Deep
  <2>2. (Releases!At("compare") => Tagged(job.last) /\ (job.last = Latest.version
                                          \/ Behind(Releases!CommitsSince(job.last))))'
    <3>. SUFFICES ASSUME Releases!At("compare")
                  PROVE  Tagged(job.last)'
                       /\ Behind(Releases!CommitsSince(job.last))'
      BY <1>0 DEF Releases!At
    <3>1. PICK i \in 1..Len(published) : published[i].version = job.last
      BY <1>0 DEF JobFits, Tagged
    <3>2. Tagged(job.last)'
      BY <1>0, <1>6, <3>1, LatestIsNewest DEF Tagged
    <3>3. job.last # r.version
      <4>1. job.last = Latest.version \/ Releases!Older(job.last, Latest.version)
        BY <1>0, <3>1, LatestIsNewest
      <4>2. job.last \in Version /\ Latest.version \in Version
        BY <1>0, <3>1, LatestIsNewest DEF Release
      <4>. QED  BY <1>3, <1>4, <4>1, <4>2, OlderIsTransitive, OlderIsStrict
           DEF Release
    <3>4. Releases!CommitsSince(job.last)' = Releases!CommitsSince(job.last)
      BY <1>0, <1>3, <1>4, <1>5, <3>3, Appended
    <3>5. Behind(Releases!CommitsSince(job.last))
      BY <1>0, <1>2, <1>9, CommitsOfLatest DEF JobFits, Behind
    <3>. QED  BY <1>0, <1>7, <3>2, <3>4, <3>5 DEF Behind, Deep
  <2>3. Releases!At("labels") => Behind(job.commits)'
    BY <1>0, <1>2, <1>9, <2>1 DEF JobFits, Behind
  <2>4. job.step \in {"summary", "find", "create"} => job.kind # "automatic"
    BY <1>0 DEF JobFits
  <2>5. job.step \in {"summary", "find", "create"} /\ job.kind = "draft"
           => job.version \in Releases!Versions'
    BY <1>0, <1>2, <1>7, <1>9 DEF JobFits
  <2>. QED  BY <1>0, <2>2, <2>3, <2>4, <2>5 DEF JobFits, Releases!At
<1>11. Cleared'
  <2>1. \A i \in 2..Len(published) : Releases!Brought(i)' = Releases!Brought(i)
    BY <1>0, <1>3, <1>4, <1>5, Appended
  <2>. QED  BY <1>0, <1>3, <1>6, <2>1, LatestIsNewest DEF Cleared
<1>. QED  BY <1>6, <1>8, <1>10, <1>11 DEF ReleaseInv

LEMMA CreateReleaseStep ==
  ASSUME ReleaseInv, Releases!CreateRelease
  PROVE  ReleaseInv'
<1>0. /\ ReleaseTyped /\ InOrder /\ DraftsAhead /\ JobFits /\ Cleared
      /\ UNCHANGED <<main, drafts>>
  BY DEF ReleaseInv, Releases!CreateRelease
<1>1. Releases!At("create") /\ job.kind = "automatic" /\ job \in Writing
  BY <1>0, JobShape DEF Releases!CreateRelease
<1>2. CASE UNCHANGED published /\ job' = Releases!Idle
  <2>1. job' \in ReleaseJob /\ JobFits'
    BY <1>2 DEF Releases!Idle, ReleaseJob, JobFits, Releases!At
  <2>. QED  BY <1>0, <1>2, <2>1, JobStep
<1>3. CASE /\ published' = Append(published,
                 [version |-> job.version, at |-> Len(main), noted |-> job.noted,
                  automatic |-> TRUE, checked |-> Releases!Max({0} \cup job.commits)])
           /\ job' = [step |-> "dual write", version |-> job.version]
  <2>. DEFINE r == [version |-> job.version, at |-> Len(main), noted |-> job.noted,
                    automatic |-> TRUE, checked |-> Releases!Max({0} \cup job.commits)]
  <2>1. /\ drafts = {} /\ \A c \in job.commits : main[c] \in Automatable
        /\ \E n \in Nat : n <= Len(main) /\ job.commits = (Latest.at + 1)..n
        /\ Releases!Older(Latest.version, job.version)
    BY <1>0, <1>1, LatestIsNewest, NextIsNewer DEF JobFits, Releases!At, AllListed,
         Release
  <2>2. PICK n \in Nat : n <= Len(main) /\ job.commits = (Latest.at + 1)..n
    BY <2>1
  <2>3. r.checked \in {0} \cup job.commits
    <3>1. \E m \in {0} \cup job.commits : \A c \in {0} \cup job.commits : m >= c
      <4>1. CASE Latest.at + 1 <= n
        BY <1>0, <2>2, <4>1, LatestIsNewest
      <4>2. CASE ~(Latest.at + 1 <= n)
        BY <1>0, <2>2, <4>2, LatestIsNewest
      <4>. QED  BY <4>1, <4>2
    <3>. QED  BY <3>1 DEF Releases!Max
  <2>4. /\ r.version = job.version /\ r.at = Len(main) /\ r.automatic
        /\ r \in Release
    BY <1>0, <1>1, <2>3, LatestIsNewest DEF Release, Writing
  <2>. HIDE DEF r
  <2>5. published' = Append(published, r)
    BY <1>3 DEF r
  <2>6. /\ InOrder' /\ published' \in Seq(Release) /\ Latest' = r
        /\ Len(published') = Len(published) + 1
        /\ \A i \in 1..Len(published) : published'[i] = published[i]
        /\ published'[Len(published) + 1] = r
        /\ \A i \in 2..Len(published) : Releases!Brought(i)' = Releases!Brought(i)
    BY <1>0, <2>1, <2>4, <2>5, Appended
  <2>7. job' \in ReleaseJob /\ JobFits'
    <3>1. job' \in DualWriting /\ job'.step = "dual write"
      BY <1>1, <1>3 DEF DualWriting, Writing
    <3>. QED  BY <3>1 DEF ReleaseJob, JobFits, Releases!At
  <2>8. ReleaseTyped' /\ DraftsAhead'
    BY <1>0, <2>1, <2>6, <2>7, LatestIsNewest DEF ReleaseTyped, DraftsAhead
  <2>9. Cleared'
    <3>. SUFFICES ASSUME NEW i \in 2..Len(published'), published'[i].automatic,
                         NEW c \in Releases!Brought(i)', c <= published'[i].checked
                  PROVE  main[c] \in Automatable
      BY <1>0 DEF Cleared
    <3>1. CASE i \in 2..Len(published)
      BY <1>0, <2>6, <3>1 DEF Cleared
    <3>2. CASE i = Len(published) + 1
      <4>1. published'[i] = r /\ published'[i - 1] = Latest
        BY <1>0, <2>6, <3>2, LatestIsNewest DEF Latest
      <4>2. c \in (Latest.at + 1)..r.at /\ c <= r.checked
        BY <4>1 DEF Releases!Brought
      <4>3. c \in job.commits
        BY <1>0, <2>2, <2>3, <2>4, <4>2, LatestIsNewest
      <4>. QED  BY <2>1, <4>3
    <3>. QED  BY <1>0, <2>6, <3>1, <3>2, LatestIsNewest
  <2>. QED  BY <2>6, <2>7, <2>8, <2>9 DEF ReleaseInv
<1>. QED  BY <1>2, <1>3 DEF Releases!CreateRelease

-----------------------------------------------------------------------------
(* A draft is written. *)

\* Only what the notes say of a release changes.
LEMMA UpdateStep ==
  ASSUME ReleaseInv, Releases!UpdateDraft
  PROVE  ReleaseInv'
<1>0. /\ ReleaseTyped /\ InOrder /\ DraftsAhead /\ Cleared
      /\ main' = main /\ job' = Releases!Idle
  BY DEF ReleaseInv, Releases!UpdateDraft
<1>1. job \in Writing /\ job.noted \in SUBSET Nat
  BY <1>0, JobShape DEF Releases!UpdateDraft, Writing
<1>. DEFINE Noted(r) == IF r.version = job.version THEN [r EXCEPT !.noted = job.noted]
                        ELSE r
<1>2. /\ drafts' = {Noted(draft) : draft \in drafts}
      /\ published' = [i \in DOMAIN published |-> Noted(published[i])]
  BY DEF Releases!UpdateDraft
<1>3. \A r \in Release :
          /\ Noted(r) \in Release /\ Noted(r).version = r.version
          /\ Noted(r).at = r.at /\ Noted(r).automatic = r.automatic
          /\ Noted(r).checked = r.checked
  BY <1>1 DEF Release
<1>4. \A d \in Draft : Noted(d) \in Draft /\ Noted(d).version = d.version
  BY <1>1 DEF Draft
<1>. HIDE DEF Noted
<1>5. /\ published' \in Seq(Release) /\ Len(published') = Len(published)
      /\ \A i \in 1..Len(published) : published'[i] = Noted(published[i])
  <2>1. /\ DOMAIN published = 1..Len(published) /\ Len(published) \in Nat
        /\ \A i \in 1..Len(published) : published[i] \in Release
    BY <1>0, LenProperties, LatestIsNewest DEF ReleaseTyped
  <2>2. published' \in [1..Len(published) -> Release]
    BY <1>2, <1>3, <2>1
  <2>3. published' \in Seq(Release)
    BY <2>1, <2>2, SeqDef
  <2>4. DOMAIN published' = 1..Len(published)
       /\ DOMAIN published' = 1..Len(published')
        /\ Len(published') \in Nat
    BY <2>2, <2>3, LenProperties
  <2>5. Len(published') = Len(published)
    BY <2>1, <2>4
  <2>. QED  BY <1>2, <2>1, <2>3, <2>5
<1>6. \A i \in 1..Len(published) :
          /\ published'[i].version = published[i].version
          /\ published'[i].at = published[i].at
          /\ published'[i].automatic = published[i].automatic
          /\ published'[i].checked = published[i].checked
  BY <1>0, <1>3, <1>5, LatestIsNewest
<1>7. Latest'.version = Latest.version /\ Latest'.at = Latest.at
  BY <1>0, <1>5, <1>6, LatestIsNewest DEF Latest
<1>8. InOrder'
  BY <1>0, <1>5, <1>6, LatestIsNewest DEF InOrder
<1>9. DraftsAhead'
  <2>1. \A d \in drafts : d \in Draft
    BY <1>0 DEF ReleaseTyped
  <2>2. \A d \in drafts' : \E e \in drafts : d = Noted(e) /\ d.version = e.version
    BY <1>2, <1>4, <2>1
  <2>3. (drafts # {} => Deep(SinceLatest))'
    BY <1>0, <1>7, <2>2 DEF DraftsAhead, Deep, SinceLatest
  <2>. QED  BY <1>0, <1>7, <2>2, <2>3 DEF DraftsAhead
<1>10. job' \in ReleaseJob /\ JobFits'
  BY <1>0 DEF Releases!Idle, ReleaseJob, JobFits, Releases!At
<1>11. ReleaseTyped'
  BY <1>0, <1>2, <1>4, <1>5, <1>10 DEF ReleaseTyped
<1>12. Cleared'
  BY <1>0, <1>5, <1>6, LatestIsNewest DEF Cleared, Releases!Brought
<1>. QED  BY <1>8, <1>9, <1>10, <1>11, <1>12 DEF ReleaseInv

LEMMA CreateDraftStep ==
  ASSUME ReleaseInv, Releases!CreateDraft
  PROVE  ReleaseInv'
<1>0. /\ ReleaseTyped /\ InOrder /\ DraftsAhead /\ JobFits /\ Cleared
      /\ UNCHANGED <<main, published>> /\ job' = Releases!Idle
  BY DEF ReleaseInv, Releases!CreateDraft
<1>1. Releases!At("create") /\ job.kind = "draft" /\ job \in Writing
  BY <1>0, JobShape DEF Releases!CreateDraft
<1>2. job' \in ReleaseJob /\ JobFits'
  BY <1>0 DEF Releases!Idle, ReleaseJob, JobFits, Releases!At
<1>3. CASE job.version \in Releases!Versions
  BY <1>0, <1>2, <1>3, JobStep DEF Releases!CreateDraft
<1>4. CASE job.version \notin Releases!Versions
  <2>1. job.version = Releases!NextMajorVersion(Latest.version) /\ Deep(SinceLatest)
    BY <1>0, <1>1, <1>4 DEF JobFits, Releases!At
  <2>2. drafts = {}
    BY <1>0, <1>4, <2>1 DEF DraftsAhead, Releases!Versions
  <2>3. drafts' = {[version |-> job.version, noted |-> job.noted]}
    BY <1>4, <2>2 DEF Releases!CreateDraft
  <2>4. drafts' \in SUBSET Draft
    BY <1>1, <2>3 DEF Draft, Writing
  <2>5. DraftsAhead'
    BY <1>0, <2>1, <2>3 DEF DraftsAhead, Latest, Deep, SinceLatest,
         Releases!NextMajorVersion
  <2>6. ReleaseTyped'
    BY <1>0, <1>2, <2>4 DEF ReleaseTyped
  <2>7. InOrder' /\ Cleared'
    BY <1>0 DEF InOrder, Cleared, Releases!Brought
  <2>. QED  BY <1>2, <2>5, <2>6, <2>7 DEF ReleaseInv
<1>. QED  BY <1>3, <1>4

-----------------------------------------------------------------------------
(* The invariant holds. *)

LEMMA ReleaseInit == Releases!Init => ReleaseInv
<1>. SUFFICES ASSUME Releases!Init PROVE ReleaseInv
  OBVIOUS
<1>1. /\ main = <<>> /\ published = <<Releases!First>> /\ drafts = {}
      /\ job = Releases!Idle
      /\ Releases!First \in Release /\ Releases!First.at = 0
      /\ ~Releases!First.automatic
  BY DEF Releases!Init, Releases!First, Release, Version
<1>2. Len(published) = 1 /\ published[1] = Releases!First
     /\ published \in Seq(Release)
      /\ main \in Seq(Releases!Levels) /\ Len(main) = 0
  BY <1>1
<1>3. ReleaseTyped /\ InOrder /\ DraftsAhead /\ Cleared
  BY <1>1, <1>2 DEF ReleaseTyped, ReleaseJob, InOrder, DraftsAhead, Cleared
<1>4. JobFits
  BY <1>1 DEF JobFits, Releases!At, Releases!Idle
<1>. QED  BY <1>3, <1>4 DEF ReleaseInv

LEMMA ReleaseNext == ReleaseInv /\ [Releases!Next]_(Releases!vars) => ReleaseInv'
<1>. SUFFICES ASSUME ReleaseInv, [Releases!Next]_(Releases!vars) PROVE ReleaseInv'
  OBVIOUS
<1>1. CASE Releases!Merge \/ Releases!Label
  BY <1>1, MainOnlyGrows, GrowthStep DEF ReleaseInv
<1>2. CASE UNCHANGED Releases!vars
  BY <1>2, JobStep DEF Releases!vars, ReleaseInv, ReleaseTyped, JobFits,
       Releases!At, Tagged, Behind, Releases!CommitsSince, AllListed, Deep,
       SinceLatest, Latest, Releases!Versions
<1>. QED
  BY <1>1, <1>2, PublishStep, EndStep, StartStep, CompareStep, DecideStep,
       SummaryStep, FindStep, UpdateStep, CreateDraftStep, CreateReleaseStep
       DEF Releases!Next

\* However merges, labels, people and failing jobs interleave, every release is
\* newer than all before it and a draft is ahead of them all (autoRelease.ts).
LEMMA ReleasesIncrease == Releases!Spec => []Releases!VersionsIncrease
<1>1. ReleaseInv => Releases!VersionsIncrease
  <2>. SUFFICES ASSUME ReleaseInv PROVE Releases!VersionsIncrease
    OBVIOUS
  <2>0. ReleaseTyped /\ InOrder /\ DraftsAhead
       /\ DOMAIN published = 1..Len(published)
    BY LenProperties DEF ReleaseInv, ReleaseTyped
  <2>1. \A i, j \in DOMAIN published :
            i < j => Releases!Older(published[i].version, published[j].version)
    BY <2>0 DEF InOrder
  <2>2. ASSUME NEW r \in Releases!Range(published), NEW draft \in drafts
        PROVE  Releases!Older(r.version, draft.version)
    <3>1. PICK i \in 1..Len(published) : r = published[i]
      BY <2>0 DEF Releases!Range
    <3>2. /\ r.version \in Version /\ Latest.version \in Version
          /\ r.version = Latest.version \/ Releases!Older(r.version, Latest.version)
      BY <2>0, <3>1, LatestIsNewest DEF Release
    <3>3. draft.version = Releases!NextMajorVersion(Latest.version)
      BY <2>0 DEF DraftsAhead
    <3>4. draft.version \in Version /\ Releases!Older(Latest.version, draft.version)
      BY <3>2, <3>3, NextIsNewer
    <3>. QED  BY <3>2, <3>4, OlderIsTransitive
  <2>. QED  BY <2>1, <2>2 DEF Releases!VersionsIncrease
<1>. QED  BY <1>1, ReleaseInit, ReleaseNext, PTL DEF Releases!Spec

\* A change that is not labelled a patch, a minor one or none is released
\* automatically only when it was merged after the job had listed the commits
\* (autoRelease.ts, determineAutoReleaseEligibility).
LEMMA MajorWaits == Releases!Spec => []Releases!MajorAwaitsPerson
<1>1. ReleaseInv => Releases!MajorAwaitsPerson
  <2>. SUFFICES ASSUME ReleaseInv PROVE Releases!MajorAwaitsPerson
    OBVIOUS
  <2>0. /\ InOrder /\ Cleared /\ DOMAIN published = 1..Len(published)
        /\ Len(published) \in Nat
    BY LenProperties DEF ReleaseInv, ReleaseTyped
  <2>1. \A i \in DOMAIN published : published[i].automatic => i \in 2..Len(published)
    BY <2>0 DEF InOrder
  <2>. QED  BY <2>0, <2>1 DEF Cleared, Releases!MajorAwaitsPerson, Automatable
<1>. QED  BY <1>1, ReleaseInit, ReleaseNext, PTL DEF Releases!Spec
-----------------------------------------------------------------------------
(* What the notes of a release say, and what is written of it. *)

\* Releases and drafts list commits of main, the job lists commits of main, and
\* the table knows only versions that exist.
NotesInv ==
    /\ Len(main) <= ReleasesBounds.MaxCommits
    /\ failures \in 0..ReleasesBounds.MaxFailures
    /\ \A i \in 1..Len(published) : published[i].noted \subseteq 1..Len(main)
    /\ \A d \in drafts : d.noted \subseteq 1..Len(main)
    /\ Releases!At("labels") => job.commits \subseteq 1..Len(main)
    /\ Releases!At("find") \/ Releases!At("create") =>
         job.noted \subseteq 1..Len(main)
    /\ DOMAIN releaseNote \subseteq Releases!Versions
    /\ Releases!At("dual write") => job.version \in Releases!Versions

\* A version exists as a release or as a draft.
LEMMA VersionsListed ==
  ASSUME ReleaseTyped
  PROVE  /\ Releases!Versions = {published[i].version : i \in 1..Len(published)}
                       \cup {d.version : d \in drafts}
         /\ DOMAIN main = 1..Len(main) /\ Len(main) \in Nat
         /\ Len(published) \in Nat
<1>1. DOMAIN published = 1..Len(published)
  BY LenProperties DEF ReleaseTyped
<1>2. Releases!Range(published) = {published[i] : i \in 1..Len(published)}
  BY <1>1 DEF Releases!Range
<1>. QED  BY <1>1, <1>2, LenProperties DEF ReleaseTyped, Releases!Versions

\* Steps that publish nothing and draft nothing.
LEMMA NotesOfJob ==
  ASSUME Releases!ConstantsAssumption, ReleaseTyped, NotesInv, UNCHANGED <<main,
         published, drafts>>,
         failures' \in 0..ReleasesBounds.MaxFailures, DOMAIN releaseNote' \subseteq Releases!Versions,
         Releases!At("labels")' => job'.commits \subseteq 1..Len(main),
         Releases!At("find")' \/ Releases!At("create")' =>
              job'.noted \subseteq 1..Len(main),
         Releases!At("dual write")' => job'.version \in Releases!Versions
  PROVE  NotesInv'
<1>1. Releases!Versions' = Releases!Versions
  BY DEF Releases!Versions
<1>. QED  BY <1>1 DEF NotesInv, Releases!At

LEMMA NotesOfGrowth ==
  ASSUME Releases!ConstantsAssumption, ReleaseTyped, NotesInv, Releases!Merge
         \/ Releases!Label
  PROVE  NotesInv'
<1>1. UNCHANGED <<published, drafts, job, releaseNote, failures>>
     /\ Releases!Versions' = Releases!Versions
  BY DEF Releases!Merge, Releases!Label, Releases!Versions
<1>2. Len(main) \in Nat /\ main \in Seq(Releases!Levels)
     /\ DOMAIN main = 1..Len(main)
  BY VersionsListed DEF ReleaseTyped
<1>3. Len(main') \in Nat /\ Len(main') >= Len(main)
     /\ Len(main') <= ReleasesBounds.MaxCommits
  <2>1. CASE Releases!Merge
    BY <1>2, <2>1 DEF Releases!Merge, Releases!ConstantsAssumption
  <2>2. CASE Releases!Label
    <3>1. PICK i \in 1..Len(main), level \in Releases!Labels :
         main' = [main EXCEPT ![i] = level]
      BY <1>2, <2>2 DEF Releases!Label
    <3>2. level \in Releases!Levels
      BY DEF Releases!Levels
    <3>3. Len(main') = Len(main)
      BY <1>2, <3>1, <3>2, ExceptSeq, Zenon
    <3>4. Len(main) <= ReleasesBounds.MaxCommits
      BY DEF NotesInv
    <3>. QED  BY <1>2, <3>3, <3>4
  <2>. QED  BY <2>1, <2>2
<1>4. 1..Len(main) \subseteq 1..Len(main')
  BY <1>2, <1>3
<1>. QED  BY <1>1, <1>3, <1>4 DEF NotesInv, Releases!At

\* One release more.
LEMMA OneMore ==
  ASSUME NEW r \in Release, published \in Seq(Release),
         published' = Append(published, r)
  PROVE  /\ DOMAIN published' = 1..Len(published')
         /\ DOMAIN published = 1..Len(published)
         /\ \A i \in DOMAIN published : i \in DOMAIN published'
              /\ published'[i] = published[i]
         /\ Len(published) + 1 \in DOMAIN published'
         /\ published'[Len(published) + 1] = r
         /\ \A i \in DOMAIN published' : i \in DOMAIN published
              \/ i = Len(published) + 1
<1>1. /\ Len(published) \in Nat /\ DOMAIN published = 1..Len(published)
      /\ published' \in Seq(Release) /\ Len(published') = Len(published) + 1
      /\ \A i \in 1..Len(published) : published'[i] = published[i]
      /\ published'[Len(published) + 1] = r
  OBVIOUS
<1>2. DOMAIN published' = 1..Len(published')
  BY <1>1
<1>. QED  BY <1>1, <1>2

LEMMA NotesOfRelease ==
  ASSUME Releases!ConstantsAssumption, ReleaseTyped, NotesInv, NEW r \in Release,
         published' = Append(published, r), r.noted \subseteq 1..Len(main),
         drafts' \subseteq drafts, \A d \in drafts \ drafts' : d.version = r.version,
         UNCHANGED <<main, releaseNote, failures>>,
         job' = job \/ job' = [step |-> "dual write", version |-> r.version]
  PROVE  NotesInv'
<1>1. /\ DOMAIN published' = 1..Len(published')
      /\ DOMAIN published = 1..Len(published)
      /\ \A i \in DOMAIN published : i \in DOMAIN published'
           /\ published'[i] = published[i]
      /\ Len(published) + 1 \in DOMAIN published'
      /\ published'[Len(published) + 1] = r
      /\ \A i \in DOMAIN published' : i \in DOMAIN published
           \/ i = Len(published) + 1
  <2>1. published \in Seq(Release)
    BY DEF ReleaseTyped
  <2>2. published' = Append(published, r)
    OBVIOUS
  <2>. QED  BY <2>1, <2>2, OneMore
<1>2. \A v \in Releases!Versions : v \in Releases!Versions'
  <2>. SUFFICES ASSUME NEW v \in Releases!Versions PROVE v \in Releases!Versions'
    OBVIOUS
  <2>1. \A i \in 1..Len(published') : published'[i].version \in Releases!Versions'
    BY <1>1 DEF Releases!Versions, Releases!Range
  <2>2. r.version \in Releases!Versions' /\ \A i \in 1..Len(published) :
       published[i].version \in Releases!Versions'
    <3>1. published'[Len(published) + 1].version \in Releases!Versions'
      BY <1>1, <2>1
    <3>2. \A i \in 1..Len(published) : published'[i].version \in Releases!Versions'
      BY <1>1, <2>1
    <3>. QED  BY <1>1, <3>1, <3>2
  <2>3. \A d \in drafts' : d.version \in Releases!Versions'
    BY DEF Releases!Versions
  <2>4. \A d \in drafts \ drafts' : d.version \in Releases!Versions'
    BY <2>2
  <2>5. \/ \E i \in 1..Len(published) : v = published[i].version
        \/ \E d \in drafts : v = d.version
    BY VersionsListed
  <2>. QED  BY <2>2, <2>3, <2>4, <2>5
<1>3. r.version \in Releases!Versions'
  BY <1>1 DEF Releases!Versions, Releases!Range
<1>4. \A i \in 1..Len(published') : published'[i].noted \subseteq 1..Len(main)
  <2>1. \A i \in 1..Len(published) : published[i].noted \subseteq 1..Len(main)
    BY DEF NotesInv
  <2>. SUFFICES ASSUME NEW i \in 1..Len(published')
                PROVE  published'[i].noted \subseteq 1..Len(main)
    OBVIOUS
  <2>2. CASE i \in 1..Len(published)
    BY <1>1, <2>1, <2>2
  <2>3. CASE i = Len(published) + 1
    BY <1>1, <2>3
  <2>. QED  BY <1>1, <2>2, <2>3
<1>5. CASE job' = job
  BY <1>2, <1>4, <1>5 DEF NotesInv, Releases!At
<1>6. CASE job' = [step |-> "dual write", version |-> r.version]
  <2>1. job'.step = "dual write" /\ job'.version = r.version
    BY <1>6
  <2>. QED  BY <1>2, <1>3, <1>4, <2>1 DEF NotesInv, Releases!At
<1>. QED  BY <1>5, <1>6

LEMMA NotesOfPublication ==
  ASSUME Releases!ConstantsAssumption, ReleaseInv, NotesInv, Releases!Publish
         \/ Releases!CreateRelease, ReleaseTyped'
  PROVE  NotesInv'
<1>. ReleaseTyped
  BY DEF ReleaseInv
<1>1. CASE Releases!Publish
  <2>1. PICK draft \in drafts :
          /\ drafts' = drafts \ {draft}
          /\ published' = Append(published,
               [version |-> draft.version, at |-> Len(main), noted |-> draft.noted,
                automatic |-> FALSE, checked |-> 0])
          /\ UNCHANGED <<main, job, releaseNote, failures>>
    BY <1>1 DEF Releases!Publish
  <2>2. draft \in Draft /\ draft.noted \subseteq 1..Len(main)
    BY DEF ReleaseTyped, NotesInv
  <2>3. PICK r \in Release : r = [version |-> draft.version, at |-> Len(main),
                                 noted |-> draft.noted, automatic |-> FALSE, checked |-> 0]
    BY <2>2, VersionsListed DEF Draft, Release
  <2>4. r.noted = draft.noted /\ r.version = draft.version
       /\ published' = Append(published, r)
    BY <2>1, <2>3
  <2>. QED  BY <2>1, <2>2, <2>4, NotesOfRelease
<1>2. CASE Releases!CreateRelease
  <2>1. /\ Releases!At("create") /\ job \in Writing
        /\ UNCHANGED <<main, drafts, releaseNote, failures>>
        /\ job.noted \subseteq 1..Len(main)
    BY <1>2, JobShape DEF Releases!CreateRelease, NotesInv
  <2>2. CASE job' = Releases!Idle /\ UNCHANGED published
    BY <2>1, <2>2, NotesOfJob DEF Releases!Idle, Releases!At, NotesInv
  <2>3. CASE /\ published' = Append(published,
                  [version |-> job.version, at |-> Len(main), noted |-> job.noted,
                   automatic |-> TRUE, checked |-> Releases!Max({0} \cup job.commits)])
             /\ job' = [step |-> "dual write", version |-> job.version]
    <3>. DEFINE r == [version |-> job.version, at |-> Len(main), noted |-> job.noted,
                      automatic |-> TRUE, checked |-> Releases!Max({0} \cup job.commits)]
    <3>1. r \in Release
      <4>1. /\ Len(published') = Len(published) + 1 /\ Len(published) \in Nat
            /\ published'[Len(published) + 1] = r
        <5>1. published \in Seq(Release) /\ Len(published) \in Nat
          BY VersionsListed DEF ReleaseTyped
        <5>2. published' \in Seq(Release)
          BY DEF ReleaseTyped
        <5>. HIDE DEF r
        <5>3. published' = Append(published, r)
          BY <2>3 DEF r
        <5>. QED  BY <5>1, <5>2, <5>3
      <4>2. published' \in Seq(Release) /\ Len(published) + 1 \in 1..Len(published')
        BY <4>1 DEF ReleaseTyped
      <4>. HIDE DEF r
      <4>. QED  BY <4>1, <4>2
    <3>2. r.noted = job.noted /\ r.version = job.version
      OBVIOUS
    <3>. HIDE DEF r
    <3>3. published' = Append(published, r)
      BY <2>3 DEF r
    <3>. QED  BY <2>1, <2>3, <3>1, <3>2, <3>3, NotesOfRelease
  <2>. QED  BY <1>2, <2>2, <2>3 DEF Releases!CreateRelease
<1>. QED  BY <1>1, <1>2

LEMMA NotesOfDraft ==
  ASSUME Releases!ConstantsAssumption, ReleaseInv, NotesInv, Releases!UpdateDraft
         \/ Releases!CreateDraft
  PROVE  NotesInv'
<1>0. /\ ReleaseTyped /\ Releases!At("create") /\ job \in Writing
      /\ job' = Releases!Idle
      /\ job.noted \subseteq 1..Len(main)
      /\ UNCHANGED <<main, releaseNote, failures>>
  BY JobShape DEF ReleaseInv, Releases!UpdateDraft, Releases!CreateDraft, NotesInv
<1>1. ASSUME \A v \in Releases!Versions : v \in Releases!Versions',
             \A i \in 1..Len(published') :
                  published'[i].noted \subseteq 1..Len(main),
             \A d \in drafts' : d.noted \subseteq 1..Len(main)
      PROVE  NotesInv'
  BY <1>0, <1>1 DEF Releases!Idle, NotesInv, Releases!At
<1>2. CASE Releases!CreateDraft
  <2>1. published' = published /\ drafts \subseteq drafts'
    BY <1>2 DEF Releases!CreateDraft
  <2>2. \A d \in drafts' : d.noted \subseteq 1..Len(main)
    <3>1. \A d \in drafts : d.noted \subseteq 1..Len(main)
      BY DEF NotesInv
    <3>2. \A d \in drafts' : d \in drafts
         \/ d = [version |-> job.version, noted |-> job.noted]
      BY <1>2 DEF Releases!CreateDraft
    <3>. QED  BY <1>0, <3>1, <3>2
  <2>3. \A v \in Releases!Versions : v \in Releases!Versions'
    BY <2>1 DEF Releases!Versions
  <2>. QED  BY <1>1, <2>1, <2>2, <2>3 DEF NotesInv
<1>3. CASE Releases!UpdateDraft
  <2>. DEFINE Noted(r) == IF r.version = job.version THEN [r EXCEPT !.noted = job.noted]
                          ELSE r
  <2>1. /\ drafts' = {Noted(draft) : draft \in drafts}
        /\ published' = [i \in DOMAIN published |-> Noted(published[i])]
    BY <1>3 DEF Releases!UpdateDraft
  <2>2. \A r \in Release : /\ Noted(r).version = r.version
                           /\ Noted(r).noted \in {r.noted, job.noted}
    BY DEF Release
  <2>3. \A d \in Draft : /\ Noted(d).version = d.version
                         /\ Noted(d).noted \in {d.noted, job.noted}
    BY DEF Draft
  <2>. HIDE DEF Noted
  <2>4. /\ DOMAIN published = 1..Len(published)
        /\ DOMAIN published' = 1..Len(published)
        /\ \A i \in 1..Len(published) : published[i] \in Release
        /\ \A i \in 1..Len(published) : published'[i] = Noted(published[i])
        /\ \A d \in drafts : d \in Draft
    BY <1>0, <2>1, VersionsListed, ElementOfSeq, LenProperties DEF ReleaseTyped
  <2>5. ReleaseTyped'
    BY <1>3, UpdateStep DEF ReleaseInv
  <2>6. Len(published') = Len(published)
    BY <1>0, <2>4, <2>5, LenProperties DEF ReleaseTyped
  <2>7. \A i \in 1..Len(published') : published'[i].noted \subseteq 1..Len(main)
    <3>1. \A i \in 1..Len(published) : published[i].noted \subseteq 1..Len(main)
      BY DEF NotesInv
    <3>. SUFFICES ASSUME NEW i \in 1..Len(published)
                  PROVE  published'[i].noted \subseteq 1..Len(main)
      BY <2>6
    <3>2. published'[i].noted \in {published[i].noted, job.noted}
      BY <2>2, <2>4
    <3>. QED  BY <1>0, <3>1, <3>2
  <2>8. \A d \in drafts' : d.noted \subseteq 1..Len(main)
    <3>1. \A d \in drafts : d.noted \subseteq 1..Len(main)
      BY DEF NotesInv
    <3>. SUFFICES ASSUME NEW d \in drafts PROVE Noted(d).noted \subseteq 1..Len(main)
      BY <2>1
    <3>2. Noted(d).noted \in {d.noted, job.noted}
      BY <2>3, <2>4
    <3>. QED  BY <1>0, <3>1, <3>2
  <2>9. \A v \in Releases!Versions : v \in Releases!Versions'
    <3>1. \A i \in 1..Len(published) : published[i].version \in Releases!Versions'
      <4>. SUFFICES ASSUME NEW i \in 1..Len(published) PROVE published[i].version \in Releases!Versions'
        OBVIOUS
      <4>1. published'[i].version = published[i].version /\ i \in DOMAIN published'
        BY <2>2, <2>4
      <4>. QED  BY <4>1 DEF Releases!Versions, Releases!Range
    <3>2. \A d \in drafts : d.version \in Releases!Versions'
      <4>. SUFFICES ASSUME NEW d \in drafts PROVE d.version \in Releases!Versions'
        OBVIOUS
      <4>1. Noted(d) \in drafts' /\ Noted(d).version = d.version
        BY <2>1, <2>3, <2>4
      <4>. QED  BY <4>1 DEF Releases!Versions
    <3>. QED  BY <1>0, <3>1, <3>2, VersionsListed
  <2>. QED  BY <1>1, <2>7, <2>8, <2>9
<1>. QED  BY <1>2, <1>3

\* The sizes of sets, as AutoRelease has them.
LEMMA UnreadSizes ==
  ASSUME NEW S
  PROVE  Releases!Cardinality(S) = Cardinality(S)
BY DEF Releases!Cardinality, Cardinality, Releases!IsFiniteSet, IsFiniteSet

\* The job reads, or ends.
LEMMA NotesOfReading ==
  ASSUME Releases!ConstantsAssumption, ReleaseInv, NotesInv,
         Releases!Start \/ Releases!Compare \/ Releases!Decide
              \/ Releases!GenerateReleaseSummary \/ Releases!FindDraft
              \/ Releases!Fail
  PROVE  NotesInv'
<1>0. /\ ReleaseTyped /\ UNCHANGED <<main, published, drafts, releaseNote>>
      /\ failures \in 0..ReleasesBounds.MaxFailures
      /\ ReleasesBounds.MaxFailures \in Nat
      /\ DOMAIN releaseNote' \subseteq Releases!Versions
  BY DEF Releases!Start, Releases!Compare, Releases!Decide,
       Releases!GenerateReleaseSummary, Releases!FindDraft, Releases!Fail,
       ReleaseInv, NotesInv, Releases!ConstantsAssumption
<1>1. \A v : Releases!CommitsSince(v) \subseteq 1..Len(main)
  BY <1>0, VersionsListed DEF Releases!CommitsSince
<1>2. CASE Releases!Start \/ Releases!Fail
  <2>1. job' = [step |-> "compare", last |-> Releases!LatestReleaseTag]
       \/ job' = Releases!Idle
    BY <1>2 DEF Releases!Start, Releases!Fail
  <2>2. ~Releases!At("labels")' /\ ~Releases!At("find")'
       /\ ~Releases!At("create")' /\ ~Releases!At("dual write")'
    <3>1. job'.step \in {"compare", "idle"}
      BY <2>1 DEF Releases!Idle
    <3>. QED  BY <3>1 DEF Releases!At
  <2>3. failures' \in 0..ReleasesBounds.MaxFailures
    BY <1>0, <1>2 DEF Releases!Start, Releases!Fail
  <2>. QED  BY <1>0, <2>2, <2>3, NotesOfJob
<1>3. CASE Releases!Compare
  <2>1. \/ job' = Releases!Idle
        \/ job' = [step |-> "labels", last |-> job.last, commits |-> Releases!CommitsSince(job.last)]
    BY <1>3 DEF Releases!Compare
  <2>2. /\ ~Releases!At("find")' /\ ~Releases!At("create")'
        /\ ~Releases!At("dual write")'
        /\ Releases!At("labels")' => job'.commits \subseteq 1..Len(main)
    <3>1. CASE job' = Releases!Idle
      BY <3>1 DEF Releases!At, Releases!Idle
    <3>2. CASE job' = [step |-> "labels", last |-> job.last, commits |-> Releases!CommitsSince(job.last)]
      <4>1. job'.step = "labels" /\ job'.commits = Releases!CommitsSince(job.last)
        BY <3>2
      <4>. QED  BY <1>1, <4>1 DEF Releases!At
    <3>. QED  BY <2>1, <3>1, <3>2
  <2>3. failures' = failures
    BY <1>3 DEF Releases!Compare
  <2>. QED  BY <1>0, <2>2, <2>3, NotesOfJob
<1>4. CASE Releases!Decide
  <2>1. PICK unread \in SUBSET job.commits :
          /\ failures + Releases!Cardinality(unread) <= ReleasesBounds.MaxFailures
          /\ failures' = failures + Releases!Cardinality(unread)
    BY <1>4 DEF Releases!Decide
  <2>2. Releases!Cardinality(unread) \in Nat
    <3>1. unread \subseteq 1..Len(main) /\ Len(main) \in Nat
      BY <1>0, <1>4, VersionsListed DEF Releases!Decide, NotesInv
    <3>2. IsFiniteSet(1..Len(main))
      BY <3>1, FS_Interval
    <3>3. Cardinality(unread) \in Nat
      BY <3>1, <3>2, FS_Subset, FS_CardinalityType
    <3>. QED  BY <3>3, UnreadSizes
  <2>3. failures' \in 0..ReleasesBounds.MaxFailures
    BY <1>0, <2>1, <2>2
  <2>4. job'.step \in {"idle", "summary"}
    BY <1>4 DEF Releases!Decide, Releases!Idle
  <2>. QED  BY <1>0, <2>3, <2>4, NotesOfJob DEF Releases!At
<1>5. CASE Releases!GenerateReleaseSummary
  <2>1. /\ job'.step \in {"find", "create"}
        /\ job'.noted = Releases!CommitsSince(Releases!LatestReleaseTag)
        /\ failures' = failures
    BY <1>5 DEF Releases!GenerateReleaseSummary
  <2>. QED  BY <1>0, <1>1, <2>1, NotesOfJob DEF Releases!At
<1>6. CASE Releases!FindDraft
  <2>1. job \in Writing /\ failures' = failures /\ job.noted \subseteq 1..Len(main)
    BY <1>0, <1>6, JobShape DEF Releases!FindDraft, NotesInv
  <2>2. job' = [job EXCEPT !.step = "create",
                           !.found = \E draft \in drafts :
                                draft.version = job.version]
    BY <1>6 DEF Releases!FindDraft
  <2>3. job'.step = "create" /\ job'.noted = job.noted
    BY <2>1, <2>2 DEF Writing
  <2>. QED  BY <1>0, <2>1, <2>3, NotesOfJob DEF Releases!At
<1>. QED  BY <1>2, <1>3, <1>4, <1>5, <1>6

\* The table of release notes.
LEMMA NotesOfTable ==
  ASSUME Releases!ConstantsAssumption, ReleaseInv, NotesInv, Releases!Backfill
         \/ Releases!DualWrite
  PROVE  NotesInv'
<1>0. /\ ReleaseTyped /\ UNCHANGED <<main, published, drafts, failures>>
      /\ failures \in 0..ReleasesBounds.MaxFailures
  BY DEF Releases!Backfill, Releases!DualWrite, ReleaseInv, NotesInv
<1>1. CASE Releases!Backfill
  <2>1. DOMAIN releaseNote' \subseteq DOMAIN releaseNote \cup Releases!Versions
       /\ job' = job
    BY <1>1 DEF Releases!Backfill
  <2>. QED  BY <1>0, <2>1, NotesOfJob DEF NotesInv, Releases!At
<1>2. CASE Releases!DualWrite
  <2>1. /\ DOMAIN releaseNote' \subseteq DOMAIN releaseNote \cup {job.version}
        /\ job' = Releases!Idle /\ Releases!At("dual write")
    BY <1>2 DEF Releases!DualWrite
  <2>2. ~Releases!At("labels")' /\ ~Releases!At("find")'
       /\ ~Releases!At("create")' /\ ~Releases!At("dual write")'
    BY <2>1 DEF Releases!At, Releases!Idle
  <2>. QED  BY <1>0, <2>1, <2>2, NotesOfJob DEF NotesInv
<1>. QED  BY <1>1, <1>2

LEMMA NotesStart ==
  ASSUME Releases!ConstantsAssumption, Releases!Init
  PROVE  NotesInv
<1>1. /\ Len(main) = 0 /\ Len(published) = 1 /\ published[1] = Releases!First
      /\ Releases!First.noted = {} /\ drafts = {} /\ job.step = "idle"
      /\ failures \in 0..ReleasesBounds.MaxFailures
      /\ ReleasesBounds.MaxCommits \in Nat
  BY DEF Releases!Init, Releases!First, Releases!Idle, Releases!ConstantsAssumption
<1>2. DOMAIN releaseNote \subseteq {Releases!First.version}
  BY DEF Releases!Init
<1>3. Releases!First.version \in Releases!Versions
  BY ReleaseInit, VersionsListed, <1>1 DEF ReleaseInv
<1>. QED  BY <1>1, <1>2, <1>3 DEF NotesInv, Releases!At

LEMMA NotesFollow ==
  ASSUME ReleaseTyped, InOrder, NotesInv
  PROVE  Releases!TypeOK
<1>1. job.step \in {"idle", "compare", "labels", "summary", "find", "create", "dual write"}
  <2>1. CASE job \in {Releases!Idle} \cup Comparing \cup Deciding
    <3>1. Releases!Idle.step = "idle"
      BY DEF Releases!Idle
    <3>. QED  BY <2>1, <3>1 DEF Comparing, Deciding
  <2>2. CASE job \in Summarizing \cup Writing \cup DualWriting
    BY <2>2 DEF Summarizing, Writing, DualWriting
  <2>. QED  BY <2>1, <2>2 DEF ReleaseTyped, ReleaseJob
<1>2. DOMAIN main = 1..Len(main) /\ DOMAIN published = 1..Len(published)
  BY LenProperties DEF ReleaseTyped
<1>3. \A r \in Releases!Range(published) : r.at <= Len(main)
     /\ r.noted \subseteq DOMAIN main
  BY <1>2 DEF Releases!Range, InOrder, NotesInv
<1>. QED  BY <1>1, <1>2, <1>3 DEF ReleaseTyped, NotesInv, Releases!TypeOK

LEMMA NotesNext ==
  ASSUME Releases!ConstantsAssumption, ReleaseInv, NotesInv,
         [Releases!Next]_(Releases!vars)
  PROVE  NotesInv'
<1>1. ReleaseTyped /\ ReleaseTyped'
  BY ReleaseNext DEF ReleaseInv
<1>2. CASE UNCHANGED Releases!vars
  BY <1>2 DEF Releases!vars, NotesInv, Releases!At, Releases!Versions
<1>. QED
  BY <1>1, <1>2, NotesOfGrowth, NotesOfPublication, NotesOfDraft, NotesOfReading,
       NotesOfTable DEF Releases!Next

\* Whatever is released by whom and in what order, what a release or a draft notes
\* are commits of main, and the table of release notes knows no version that does
\* not exist (auto-release.ts, releaseNote).
LEMMA ReleaseTypes ==
  ASSUME Releases!ConstantsAssumption
  PROVE  Releases!Spec => []Releases!TypeOK
<1>1. Releases!Init => ReleaseInv /\ NotesInv
  BY ReleaseInit, NotesStart
<1>2. ReleaseInv /\ NotesInv /\ [Releases!Next]_(Releases!vars) => (ReleaseInv
     /\ NotesInv)'
  BY ReleaseNext, NotesNext
<1>3. ReleaseInv /\ NotesInv => Releases!TypeOK
  BY NotesFollow DEF ReleaseInv
<1>. QED  BY <1>1, <1>2, <1>3, PTL DEF Releases!Spec

-----------------------------------------------------------------------------
(* The session of the front.  Its first invariant is about the join screen: *)
(* one submission, the polls of its request, and one ceremony the screen   *)
(* knows.  The second is about the preferences: what they hold while saves *)
(* and clears are under way.  The third bounds the timers by the slots.    *)

JoinPhases == {"form", "waiting", "rejected", "registering", "registrationFailed"}
JoinRegistration == {"registering", "registrationFailed"}

\* Types, and that whoever registers was approved.
JoinTyped ==
    /\ decided \in [Sessions!Joins -> {"unsent", "pending", "approved", "rejected"}]
    /\ granted \in Nat /\ valid \subseteq 1..granted
    /\ join \in [phase : JoinPhases, requestId : Sessions!Joins \cup {Sessions!None},
                 inviteToken : Sessions!Joins \cup {Sessions!None}, timers : Nat]
    /\ submits \in [SessionsBounds.Slots -> Sessions!Joins \cup {Sessions!None}]
    /\ polls \in [SessionsBounds.Slots -> Sessions!Joins \cup {Sessions!None}]
    /\ ceremonies \in [SessionsBounds.Slots -> [invite :
         Sessions!Joins \cup {Sessions!None}, mounted : BOOLEAN]]
    /\ \A s \in SessionsBounds.Slots : ceremonies[s].invite # Sessions!None =>
          decided[ceremonies[s].invite] = "approved"
    /\ \A s \in SessionsBounds.Slots : ceremonies[s].mounted =>
         join.inviteToken # Sessions!None
    /\ join.phase \in JoinRegistration => join.inviteToken # Sessions!None
    /\ join.phase = "waiting" => join.requestId # Sessions!None
    /\ join.inviteToken # Sessions!None => decided[join.inviteToken] = "approved"
    /\ hasty \in BOOLEAN

\* The join screen while no form was submitted again before its answer: one
\* submission, polls for its request alone, and one ceremony that the screen
\* knows; those that lost their screen register other invites.
JoinInv ==
    /\ \A s, t \in SessionsBounds.Slots : submits[s] # Sessions!None
         /\ submits[t] # Sessions!None => s = t
    /\ \A s \in SessionsBounds.Slots : submits[s] # Sessions!None =>
          join.phase = "form" /\ \A t \in SessionsBounds.Slots :
               ceremonies[t].invite # submits[s]
    /\ join.phase = "form" => join.timers = 0 /\ \A s \in SessionsBounds.Slots :
         polls[s] = Sessions!None
    /\ \A s \in SessionsBounds.Slots : polls[s] # Sessions!None =>
         polls[s] = join.requestId
    /\ join.phase = "waiting" => \A t \in SessionsBounds.Slots :
         ceremonies[t].invite # join.requestId
    /\ \A t \in SessionsBounds.Slots : ceremonies[t].mounted =>
          join.phase = "registering" /\ ceremonies[t].invite = join.inviteToken
    /\ join.phase = "registrationFailed" =>
          \A t \in SessionsBounds.Slots : ceremonies[t].invite # join.inviteToken
    /\ \A s, t \in SessionsBounds.Slots : ceremonies[s].invite = ceremonies[t].invite
          => s = t \/ ceremonies[s].invite = Sessions!None

JoinSafe == JoinTyped /\ (~hasty => JoinInv)

(* One ceremony per invite. *)

\* What the screens share changes only when it is left, asked or answered.
joinState == <<decided, join, submits, polls, ceremonies, hasty>>

LEMMA NoneOutside == Sessions!None \notin Sessions!Joins
     /\ \A j \in Sessions!Joins : j # Sessions!None
BY DEF Sessions!None, Sessions!Joins

LEMMA SessionsGrow ==
  ASSUME JoinTyped, Sessions!SaveGranted
  PROVE  granted' \in Nat /\ valid' \subseteq 1..granted'
<1>1. granted' = granted + 1 /\ valid' = valid \cup {granted + 1} /\ granted \in Nat
  BY DEF Sessions!SaveGranted, JoinTyped
<1>2. 1..granted \subseteq 1..(granted + 1) /\ granted + 1 \in 1..(granted + 1)
  BY <1>1
<1>. QED  BY <1>1, <1>2 DEF JoinTyped

LEMMA JoinRests ==
  ASSUME JoinSafe, UNCHANGED joinState, granted' \in Nat,
         valid' \subseteq 1..granted'
  PROVE  JoinSafe'
BY DEF JoinSafe, joinState, JoinTyped, JoinInv

LEMMA ScreenLeft ==
  ASSUME JoinSafe, Sessions!LeaveJoin, UNCHANGED <<decided, hasty, granted, valid>>
  PROVE  JoinSafe'
<1>1. /\ join' = Sessions!Form /\ Sessions!Form \in [phase : JoinPhases, requestId :
           Sessions!Joins \cup {Sessions!None},
                                   inviteToken :
                                        Sessions!Joins \cup {Sessions!None}, timers : Nat]
      /\ Sessions!Form.phase = "form"
      /\ Sessions!Form.inviteToken = Sessions!None /\ Sessions!Form.timers = 0
  BY DEF Sessions!LeaveJoin, Sessions!Form, JoinPhases
<1>2. /\ submits' = [s \in SessionsBounds.Slots |-> Sessions!None]
      /\ polls' = [s \in SessionsBounds.Slots |-> Sessions!None]
      /\ ceremonies' \in [SessionsBounds.Slots -> [invite :
           Sessions!Joins \cup {Sessions!None}, mounted : BOOLEAN]]
      /\ \A s \in SessionsBounds.Slots :
             ceremonies'[s].invite = ceremonies[s].invite /\ ~ceremonies'[s].mounted
  <2>1. ceremonies \in [SessionsBounds.Slots -> [invite :
       Sessions!Joins \cup {Sessions!None}, mounted : BOOLEAN]]
    BY DEF JoinSafe, JoinTyped
  <2>2. ceremonies' = [s \in SessionsBounds.Slots |-> [ceremonies[s] EXCEPT !.mounted = FALSE]]
    BY DEF Sessions!LeaveJoin
  <2>3. \A s \in SessionsBounds.Slots :
            ceremonies'[s].invite = ceremonies[s].invite /\ ~ceremonies'[s].mounted
    BY <2>1, <2>2
  <2>. QED  BY <2>1, <2>2, <2>3 DEF Sessions!LeaveJoin
<1>3. JoinTyped'
  BY <1>1, <1>2 DEF JoinSafe, JoinTyped, JoinRegistration
<1>4. ~hasty' => JoinInv'
  BY <1>1, <1>2 DEF JoinSafe, JoinInv
<1>. QED  BY <1>3, <1>4 DEF JoinSafe

LEMMA AppRestarted ==
  ASSUME JoinSafe, Sessions!Restart
  PROVE  JoinSafe'
<1>1. /\ join' = Sessions!Form /\ Sessions!Form \in [phase : JoinPhases, requestId :
           Sessions!Joins \cup {Sessions!None},
                                   inviteToken :
                                        Sessions!Joins \cup {Sessions!None}, timers : Nat]
      /\ Sessions!Form.phase = "form"
      /\ Sessions!Form.inviteToken = Sessions!None /\ Sessions!Form.timers = 0
  BY DEF Sessions!Restart, Sessions!Form, JoinPhases
<1>2. /\ submits' = [s \in SessionsBounds.Slots |-> Sessions!None]
      /\ polls' = [s \in SessionsBounds.Slots |-> Sessions!None]
      /\ ceremonies' \in [SessionsBounds.Slots -> [invite :
           Sessions!Joins \cup {Sessions!None}, mounted : BOOLEAN]]
      /\ \A s \in SessionsBounds.Slots : ceremonies'[s].invite = Sessions!None
           /\ ~ceremonies'[s].mounted
      /\ UNCHANGED <<decided, hasty, granted, valid>>
  BY DEF Sessions!Restart, Sessions!NoCeremony, Sessions!api
<1>3. JoinTyped'
  BY <1>1, <1>2 DEF JoinSafe, JoinTyped, JoinRegistration
<1>4. JoinInv'
  BY <1>1, <1>2 DEF JoinInv
<1>. QED  BY <1>3, <1>4 DEF JoinSafe

LEMMA FormSubmitted ==
  ASSUME JoinSafe, NEW s \in SessionsBounds.Slots, NEW j \in Sessions!Joins,
         Sessions!Submit(s, j)
  PROVE  JoinSafe'
<1>1. /\ join.phase = "form" /\ decided[j] = "unsent"
      /\ decided' = [decided EXCEPT ![j] = "pending"]
      /\ submits' = [submits EXCEPT ![s] = j]
      /\ UNCHANGED <<join, polls, ceremonies, granted, valid>>
      /\ hasty' = (hasty \/ \E t \in SessionsBounds.Slots :
           submits[t] # Sessions!None)
  BY DEF Sessions!Submit
<1>2. /\ \A t \in SessionsBounds.Slots : ceremonies[t].invite # j
      /\ \A i \in Sessions!Joins : decided[i] = "approved" =>
           decided'[i] = "approved"
      /\ join.inviteToken # j
  BY <1>1, NoneOutside DEF JoinSafe, JoinTyped
<1>3. JoinTyped'
  BY <1>1, <1>2 DEF JoinSafe, JoinTyped
<1>4. ~hasty' => JoinInv'
  BY <1>1, <1>2 DEF JoinSafe, JoinInv, JoinTyped
<1>. QED  BY <1>3, <1>4 DEF JoinSafe

LEMMA SubmissionAnswered ==
  ASSUME JoinSafe, NEW s \in SessionsBounds.Slots, Sessions!SubmitAnswered(s)
  PROVE  JoinSafe'
<1>1. /\ submits[s] \in Sessions!Joins /\ submits[s] # Sessions!None
      /\ submits' = [submits EXCEPT ![s] = Sessions!None]
      /\ UNCHANGED <<decided, polls, ceremonies, hasty, granted, valid>>
  BY DEF Sessions!SubmitAnswered, JoinSafe, JoinTyped, Sessions!api
<1>2. \/ join' = join
      \/ /\ join' \in [phase : JoinPhases, requestId :
              Sessions!Joins \cup {Sessions!None},
                       inviteToken : Sessions!Joins \cup {Sessions!None}, timers :
                            Nat]
         /\ join'.phase = "waiting" /\ join'.requestId = submits[s]
         /\ join'.inviteToken = join.inviteToken
  <2>1. join.timers + 1 \in Nat /\ "waiting" \in JoinPhases
    BY DEF JoinSafe, JoinTyped, JoinPhases
  <2>2. \/ join' = join
        \/ join' = [join EXCEPT !.phase = "waiting", !.requestId = submits[s],
                                !.timers = join.timers + 1]
    BY DEF Sessions!SubmitAnswered
  <2>. QED  BY <1>1, <2>1, <2>2 DEF JoinSafe, JoinTyped
<1>3. JoinTyped'
  BY <1>1, <1>2 DEF JoinSafe, JoinTyped, JoinRegistration
<1>4. ASSUME ~hasty
      PROVE  /\ join.phase = "form" /\ join.timers = 0
             /\ \A t \in SessionsBounds.Slots : /\ polls[t] = Sessions!None
                                                /\ ~ceremonies[t].mounted
                                /\ ceremonies[t].invite # submits[s]
             /\ \A t \in SessionsBounds.Slots : submits'[t] = Sessions!None
  <2>1. \A t \in SessionsBounds.Slots : submits'[t] = Sessions!None
    BY <1>1, <1>4 DEF JoinSafe, JoinInv, JoinTyped
  <2>. QED  BY <1>1, <1>4, <2>1 DEF JoinSafe, JoinInv
<1>5. ~hasty' => JoinInv'
  <2>1. CASE join' = join
    BY <1>1, <1>4, <2>1 DEF JoinSafe, JoinInv
  <2>2. CASE join' # join
    BY <1>1, <1>2, <1>4, <2>2 DEF JoinSafe, JoinInv
  <2>. QED  BY <2>1, <2>2
<1>. QED  BY <1>3, <1>5 DEF JoinSafe

LEMMA RequestDecided ==
  ASSUME JoinSafe, NEW j \in Sessions!Joins, NEW d \in {"approved", "rejected"},
         Sessions!Decide(j, d)
  PROVE  JoinSafe'
<1>1. /\ decided[j] = "pending" /\ decided' = [decided EXCEPT ![j] = d]
      /\ UNCHANGED <<join, submits, polls, ceremonies, hasty, granted, valid>>
  BY DEF Sessions!Decide, Sessions!joining
<1>2. JoinTyped'
  BY <1>1, NoneOutside DEF JoinSafe, JoinTyped
<1>. QED  BY <1>1, <1>2 DEF JoinSafe, JoinInv

\* A ceremony begins for invite j, which the screen knows from now on.
LEMMA CeremonyBegins ==
  ASSUME JoinSafe, NEW j \in Sessions!Joins, decided[j] = "approved",
         Sessions!BeginCeremony(j),
         UNCHANGED <<decided, submits, hasty, granted, valid>>,
         polls' \in [SessionsBounds.Slots -> Sessions!Joins \cup {Sessions!None}],
         \A s \in SessionsBounds.Slots : polls'[s] # Sessions!None =>
              polls[s] # Sessions!None /\ polls'[s] = polls[s],
         join' \in [phase : JoinPhases, requestId :
              Sessions!Joins \cup {Sessions!None},
                    inviteToken : Sessions!Joins \cup {Sessions!None}, timers : Nat],
         join'.phase = "registering", join'.inviteToken = j,
         join'.requestId = join.requestId, join.phase # "registering",
         join.phase # "form",
         ~hasty => \A t \in SessionsBounds.Slots : ceremonies[t].invite # j
  PROVE  JoinSafe'
<1>. PICK c \in SessionsBounds.Slots :
        ceremonies' = [ceremonies EXCEPT ![c] = [invite |-> j, mounted |-> TRUE]]
  BY DEF Sessions!BeginCeremony, Sessions!Free
<1>1. /\ ceremonies' \in [SessionsBounds.Slots -> [invite :
           Sessions!Joins \cup {Sessions!None}, mounted : BOOLEAN]]
      /\ ceremonies'[c].invite = j /\ ceremonies'[c].mounted
      /\ \A t \in SessionsBounds.Slots \ {c} : ceremonies'[t] = ceremonies[t]
  BY DEF JoinSafe, JoinTyped
<1>2. JoinTyped'
  BY <1>1, NoneOutside DEF JoinSafe, JoinTyped
<1>3. ~hasty' => JoinInv'
  BY <1>1 DEF JoinSafe, JoinInv
<1>. QED  BY <1>2, <1>3 DEF JoinSafe

LEMMA RequestPolled ==
  ASSUME JoinSafe, NEW s \in SessionsBounds.Slots, Sessions!Poll(s)
         \/ Sessions!PollInVain(s) \/ Sessions!PollDecided(s)
  PROVE  JoinSafe'
<1>1. CASE Sessions!Poll(s)
  <2>1. /\ join.timers > 0 /\ polls' = [polls EXCEPT ![s] = join.requestId]
        /\ UNCHANGED <<decided, join, submits, ceremonies, hasty, granted, valid>>
    BY <1>1 DEF Sessions!Poll, Sessions!api
  <2>2. JoinTyped'
    BY <2>1 DEF JoinSafe, JoinTyped
  <2>. QED  BY <2>1, <2>2 DEF JoinSafe, JoinInv, JoinTyped
<1>2. CASE \/ Sessions!PollInVain(s)
           \/ Sessions!PollDecided(s) /\ UNCHANGED <<join, ceremonies>>
  <2>1. /\ polls' = [polls EXCEPT ![s] = Sessions!None]
        /\ UNCHANGED <<decided, join, submits, ceremonies, hasty, granted, valid>>
    BY <1>2 DEF Sessions!PollInVain, Sessions!PollDecided, Sessions!api
  <2>2. JoinTyped'
    BY <2>1 DEF JoinSafe, JoinTyped
  <2>. QED  BY <2>1, <2>2 DEF JoinSafe, JoinInv, JoinTyped
<1>3. CASE Sessions!PollDecided(s) /\ ~UNCHANGED <<join, ceremonies>>
  <2>1. /\ polls[s] \in Sessions!Joins /\ polls[s] # Sessions!None
        /\ join.phase = "waiting"
        /\ polls' = [polls EXCEPT ![s] = Sessions!None]
        /\ UNCHANGED <<decided, submits, hasty, granted, valid>>
    BY <1>3 DEF Sessions!PollDecided, Sessions!StillWaiting, JoinSafe, JoinTyped,
         Sessions!api
  <2>2. Sessions!Cancelled(join.timers) \in Nat
    BY DEF Sessions!Cancelled, JoinSafe, JoinTyped
  <2>3. CASE decided[polls[s]] = "rejected"
    <3>1. /\ join' \in [phase : JoinPhases, requestId :
               Sessions!Joins \cup {Sessions!None},
                        inviteToken : Sessions!Joins \cup {Sessions!None}, timers :
                             Nat]
          /\ join'.phase = "rejected" /\ join'.requestId = join.requestId
          /\ join'.inviteToken = join.inviteToken /\ ceremonies' = ceremonies
      BY <1>3, <2>2, <2>3 DEF Sessions!PollDecided, JoinSafe, JoinTyped, JoinPhases
    <3>2. JoinTyped'
      BY <2>1, <3>1 DEF JoinSafe, JoinTyped, JoinRegistration
    <3>. QED  BY <2>1, <3>1, <3>2 DEF JoinSafe, JoinInv, JoinTyped
  <2>4. CASE decided[polls[s]] = "approved"
    <3>1. /\ join' \in [phase : JoinPhases, requestId :
               Sessions!Joins \cup {Sessions!None},
                        inviteToken : Sessions!Joins \cup {Sessions!None}, timers :
                             Nat]
          /\ join'.phase = "registering" /\ join'.requestId = join.requestId
          /\ join'.inviteToken = polls[s] /\ Sessions!BeginCeremony(polls[s])
      BY <1>3, <2>1, <2>2, <2>4 DEF Sessions!PollDecided, JoinSafe, JoinTyped,
           JoinPhases
    <3>2. /\ polls' \in [SessionsBounds.Slots -> Sessions!Joins \cup {Sessions!None}]
          /\ \A t \in SessionsBounds.Slots : polls'[t] # Sessions!None =>
               polls[t] # Sessions!None /\ polls'[t] = polls[t]
      BY <2>1 DEF JoinSafe, JoinTyped
    <3>3. ~hasty => \A t \in SessionsBounds.Slots : ceremonies[t].invite # polls[s]
      BY <2>1 DEF JoinSafe, JoinInv
    <3>. QED  BY <2>1, <2>4, <3>1, <3>2, <3>3, CeremonyBegins
  <2>. QED  BY <1>3, <2>3, <2>4 DEF Sessions!PollDecided
<1>. QED  BY <1>1, <1>2, <1>3

LEMMA RegistrationRetried ==
  ASSUME JoinSafe, Sessions!RetryRegistration
  PROVE  JoinSafe'
<1>1. /\ join.phase = "registrationFailed" /\ join.inviteToken \in Sessions!Joins
      /\ decided[join.inviteToken] = "approved"
      /\ Sessions!BeginCeremony(join.inviteToken)
      /\ UNCHANGED <<decided, submits, polls, hasty, granted, valid>>
  BY DEF Sessions!RetryRegistration, JoinSafe, JoinTyped, JoinRegistration,
       Sessions!api
<1>2. /\ join' \in [phase : JoinPhases, requestId :
           Sessions!Joins \cup {Sessions!None},
                    inviteToken : Sessions!Joins \cup {Sessions!None}, timers : Nat]
      /\ join'.phase = "registering" /\ join'.requestId = join.requestId
      /\ join'.inviteToken = join.inviteToken
  BY DEF Sessions!RetryRegistration, JoinSafe, JoinTyped, JoinPhases
<1>3. /\ polls' \in [SessionsBounds.Slots -> Sessions!Joins \cup {Sessions!None}]
      /\ \A t \in SessionsBounds.Slots : polls'[t] # Sessions!None =>
           polls[t] # Sessions!None /\ polls'[t] = polls[t]
  BY <1>1 DEF JoinSafe, JoinTyped
<1>4. ~hasty => \A t \in SessionsBounds.Slots :
     ceremonies[t].invite # join.inviteToken
  BY <1>1 DEF JoinSafe, JoinInv
<1>. QED  BY <1>1, <1>2, <1>3, <1>4, CeremonyBegins

LEMMA CeremonyEnds ==
  ASSUME JoinSafe, NEW c \in SessionsBounds.Slots, Sessions!Registered(c)
         \/ Sessions!RegistrationFails(c)
  PROVE  JoinSafe'
<1>1. /\ ceremonies' = [ceremonies EXCEPT ![c] = Sessions!NoCeremony]
      /\ UNCHANGED <<decided, submits, polls, hasty>>
  BY DEF Sessions!Registered, Sessions!RegistrationFails, Sessions!api
<1>2. /\ ceremonies' \in [SessionsBounds.Slots -> [invite :
           Sessions!Joins \cup {Sessions!None}, mounted : BOOLEAN]]
      /\ ceremonies'[c].invite = Sessions!None /\ ~ceremonies'[c].mounted
      /\ \A t \in SessionsBounds.Slots \ {c} : ceremonies'[t] = ceremonies[t]
  BY <1>1 DEF JoinSafe, JoinTyped, Sessions!NoCeremony
<1>3. granted' \in Nat /\ valid' \subseteq 1..granted'
  BY SessionsGrow DEF Sessions!Registered, Sessions!RegistrationFails, Sessions!api,
       JoinSafe, JoinTyped
<1>4. CASE join' = join
  <2>1. JoinTyped'
    BY <1>1, <1>2, <1>3, <1>4 DEF JoinSafe, JoinTyped
  <2>2. ASSUME ~hasty
        PROVE  \A t \in SessionsBounds.Slots :
             ceremonies'[t].invite \in {Sessions!None, ceremonies[t].invite}
                                /\ (ceremonies'[t].mounted =>
                                     ceremonies'[t] = ceremonies[t])
    BY <1>2
  <2>3. ~hasty' => JoinInv'
    BY <1>1, <1>2, <1>4, <2>2, NoneOutside DEF JoinSafe, JoinInv, JoinTyped,
         JoinRegistration
  <2>. QED  BY <2>1, <2>3 DEF JoinSafe
<1>5. CASE /\ ceremonies[c].mounted
           /\ join' = [join EXCEPT !.phase = "registrationFailed"]
  <2>1. /\ join' \in [phase : JoinPhases, requestId :
             Sessions!Joins \cup {Sessions!None},
                      inviteToken : Sessions!Joins \cup {Sessions!None}, timers :
                           Nat]
        /\ join'.phase = "registrationFailed" /\ join'.requestId = join.requestId
        /\ join'.inviteToken = join.inviteToken
    BY <1>5 DEF JoinSafe, JoinTyped, JoinPhases
  <2>2. join.inviteToken # Sessions!None
    BY <1>5 DEF JoinSafe, JoinTyped
  <2>3. JoinTyped'
    BY <1>1, <1>2, <1>3, <2>1, <2>2 DEF JoinSafe, JoinTyped
  <2>4. ASSUME ~hasty
        PROVE  /\ join.phase = "registering"
               /\ ceremonies[c].invite = join.inviteToken
               /\ \A t \in SessionsBounds.Slots \ {c} :
                      /\ ceremonies[t].invite # join.inviteToken
                      /\ ~ceremonies[t].mounted
    BY <1>5, <2>2, <2>4 DEF JoinSafe, JoinInv
  <2>5. ~hasty' => JoinInv'
    BY <1>1, <1>2, <2>1, <2>2, <2>4 DEF JoinSafe, JoinInv
  <2>. QED  BY <2>3, <2>5 DEF JoinSafe
<1>. QED  BY <1>4, <1>5 DEF Sessions!Registered, Sessions!RegistrationFails

LEMMA JoinInit ==
  ASSUME Sessions!Init
  PROVE  JoinSafe
<1>. /\ Sessions!None \in Nat /\ granted = 0 /\ valid = {}
     /\ join \in [phase : JoinPhases, requestId :
          Sessions!Joins \cup {Sessions!None},
                  inviteToken : Sessions!Joins \cup {Sessions!None}, timers : Nat]
     /\ join.phase = "form" /\ join.inviteToken = Sessions!None /\ join.timers = 0
     /\ ceremonies \in [SessionsBounds.Slots -> [invite :
          Sessions!Joins \cup {Sessions!None}, mounted : BOOLEAN]]
     /\ \A s \in SessionsBounds.Slots : ceremonies[s].invite = Sessions!None
          /\ ~ceremonies[s].mounted
  BY DEF Sessions!Init, Sessions!Form, Sessions!None, Sessions!NoCeremony, JoinPhases
<1>1. JoinTyped
  BY DEF Sessions!Init, JoinTyped, JoinRegistration
<1>2. JoinInv
  BY DEF Sessions!Init, JoinInv
<1>. QED  BY <1>1, <1>2 DEF JoinSafe

\* The actions of the login, of the app and of its session.
LEMMA JoinOthersRest ==
  ASSUME JoinSafe, NEW s \in SessionsBounds.Slots,
         \/ Sessions!OpenJoin \/ Sessions!LogIn \/ Sessions!LoggedIn
         \/ Sessions!LoginFails
         \/ Sessions!WriteNickname(s) \/ Sessions!Call(s)
         \/ (\E code \in {200, 401, 500} : Sessions!Answer(s, code))
         \/ (\E t \in valid : Sessions!Expire(t)) \/ UNCHANGED Sessions!vars
  PROVE  JoinSafe'
<1>1. UNCHANGED joinState
  BY DEF Sessions!OpenJoin, Sessions!LogIn, Sessions!LoggedIn, Sessions!LoginFails,
       Sessions!WriteNickname, Sessions!Call, Sessions!Answer, Sessions!Expire,
       Sessions!vars, Sessions!api, Sessions!joining, joinState
<1>2. CASE Sessions!LoggedIn
  BY <1>1, <1>2, SessionsGrow, JoinRests DEF Sessions!LoggedIn, JoinSafe
<1>3. CASE ~Sessions!LoggedIn
  <2>1. granted' = granted /\ valid' \subseteq valid
    BY <1>3 DEF Sessions!OpenJoin, Sessions!LogIn, Sessions!LoginFails,
         Sessions!WriteNickname, Sessions!Call, Sessions!Answer, Sessions!Expire,
         Sessions!vars, Sessions!api
  <2>. QED  BY <1>1, <2>1, JoinRests DEF JoinSafe, JoinTyped
<1>. QED  BY <1>2, <1>3

LEMMA SessionWriteEnds ==
  ASSUME JoinSafe, NEW s \in SessionsBounds.Slots, Sessions!EndWrite(s)
  PROVE  JoinSafe'
<1>1. UNCHANGED <<decided, hasty, granted, valid>>
  BY DEF Sessions!EndWrite, Sessions!api
<1>2. CASE Sessions!LeaveJoin
  BY <1>1, <1>2, ScreenLeft
<1>3. CASE ~Sessions!LeaveJoin
  <2>1. UNCHANGED joinState
    BY <1>1, <1>3 DEF Sessions!EndWrite, Sessions!joining, joinState
  <2>. QED  BY <1>1, <2>1, JoinRests DEF JoinSafe, JoinTyped
<1>. QED  BY <1>2, <1>3

LEMMA JoinStep ==
  ASSUME JoinSafe, [Sessions!Next]_(Sessions!vars)
  PROVE  JoinSafe'
<1>1. CASE Sessions!OpenJoin \/ Sessions!LogIn \/ Sessions!LoggedIn
     \/ Sessions!LoginFails \/ (\E t \in valid : Sessions!Expire(t))
  <2>1. CASE \E s \in SessionsBounds.Slots : TRUE
    BY <1>1, <2>1, JoinOthersRest
  <2>2. CASE SessionsBounds.Slots = {}
    \* Without a slot nothing is ever under way, nor written.
    <3>1. UNCHANGED joinState /\ granted' = granted /\ valid' \subseteq valid
      BY <1>1, <2>2 DEF Sessions!OpenJoin, Sessions!LogIn, Sessions!LoggedIn,
           Sessions!LoginFails, Sessions!Expire, Sessions!SaveGranted,
           Sessions!Write, Sessions!ClearAfter, Sessions!Free, Sessions!api,
           Sessions!joining, joinState
    <3>. QED  BY <3>1, JoinRests DEF JoinSafe, JoinTyped
  <2>. QED  BY <2>1, <2>2
<1>2. CASE Sessions!BackToLogin
  BY <1>2, ScreenLeft DEF Sessions!BackToLogin, Sessions!api
<1>3. CASE Sessions!RetryRegistration
  BY <1>3, RegistrationRetried
<1>4. CASE Sessions!Restart
  BY <1>4, AppRestarted
<1>5. CASE \E j \in Sessions!Joins, s \in SessionsBounds.Slots :
     Sessions!Submit(s, j)
  BY <1>5, FormSubmitted
<1>6. CASE \E j \in Sessions!Joins : Sessions!Decide(j, "approved")
     \/ Sessions!Decide(j, "rejected")
  BY <1>6, RequestDecided
<1>7. ASSUME NEW s \in SessionsBounds.Slots,
             \/ Sessions!SubmitAnswered(s) \/ Sessions!Poll(s)
             \/ Sessions!PollInVain(s) \/ Sessions!PollDecided(s)
             \/ Sessions!Registered(s) \/ Sessions!RegistrationFails(s)
             \/ Sessions!WriteNickname(s) \/ Sessions!EndWrite(s)
             \/ Sessions!Call(s) \/ (\E code \in {200, 401, 500} :
                  Sessions!Answer(s, code))
      PROVE  JoinSafe'
  BY <1>7, SubmissionAnswered, RequestPolled, CeremonyEnds, JoinOthersRest,
       SessionWriteEnds
<1>8. CASE UNCHANGED Sessions!vars
  BY <1>8, JoinRests DEF Sessions!vars, Sessions!api, Sessions!joining, joinState,
       JoinSafe, JoinTyped
<1>. QED  BY <1>1, <1>2, <1>3, <1>4, <1>5, <1>6, <1>7, <1>8 DEF Sessions!Next

LEMMA JoinHolds == Sessions!Spec => []JoinSafe
<1>1. Sessions!Init => JoinSafe
  BY JoinInit
<1>2. JoinSafe /\ [Sessions!Next]_(Sessions!vars) => JoinSafe'
  BY JoinStep
<1>. QED  BY <1>1, <1>2, PTL DEF Sessions!Spec

LEMMA JoinCeremonies == JoinSafe => Sessions!InviteRegistersAlone
BY DEF JoinSafe, JoinInv, Sessions!InviteRegistersAlone

(* The session outlives failures. *)

\* Types of the session, in memory and in the preferences, and of what writes it.
SessionTyped ==
    /\ granted \in Nat /\ valid \subseteq 1..granted /\ session \in 0..granted
    /\ stored \in [token : 0..granted, nickname : 0..granted]
    /\ writes \in [SessionsBounds.Slots -> [kind :
         {"none", "save", "clear"}, token : 0..granted,
                             step : 0..2]]
    /\ \A s \in SessionsBounds.Slots :
           /\ writes[s].step # 0 => writes[s].kind # "none"
           /\ writes[s].kind = "save" => writes[s].token # Sessions!None
           /\ writes[s].kind = "clear" => writes[s].token = Sessions!None
    /\ belated \in BOOLEAN

\* While no 401 has met another session than its own: saves and clears exclude
\* each other, a clear is under way only for a session that is over, and the
\* preferences hold what a restart needs.
SessionCalm ==
    /\ \A s, t \in SessionsBounds.Slots : ~(writes[s].kind = "save"
         /\ writes[t].kind = "clear")
    /\ \A s \in SessionsBounds.Slots : writes[s].kind = "clear" =>
         session \notin valid
    /\ \A s \in SessionsBounds.Slots : writes[s].kind = "save" =>
          /\ stored.token # Sessions!None
          /\ writes[s].step = 2 => stored.nickname # Sessions!None
    /\ session # Sessions!None /\ (\A s \in SessionsBounds.Slots :
         writes[s].kind # "clear") =>
          stored.token # Sessions!None /\ stored.nickname # Sessions!None

SessionInv == SessionTyped /\ (~belated => SessionCalm)

sessionState == <<session, stored, writes, belated>>

LEMMA SessionRests ==
  ASSUME SessionInv, UNCHANGED sessionState, granted' = granted,
         valid' \subseteq valid
  PROVE  SessionInv'
BY DEF SessionInv, SessionTyped, SessionCalm, sessionState

LEMMA SavesKeep ==
  ASSUME SessionInv, Sessions!SaveGranted
  PROVE  SessionInv'
<1>1. /\ granted \in Nat /\ granted' = granted + 1
      /\ valid' = valid \cup {granted + 1}
      /\ belated' = (belated \/ Sessions!Writing("clear"))
      /\ session' = session /\ stored' = [stored EXCEPT !.token = granted + 1]
  BY DEF Sessions!SaveGranted, Sessions!Write, SessionInv, SessionTyped
<1>2. PICK w \in SessionsBounds.Slots :
     writes' = [writes EXCEPT ![w] = [kind |-> "save",
                                                          token |-> granted + 1, step |-> 1]]
  BY <1>1 DEF Sessions!SaveGranted, Sessions!Write, Sessions!Free
<1>3. /\ granted' \in Nat /\ 0..granted \subseteq 0..granted'
      /\ 1..granted \subseteq 1..granted' /\ granted + 1 \in 1..granted'
      /\ granted + 1 \in 0..granted' /\ granted + 1 # Sessions!None
      /\ granted + 1 # session
  BY <1>1 DEF SessionInv, SessionTyped, Sessions!None
<1>4. /\ writes' \in [SessionsBounds.Slots -> [kind :
           {"none", "save", "clear"}, token : 0..granted',
                                step : 0..2]]
      /\ writes'[w].kind = "save" /\ writes'[w].token # Sessions!None
      /\ writes'[w].step = 1
      /\ \A s \in SessionsBounds.Slots \ {w} : writes'[s] = writes[s]
  BY <1>1, <1>2, <1>3 DEF SessionInv, SessionTyped
<1>5. /\ stored' \in [token : 0..granted', nickname : 0..granted']
      /\ stored'.token # Sessions!None /\ stored'.nickname = stored.nickname
  BY <1>1, <1>3 DEF SessionInv, SessionTyped
<1>6. SessionTyped'
  BY <1>1, <1>3, <1>4, <1>5 DEF SessionInv, SessionTyped
<1>7. ASSUME ~belated'
      PROVE  ~belated /\ \A s \in SessionsBounds.Slots : writes[s].kind # "clear"
  BY <1>1, <1>7 DEF Sessions!Writing, SessionInv, SessionTyped
<1>8. ~belated' => SessionCalm'
  BY <1>1, <1>4, <1>5, <1>7 DEF SessionInv, SessionCalm
<1>. QED  BY <1>6, <1>8 DEF SessionInv

LEMMA ClearsKeep ==
  ASSUME SessionInv, NEW token, Sessions!ClearAfter(token), token \notin valid,
         UNCHANGED <<granted, valid>>
  PROVE  SessionInv'
<1>1. /\ belated' = (belated \/ Sessions!Writing("save") \/ (token # session
           /\ session # Sessions!None))
      /\ session' = session /\ stored' = [stored EXCEPT !.token = Sessions!None]
  BY DEF Sessions!ClearAfter, Sessions!Write
<1>2. PICK w \in SessionsBounds.Slots :
     writes' = [writes EXCEPT ![w] = [kind |-> "clear",
                                                          token |-> Sessions!None, step |-> 1]]
  BY DEF Sessions!ClearAfter, Sessions!Write, Sessions!Free
<1>3. Sessions!None \in 0..granted /\ Sessions!None \in Nat
     /\ Sessions!None \notin valid
  BY DEF Sessions!None, SessionInv, SessionTyped
<1>4. /\ writes' \in [SessionsBounds.Slots -> [kind :
           {"none", "save", "clear"}, token : 0..granted,
                                step : 0..2]]
      /\ writes'[w].kind = "clear" /\ writes'[w].token = Sessions!None
      /\ writes'[w].step = 1
      /\ \A s \in SessionsBounds.Slots \ {w} : writes'[s] = writes[s]
  BY <1>2, <1>3 DEF SessionInv, SessionTyped
<1>5. stored' \in [token : 0..granted', nickname : 0..granted']
  BY <1>1, <1>3 DEF SessionInv, SessionTyped
<1>6. SessionTyped'
  BY <1>1, <1>4, <1>5 DEF SessionInv, SessionTyped
<1>7. ASSUME ~belated'
      PROVE  /\ ~belated /\ session \notin valid
             /\ \A s \in SessionsBounds.Slots : writes[s].kind # "save"
  BY <1>1, <1>3, <1>7 DEF Sessions!Writing, SessionInv, SessionTyped
<1>8. ~belated' => SessionCalm'
  BY <1>1, <1>4, <1>7 DEF SessionInv, SessionCalm
<1>. QED  BY <1>6, <1>8 DEF SessionInv

LEMMA NicknamesKeep ==
  ASSUME SessionInv, NEW s \in SessionsBounds.Slots, Sessions!WriteNickname(s)
  PROVE  SessionInv'
<1>1. /\ writes[s].step = 1 /\ stored' = [stored EXCEPT !.nickname = writes[s].token]
      /\ writes' = [writes EXCEPT ![s].step = 2]
      /\ UNCHANGED <<granted, valid, session, belated>>
  BY DEF Sessions!WriteNickname, Sessions!api
<1>2. /\ writes' \in [SessionsBounds.Slots -> [kind :
           {"none", "save", "clear"}, token : 0..granted,
                                step : 0..2]]
      /\ writes'[s].kind = writes[s].kind /\ writes'[s].token = writes[s].token
      /\ \A t \in SessionsBounds.Slots \ {s} : writes'[t] = writes[t]
  BY <1>1 DEF SessionInv, SessionTyped
<1>3. writes[s].kind \in {"save", "clear"} /\ writes[s].token \in Nat
  BY <1>1 DEF SessionInv, SessionTyped
<1>4. /\ stored' \in [token : 0..granted', nickname : 0..granted']
           /\ stored'.token = stored.token
      /\ stored'.nickname = writes[s].token
  BY <1>1, <1>3 DEF SessionInv, SessionTyped
<1>5. SessionTyped'
  BY <1>1, <1>2, <1>3, <1>4 DEF SessionInv, SessionTyped
<1>6. ~belated' => SessionCalm'
  BY <1>1, <1>2, <1>3, <1>4 DEF SessionInv, SessionTyped, SessionCalm
<1>. QED  BY <1>5, <1>6 DEF SessionInv

LEMMA EndsKeep ==
  ASSUME SessionInv, NEW s \in SessionsBounds.Slots, Sessions!EndWrite(s)
  PROVE  SessionInv'
<1>1. /\ writes[s].step = 2 /\ session' = writes[s].token
      /\ writes' = [writes EXCEPT ![s] = Sessions!Idle]
      /\ UNCHANGED <<granted, valid, stored, belated>>
  BY DEF Sessions!EndWrite, Sessions!api
<1>2. /\ writes' \in [SessionsBounds.Slots -> [kind :
           {"none", "save", "clear"}, token : 0..granted,
                                step : 0..2]]
      /\ writes'[s].kind = "none" /\ writes'[s].step = 0
      /\ \A t \in SessionsBounds.Slots \ {s} : writes'[t] = writes[t]
  BY <1>1 DEF SessionInv, SessionTyped, Sessions!Idle, Sessions!None
<1>3. /\ writes[s].kind \in {"save", "clear"} /\ writes[s].token \in 0..granted
      /\ Sessions!None \notin valid
  BY <1>1 DEF SessionInv, SessionTyped, Sessions!None
<1>4. SessionTyped'
  BY <1>1, <1>2, <1>3 DEF SessionInv, SessionTyped
<1>5. ~belated' => SessionCalm'
  BY <1>1, <1>2, <1>3 DEF SessionInv, SessionTyped, SessionCalm
<1>. QED  BY <1>4, <1>5 DEF SessionInv

LEMMA RestartsKeep ==
  ASSUME SessionInv, Sessions!Restart
  PROVE  SessionInv'
<1>1. /\ writes' = [s \in SessionsBounds.Slots |-> Sessions!Idle]
      /\ session' = Sessions!Restored
      /\ UNCHANGED <<granted, valid, stored, belated>>
  BY DEF Sessions!Restart, Sessions!api
<1>2. Sessions!Idle \in [kind : {"none", "save", "clear"}, token :
     0..granted, step : 0..2]
  BY DEF Sessions!Idle, Sessions!None, SessionInv, SessionTyped
<1>3. /\ Sessions!Idle.kind = "none" /\ Sessions!Idle.step = 0
      /\ Sessions!None \in 0..granted
  BY <1>2 DEF Sessions!Idle, Sessions!None, SessionInv, SessionTyped
<1>4. SessionTyped'
  BY <1>1, <1>2, <1>3 DEF SessionInv, SessionTyped, Sessions!Restored
<1>5. ~belated' => SessionCalm'
  BY <1>1, <1>3 DEF SessionCalm, Sessions!Restored
<1>. QED  BY <1>4, <1>5 DEF SessionInv

\* The answers 401: to a request whose session is over, or to a login.
LEMMA RefusalsKeep ==
  ASSUME SessionInv,
         Sessions!LoginFails
              \/ (\E s \in SessionsBounds.Slots, code \in {200, 401, 500} :
                   Sessions!Answer(s, code))
  PROVE  SessionInv' /\ session' = session
<1>. Sessions!None \notin valid
  BY DEF SessionInv, SessionTyped, Sessions!None
<1>1. UNCHANGED <<granted, valid>>
  BY DEF Sessions!LoginFails, Sessions!Answer, Sessions!api
<1>2. \/ UNCHANGED <<Sessions!memory, belated>>
      \/ \E token : Sessions!ClearAfter(token) /\ token \notin valid
  BY DEF Sessions!LoginFails, Sessions!Answer, Sessions!IsUnauthorized
<1>3. CASE UNCHANGED <<Sessions!memory, belated>>
  BY <1>1, <1>3, SessionRests DEF Sessions!memory, sessionState
<1>4. CASE \E token : Sessions!ClearAfter(token) /\ token \notin valid
  <2>1. session' = session
    BY <1>4 DEF Sessions!ClearAfter, Sessions!Write
  <2>. QED  BY <1>1, <1>4, <2>1, ClearsKeep
<1>. QED  BY <1>2, <1>3, <1>4

\* Every other action leaves the session where it is.
LEMMA SessionUntouched ==
  ASSUME SessionInv, [Sessions!Next]_(Sessions!vars),
         ~Sessions!SaveGranted, ~Sessions!LoginFails, ~Sessions!Restart,
         \A s \in SessionsBounds.Slots :
             /\ ~Sessions!WriteNickname(s) /\ ~Sessions!EndWrite(s)
             /\ \A code \in {200, 401, 500} : ~Sessions!Answer(s, code)
  PROVE  UNCHANGED sessionState /\ granted' = granted /\ valid' \subseteq valid
<1>1. CASE Sessions!OpenJoin \/ Sessions!BackToLogin
     \/ Sessions!RetryRegistration \/ Sessions!LogIn \/ Sessions!LoggedIn
  BY <1>1 DEF Sessions!OpenJoin, Sessions!BackToLogin, Sessions!RetryRegistration,
       Sessions!LogIn, Sessions!LoggedIn, Sessions!api, Sessions!memory, sessionState
<1>2. CASE \/ \E j \in Sessions!Joins, s \in SessionsBounds.Slots :
                Sessions!Submit(s, j)
           \/ \E j \in Sessions!Joins : Sessions!Decide(j, "approved")
                \/ Sessions!Decide(j, "rejected")
           \/ \E t \in valid : Sessions!Expire(t)
  BY <1>2 DEF Sessions!Submit, Sessions!Decide, Sessions!Expire, Sessions!memory,
       sessionState
<1>3. ASSUME NEW s \in SessionsBounds.Slots,
             \/ Sessions!SubmitAnswered(s) \/ Sessions!Poll(s)
             \/ Sessions!PollInVain(s) \/ Sessions!PollDecided(s) \/ Sessions!Call(s)
      PROVE  UNCHANGED sessionState /\ granted' = granted /\ valid' = valid
  BY <1>3 DEF Sessions!SubmitAnswered, Sessions!Poll, Sessions!PollInVain,
       Sessions!PollDecided, Sessions!Call, Sessions!api, Sessions!memory,
       sessionState
<1>4. ASSUME NEW s \in SessionsBounds.Slots, Sessions!Registered(s)
             \/ Sessions!RegistrationFails(s)
      PROVE  UNCHANGED sessionState /\ granted' = granted /\ valid' = valid
  BY <1>4 DEF Sessions!Registered, Sessions!RegistrationFails, Sessions!memory,
       sessionState
<1>5. CASE UNCHANGED Sessions!vars
  BY <1>5 DEF Sessions!vars, Sessions!api, Sessions!memory, sessionState
<1>. QED  BY <1>1, <1>2, <1>3, <1>4, <1>5 DEF Sessions!Next

LEMMA SessionStep ==
  ASSUME SessionInv, [Sessions!Next]_(Sessions!vars)
  PROVE  SessionInv' /\ Sessions!KeepsSession
<1>. Sessions!None \notin valid
  BY DEF SessionInv, SessionTyped, Sessions!None
<1>0. session' = session => Sessions!KeepsSession
  BY DEF Sessions!KeepsSession
<1>1. CASE Sessions!SaveGranted
  <2>1. session' = session
    BY <1>1 DEF Sessions!SaveGranted, Sessions!Write
  <2>. QED  BY <1>0, <1>1, <2>1, SavesKeep
<1>2. CASE Sessions!LoginFails
     \/ (\E s \in SessionsBounds.Slots, code \in {200, 401, 500} :
          Sessions!Answer(s, code))
  BY <1>0, <1>2, RefusalsKeep
<1>3. ASSUME NEW s \in SessionsBounds.Slots, Sessions!WriteNickname(s)
      PROVE  SessionInv' /\ Sessions!KeepsSession
  <2>1. session' = session
    BY <1>3 DEF Sessions!WriteNickname
  <2>. QED  BY <1>0, <1>3, <2>1, NicknamesKeep
<1>4. ASSUME NEW s \in SessionsBounds.Slots, Sessions!EndWrite(s)
      PROVE  SessionInv' /\ Sessions!KeepsSession
  <2>1. writes[s].kind \in {"save", "clear"} /\ session' = writes[s].token
    BY <1>4 DEF Sessions!EndWrite, SessionInv, SessionTyped
  <2>2. Sessions!KeepsSession
    BY <2>1 DEF Sessions!KeepsSession, SessionInv, SessionTyped, SessionCalm
  <2>. QED  BY <1>4, <2>2, EndsKeep
<1>5. CASE Sessions!Restart
  <2>1. session' = Sessions!Restored
    BY <1>5 DEF Sessions!Restart
  <2>2. ASSUME session \in valid, ~belated
        PROVE  Sessions!Restored # Sessions!None
    BY <2>2 DEF Sessions!Restored, SessionInv, SessionTyped, SessionCalm,
         Sessions!None
  <2>. QED  BY <1>5, <2>1, <2>2, RestartsKeep DEF Sessions!KeepsSession
<1>6. CASE /\ ~Sessions!SaveGranted /\ ~Sessions!LoginFails /\ ~Sessions!Restart
           /\ \A s \in SessionsBounds.Slots :
                  /\ ~Sessions!WriteNickname(s) /\ ~Sessions!EndWrite(s)
                  /\ \A code \in {200, 401, 500} : ~Sessions!Answer(s, code)
  <2>1. UNCHANGED sessionState /\ granted' = granted /\ valid' \subseteq valid
    BY <1>6, SessionUntouched
  <2>2. SessionInv'
    BY <2>1, SessionRests
  <2>. QED  BY <1>0, <2>1, <2>2 DEF sessionState
<1>. QED  BY <1>1, <1>2, <1>3, <1>4, <1>5, <1>6

LEMMA SessionInit ==
  ASSUME Sessions!Init
  PROVE  SessionInv
<1>1. /\ 0 \in Nat /\ 0 \in 0..granted /\ valid \subseteq 1..granted
      /\ writes \in [SessionsBounds.Slots -> [kind :
           {"none", "save", "clear"}, token : 0..granted,
                               step : 0..2]]
      /\ \A s \in SessionsBounds.Slots : writes[s].kind = "none"
           /\ writes[s].step = 0
  BY DEF Sessions!Init, Sessions!Idle, Sessions!None
<1>. QED  BY <1>1 DEF Sessions!Init, SessionInv, SessionTyped, SessionCalm,
     Sessions!None

LEMMA KeepsSessions == Sessions!Spec => [][Sessions!KeepsSession]_(Sessions!vars)
<1>1. Sessions!Init => SessionInv
  BY SessionInit
<1>2. SessionInv /\ [Sessions!Next]_(Sessions!vars) => SessionInv'
     /\ Sessions!KeepsSession
  BY SessionStep
<1>3. SessionInv /\ [Sessions!Next]_(Sessions!vars) =>
     [Sessions!KeepsSession]_(Sessions!vars)
  BY <1>2
<1>. QED  BY <1>1, <1>2, <1>3, PTL DEF Sessions!Spec

(* Types. *)

\* Submissions that await their answer.
Awaiting == {s \in SessionsBounds.Slots : submits[s] # Sessions!None}

\* What the api, the app and its login hold.
ScreenTyped ==
    /\ used \subseteq {j \in Sessions!Joins : decided[j] = "approved"}
    /\ granted <= SessionsBounds.MaxTokens
    /\ screen \in {"login", "join", "app"} /\ loggingIn \in BOOLEAN
    /\ calls \in [SessionsBounds.Slots -> 0..granted]

\* The screen of the join request alone holds its form and its polls, and every
\* timer took the slot of a submission.
ScreenShape ==
    /\ \A s \in SessionsBounds.Slots : ceremonies[s].mounted =>
          ceremonies[s].invite # Sessions!None /\ join.phase # "form"
    /\ screen # "join" =>
          join.phase = "form" /\ \A s \in SessionsBounds.Slots :
               submits[s] = Sessions!None /\ polls[s] = Sessions!None
    /\ join.phase = "form" => join.timers = 0
    /\ join.timers + Cardinality(Awaiting) <= Cardinality(SessionsBounds.Slots)

ScreenInv == JoinSafe /\ SessionInv /\ ScreenTyped /\ ScreenShape

\* The sizes of sets, as FrontSession has them.
LEMMA SlotSizes ==
  ASSUME NEW S
  PROVE  /\ Sessions!Cardinality(S) = Cardinality(S)
         /\ Sessions!IsFiniteSet(S) = IsFiniteSet(S)
BY DEF Sessions!Cardinality, Cardinality, Sessions!IsFiniteSet, IsFiniteSet

LEMMA AwaitingCounted ==
  ASSUME Sessions!ConstantsAssumption
  PROVE  /\ IsFiniteSet(Awaiting) /\ Cardinality(Awaiting) \in Nat
         /\ Cardinality(SessionsBounds.Slots) \in Nat
         /\ Cardinality(Awaiting) <= Cardinality(SessionsBounds.Slots)
<1>1. IsFiniteSet(SessionsBounds.Slots) /\ Awaiting \subseteq SessionsBounds.Slots
  BY SlotSizes DEF Sessions!ConstantsAssumption, Awaiting
<1>. QED  BY <1>1, FS_Subset, FS_CardinalityType

LEMMA AwaitingAnswered ==
  ASSUME Sessions!ConstantsAssumption, JoinSafe, NEW s \in SessionsBounds.Slots,
         submits[s] # Sessions!None,
         submits' = [submits EXCEPT ![s] = Sessions!None]
  PROVE  Cardinality(Awaiting') = Cardinality(Awaiting) - 1
<1>1. s \in Awaiting /\ Awaiting' = Awaiting \ {s}
  BY DEF Awaiting, JoinSafe, JoinTyped
<1>. QED  BY <1>1, AwaitingCounted, FS_RemoveElement

\* The screen goes, or the app.
LEMMA ScreenShut ==
  ASSUME Sessions!ConstantsAssumption, ScreenInv, Sessions!LeaveJoin
         \/ Sessions!Restart
  PROVE  ScreenShape'
<1>1. /\ join'.phase = "form" /\ join'.timers = 0
      /\ \A s \in SessionsBounds.Slots : submits'[s] = Sessions!None
           /\ polls'[s] = Sessions!None
  BY DEF Sessions!LeaveJoin, Sessions!Restart, Sessions!Form
<1>2. \A s \in SessionsBounds.Slots : ~ceremonies'[s].mounted
  <2>1. CASE Sessions!LeaveJoin
    <3>1. ceremonies \in [SessionsBounds.Slots -> [invite :
         Sessions!Joins \cup {Sessions!None}, mounted : BOOLEAN]]
      BY DEF ScreenInv, JoinSafe, JoinTyped
    <3>2. ceremonies' = [s \in SessionsBounds.Slots |-> [ceremonies[s] EXCEPT !.mounted = FALSE]]
      BY <2>1 DEF Sessions!LeaveJoin
    <3>. QED  BY <3>1, <3>2
  <2>2. CASE Sessions!Restart
    BY <2>2 DEF Sessions!Restart, Sessions!NoCeremony
  <2>. QED  BY <2>1, <2>2
<1>3. Awaiting' = {}
  BY <1>1 DEF Awaiting
<1>4. Cardinality(Awaiting') = 0
  BY <1>3, FS_EmptySet
<1>. QED  BY <1>1, <1>2, <1>4, AwaitingCounted DEF ScreenShape

LEMMA ScreenRests ==
  ASSUME ScreenShape, UNCHANGED <<screen, join, submits, polls, ceremonies>>
  PROVE  ScreenShape'
BY DEF ScreenShape, Awaiting

LEMMA ScreenOfForm ==
  ASSUME Sessions!ConstantsAssumption, ScreenInv, NEW s \in SessionsBounds.Slots,
         Sessions!SubmitAnswered(s) \/ \E j \in Sessions!Joins :
              Sessions!Submit(s, j)
  PROVE  ScreenShape'
<1>0. /\ join.timers \in Nat /\ Cardinality(Awaiting) \in Nat
      /\ Cardinality(SessionsBounds.Slots) \in Nat
      /\ join.timers + Cardinality(Awaiting) <= Cardinality(SessionsBounds.Slots)
  BY AwaitingCounted DEF ScreenInv, JoinSafe, JoinTyped, ScreenShape
<1>1. CASE Sessions!SubmitAnswered(s)
  <2>1. /\ submits[s] # Sessions!None
        /\ submits' = [submits EXCEPT ![s] = Sessions!None]
        /\ UNCHANGED <<screen, polls, ceremonies>>
    BY <1>1 DEF Sessions!SubmitAnswered
  <2>2. Cardinality(Awaiting') = Cardinality(Awaiting) - 1
    BY <2>1, AwaitingAnswered DEF ScreenInv
  <2>3. screen = "join"
    BY <2>1 DEF ScreenInv, ScreenShape
  <2>4. \/ join' = join
        \/ join'.phase = "waiting" /\ join'.timers = join.timers + 1
    BY <1>1 DEF Sessions!SubmitAnswered, ScreenInv, JoinSafe, JoinTyped
  <2>5. join'.phase # "form" \/ join' = join
    BY <2>4
  <2>6. join'.timers + Cardinality(Awaiting') <= Cardinality(SessionsBounds.Slots)
    BY <1>0, <2>2, <2>4
  <2>7. \A t \in SessionsBounds.Slots : ceremonies[t].mounted =>
            ceremonies[t].invite # Sessions!None /\ join.phase # "form"
    BY DEF ScreenInv, ScreenShape
  <2>8. join.phase = "form" => join.timers = 0
    BY DEF ScreenInv, ScreenShape
  <2>. QED  BY <2>1, <2>3, <2>5, <2>6, <2>7, <2>8 DEF ScreenShape
<1>2. CASE \E j \in Sessions!Joins : Sessions!Submit(s, j)
  <2>1. /\ screen = "join" /\ join.phase = "form"
        /\ UNCHANGED <<screen, join, polls, ceremonies>>
    BY <1>2 DEF Sessions!Submit
  <2>2. join.timers = 0
    BY <2>1 DEF ScreenInv, ScreenShape
  <2>3. /\ Cardinality(Awaiting)' \in Nat
        /\ Cardinality(Awaiting)' <= Cardinality(SessionsBounds.Slots)
    <3>1. IsFiniteSet(SessionsBounds.Slots)
         /\ Awaiting' \subseteq SessionsBounds.Slots
      BY SlotSizes DEF Sessions!ConstantsAssumption, Awaiting
    <3>. QED  BY <3>1, FS_Subset, FS_CardinalityType
  <2>4. join'.timers + Cardinality(Awaiting') <= Cardinality(SessionsBounds.Slots)
    BY <1>0, <2>1, <2>2, <2>3
  <2>. QED  BY <2>1, <2>4 DEF ScreenInv, ScreenShape
<1>. QED  BY <1>1, <1>2

\* Whatever leaves the form waits, registers or has failed to.
LEMMA ScreenOfRequest ==
  ASSUME Sessions!ConstantsAssumption, ScreenInv, UNCHANGED <<screen, submits>>,
         join.phase # "form",
         join'.phase # "form", join'.timers \in 0..join.timers,
         \A s \in SessionsBounds.Slots : ceremonies'[s].mounted =>
              ceremonies'[s].invite # Sessions!None
  PROVE  ScreenShape'
<1>1. screen = "join" /\ Awaiting' = Awaiting
  BY DEF ScreenInv, ScreenShape, Awaiting
<1>2. join'.timers + Cardinality(Awaiting) <= Cardinality(SessionsBounds.Slots)
  BY AwaitingCounted DEF ScreenInv, ScreenShape, JoinSafe, JoinTyped
<1>. QED  BY <1>1, <1>2 DEF ScreenShape

LEMMA ScreenOfPolls ==
  ASSUME Sessions!ConstantsAssumption, ScreenInv, NEW s \in SessionsBounds.Slots,
         Sessions!Poll(s) \/ Sessions!PollInVain(s) \/ Sessions!PollDecided(s)
  PROVE  ScreenShape'
<1>1. CASE UNCHANGED <<screen, join, submits, ceremonies>>
  <2>1. screen = "join"
    BY DEF Sessions!Poll, Sessions!PollInVain, Sessions!PollDecided, ScreenInv,
         ScreenShape
  <2>. QED  BY <1>1, <2>1 DEF ScreenInv, ScreenShape, Awaiting
<1>2. CASE Sessions!PollDecided(s) /\ ~UNCHANGED <<join, ceremonies>>
  <2>1. /\ polls[s] # Sessions!None /\ join.phase = "waiting"
        /\ UNCHANGED <<screen, submits>>
        /\ \/ /\ join' = [join EXCEPT !.phase = "rejected", !.timers = Sessions!Cancelled(join.timers)]
              /\ UNCHANGED ceremonies
           \/ /\ join' = [join EXCEPT !.phase = "registering",
                                      !.timers = Sessions!Cancelled(join.timers),
                                      !.inviteToken = polls[s]]
              /\ Sessions!BeginCeremony(polls[s])
    BY <1>2 DEF Sessions!PollDecided, Sessions!StillWaiting
  <2>2. Sessions!Cancelled(join.timers) \in 0..join.timers
    <3>1. PICK n : n = join.timers
      OBVIOUS
    <3>2. n \in Nat
      BY <3>1 DEF ScreenInv, JoinSafe, JoinTyped
    <3>. QED  BY <3>1, <3>2 DEF Sessions!Cancelled
  <2>3. join'.phase # "form" /\ join'.timers \in 0..join.timers
    BY <2>1, <2>2 DEF ScreenInv, JoinSafe, JoinTyped
  <2>4. \A t \in SessionsBounds.Slots : ceremonies'[t].mounted =>
       ceremonies'[t].invite # Sessions!None
    BY <2>1 DEF Sessions!BeginCeremony, ScreenInv, JoinSafe, JoinTyped, ScreenShape
  <2>. QED  BY <2>1, <2>3, <2>4, ScreenOfRequest
<1>. QED  BY <1>1, <1>2 DEF Sessions!Poll, Sessions!PollInVain, Sessions!PollDecided

LEMMA ScreenOfCeremonies ==
  ASSUME Sessions!ConstantsAssumption, ScreenInv, NEW s \in SessionsBounds.Slots,
         Sessions!RetryRegistration \/ Sessions!Registered(s)
              \/ Sessions!RegistrationFails(s)
  PROVE  ScreenShape'
<1>1. CASE Sessions!RetryRegistration
  <2>1. /\ join.phase = "registrationFailed"
        /\ join' = [join EXCEPT !.phase = "registering"]
        /\ Sessions!BeginCeremony(join.inviteToken) /\ UNCHANGED <<screen, submits>>
        /\ join.inviteToken # Sessions!None
    BY <1>1 DEF Sessions!RetryRegistration, ScreenInv, JoinSafe, JoinTyped,
         JoinRegistration
  <2>2. join'.phase # "form" /\ join'.timers \in 0..join.timers
    BY <2>1 DEF ScreenInv, JoinSafe, JoinTyped
  <2>3. \A t \in SessionsBounds.Slots : ceremonies'[t].mounted =>
       ceremonies'[t].invite # Sessions!None
    BY <2>1 DEF Sessions!BeginCeremony, ScreenInv, JoinSafe, JoinTyped, ScreenShape
  <2>. QED  BY <2>1, <2>2, <2>3, ScreenOfRequest
<1>2. CASE Sessions!Registered(s) \/ Sessions!RegistrationFails(s)
  <2>1. /\ ceremonies' = [ceremonies EXCEPT ![s] = Sessions!NoCeremony]
        /\ UNCHANGED <<screen, submits, polls>>
        /\ \/ join' = join
           \/ ceremonies[s].mounted
                /\ join' = [join EXCEPT !.phase = "registrationFailed"]
    BY <1>2 DEF Sessions!Registered, Sessions!RegistrationFails
  <2>2. \A t \in SessionsBounds.Slots : ceremonies'[t].mounted =>
       ceremonies'[t] = ceremonies[t]
    BY <2>1 DEF Sessions!NoCeremony, ScreenInv, JoinSafe, JoinTyped
  <2>3. \A t \in SessionsBounds.Slots : ceremonies'[t].mounted =>
            ceremonies'[t].invite # Sessions!None /\ join.phase # "form"
    BY <2>2 DEF ScreenInv, ScreenShape
  <2>4. CASE join' = join
    BY <2>1, <2>3, <2>4 DEF ScreenInv, ScreenShape, Awaiting
  <2>5. CASE /\ ceremonies[s].mounted
             /\ join' = [join EXCEPT !.phase = "registrationFailed"]
    <3>1. join'.phase # "form" /\ join'.timers \in 0..join.timers
         /\ join.phase # "form"
      BY <2>5 DEF ScreenInv, ScreenShape, JoinSafe, JoinTyped
    <3>. QED  BY <2>1, <2>3, <3>1, ScreenOfRequest
  <2>. QED  BY <2>1, <2>4, <2>5
<1>. QED  BY <1>1, <1>2

LEMMA ScreenShapeStep ==
  ASSUME Sessions!ConstantsAssumption, ScreenInv, [Sessions!Next]_(Sessions!vars)
  PROVE  ScreenShape'
<1>. ScreenShape /\ \E s \in SessionsBounds.Slots : TRUE
  BY DEF ScreenInv, Sessions!ConstantsAssumption
<1>1. CASE Sessions!BackToLogin \/ Sessions!Restart
  BY <1>1, ScreenShut DEF Sessions!BackToLogin
<1>2. CASE Sessions!RetryRegistration
  BY <1>2, ScreenOfCeremonies
<1>3. CASE Sessions!OpenJoin
  BY <1>3 DEF Sessions!OpenJoin, Sessions!joining, ScreenShape, Awaiting
<1>4. CASE Sessions!LogIn \/ Sessions!LoggedIn \/ Sessions!LoginFails
     \/ (\E t \in valid : Sessions!Expire(t))
           \/ (\E j \in Sessions!Joins : Sessions!Decide(j, "approved")
                \/ Sessions!Decide(j, "rejected"))
           \/ UNCHANGED Sessions!vars
  BY <1>4, ScreenRests DEF Sessions!LogIn, Sessions!LoggedIn, Sessions!LoginFails,
       Sessions!Expire, Sessions!Decide, Sessions!vars, Sessions!joining
<1>5. ASSUME NEW s \in SessionsBounds.Slots, \E j \in Sessions!Joins :
             Sessions!Submit(s, j)
      PROVE  ScreenShape'
  BY <1>5, ScreenOfForm
<1>6. ASSUME NEW s \in SessionsBounds.Slots,
             \/ Sessions!SubmitAnswered(s) \/ Sessions!Poll(s)
             \/ Sessions!PollInVain(s) \/ Sessions!PollDecided(s)
             \/ Sessions!Registered(s) \/ Sessions!RegistrationFails(s)
      PROVE  ScreenShape'
  BY <1>6, ScreenOfForm, ScreenOfPolls, ScreenOfCeremonies
<1>7. ASSUME NEW s \in SessionsBounds.Slots,
             Sessions!WriteNickname(s) \/ Sessions!Call(s)
                  \/ (\E code \in {200, 401, 500} : Sessions!Answer(s, code))
      PROVE  ScreenShape'
  BY <1>7, ScreenRests DEF Sessions!WriteNickname, Sessions!Call, Sessions!Answer,
       Sessions!joining
<1>8. ASSUME NEW s \in SessionsBounds.Slots, Sessions!EndWrite(s)
      PROVE  ScreenShape'
  <2>1. CASE Sessions!LeaveJoin
    BY <2>1, ScreenShut
  <2>2. CASE ~Sessions!LeaveJoin
    <3>1. /\ UNCHANGED <<join, submits, polls, ceremonies>>
          /\ screen # "join" \/ screen' = screen
      BY <1>8, <2>2 DEF Sessions!EndWrite, Sessions!joining
    <3>. QED  BY <3>1 DEF ScreenShape, Awaiting
  <2>. QED  BY <2>1, <2>2
<1>. QED  BY <1>1, <1>2, <1>3, <1>4, <1>5, <1>6, <1>7, <1>8 DEF Sessions!Next

\* Who registers was approved, and an approval is final.
LEMMA InvitesApproved ==
  ASSUME ScreenInv, [Sessions!Next]_(Sessions!vars)
  PROVE  used' \subseteq {j \in Sessions!Joins : decided'[j] = "approved"}
<1>. /\ used \subseteq {j \in Sessions!Joins : decided[j] = "approved"}
     /\ decided \in [Sessions!Joins -> {"unsent", "pending", "approved", "rejected"}]
  BY DEF ScreenInv, ScreenTyped, JoinSafe, JoinTyped
<1>1. ASSUME NEW s \in SessionsBounds.Slots, Sessions!Registered(s)
             \/ Sessions!RegistrationFails(s)
      PROVE  used' \subseteq {j \in Sessions!Joins : decided'[j] = "approved"}
  <2>1. /\ ceremonies[s].invite \in Sessions!Joins
        /\ ceremonies[s].invite # Sessions!None
    <3>1. ceremonies[s] \in [invite : Sessions!Joins \cup {Sessions!None}, mounted :
         BOOLEAN]
      BY DEF ScreenInv, JoinSafe, JoinTyped
    <3>2. ceremonies[s].mounted => ceremonies[s].invite # Sessions!None
      BY DEF ScreenInv, ScreenShape
    <3>3. ceremonies[s].invite \in Sessions!Joins
         \/ ceremonies[s] # Sessions!NoCeremony
      BY <1>1 DEF Sessions!Registered, Sessions!RegistrationFails
    <3>. QED  BY <3>1, <3>2, <3>3, NoneOutside DEF Sessions!NoCeremony
  <2>2. decided[ceremonies[s].invite] = "approved"
    BY <2>1 DEF ScreenInv, JoinSafe, JoinTyped
  <2>3. decided' = decided /\ used' \subseteq used \cup {ceremonies[s].invite}
    BY <1>1 DEF Sessions!Registered, Sessions!RegistrationFails
  <2>. QED  BY <2>1, <2>2, <2>3
<1>2. ASSUME NEW j \in Sessions!Joins,
             Sessions!Decide(j, "approved") \/ Sessions!Decide(j, "rejected")
                  \/ \E s \in SessionsBounds.Slots : Sessions!Submit(s, j)
      PROVE  used' \subseteq {i \in Sessions!Joins : decided'[i] = "approved"}
  <2>1. /\ used' = used /\ decided[j] # "approved"
        /\ \E d \in {"pending", "approved", "rejected"} :
             decided' = [decided EXCEPT ![j] = d]
    BY <1>2 DEF Sessions!Decide, Sessions!Submit
  <2>. QED  BY <2>1
<1>3. CASE UNCHANGED <<used, decided>>
  BY <1>3
<1>4. CASE \/ Sessions!OpenJoin \/ Sessions!BackToLogin
           \/ Sessions!RetryRegistration \/ Sessions!LogIn \/ Sessions!LoggedIn
           \/ Sessions!LoginFails \/ Sessions!Restart \/ (\E t \in valid :
                Sessions!Expire(t)) \/ UNCHANGED Sessions!vars
  BY <1>3, <1>4 DEF Sessions!OpenJoin, Sessions!BackToLogin,
       Sessions!RetryRegistration, Sessions!LogIn, Sessions!LoggedIn,
       Sessions!LoginFails, Sessions!Restart, Sessions!Expire, Sessions!vars,
       Sessions!api
<1>5. ASSUME NEW s \in SessionsBounds.Slots,
             \/ Sessions!SubmitAnswered(s) \/ Sessions!Poll(s)
             \/ Sessions!PollInVain(s) \/ Sessions!PollDecided(s)
             \/ Sessions!WriteNickname(s) \/ Sessions!EndWrite(s)
             \/ Sessions!Call(s) \/ (\E code \in {200, 401, 500} :
                  Sessions!Answer(s, code))
      PROVE  used' \subseteq {j \in Sessions!Joins : decided'[j] = "approved"}
  BY <1>3, <1>5 DEF Sessions!SubmitAnswered, Sessions!Poll, Sessions!PollInVain,
       Sessions!PollDecided, Sessions!WriteNickname, Sessions!EndWrite,
       Sessions!Call, Sessions!Answer, Sessions!api
<1>. QED  BY <1>1, <1>2, <1>4, <1>5 DEF Sessions!Next

\* Sessions are granted up to the bound, and a request carries one of them.
LEMMA CallsCarrySessions ==
  ASSUME Sessions!ConstantsAssumption, ScreenInv, [Sessions!Next]_(Sessions!vars)
  PROVE  /\ granted' <= SessionsBounds.MaxTokens
         /\ calls' \in [SessionsBounds.Slots -> 0..granted']
<1>. /\ granted \in Nat /\ SessionsBounds.MaxTokens \in Nat
     /\ granted <= SessionsBounds.MaxTokens
     /\ session \in 0..granted /\ 0 \in 0..granted
     /\ calls \in [SessionsBounds.Slots -> 0..granted]
  BY DEF Sessions!ConstantsAssumption, ScreenInv, ScreenTyped, SessionInv,
       SessionTyped
<1>1. \/ granted' = granted
      \/ granted' = granted + 1 /\ granted < SessionsBounds.MaxTokens
           /\ calls' = calls
  BY DEF Sessions!Next, Sessions!OpenJoin, Sessions!BackToLogin,
       Sessions!RetryRegistration, Sessions!LogIn, Sessions!LoggedIn,
       Sessions!LoginFails, Sessions!Restart, Sessions!Submit, Sessions!Decide,
       Sessions!SubmitAnswered, Sessions!Poll, Sessions!PollInVain,
       Sessions!PollDecided, Sessions!Registered, Sessions!RegistrationFails,
       Sessions!WriteNickname, Sessions!EndWrite, Sessions!Call, Sessions!Answer,
       Sessions!Expire, Sessions!SaveGranted, Sessions!vars, Sessions!api
<1>2. ASSUME NEW s \in SessionsBounds.Slots,
             Sessions!Call(s) \/ (\E code \in {200, 401, 500} :
                  Sessions!Answer(s, code))
      PROVE  calls' \in [SessionsBounds.Slots -> 0..granted]
  BY <1>2 DEF Sessions!Call, Sessions!Answer, Sessions!None
<1>3. ASSUME Sessions!Restart
      PROVE  calls' \in [SessionsBounds.Slots -> 0..granted]
  <2>1. calls' = [s \in SessionsBounds.Slots |-> 0]
    BY <1>3 DEF Sessions!Restart, Sessions!None
  <2>. QED  BY <2>1
<1>4. ASSUME ~Sessions!Restart,
             \A s \in SessionsBounds.Slots : ~Sessions!Call(s)
                  /\ \A code \in {200, 401, 500} : ~Sessions!Answer(s, code)
      PROVE  calls' = calls
  BY <1>4 DEF Sessions!Next, Sessions!OpenJoin, Sessions!BackToLogin,
       Sessions!RetryRegistration, Sessions!LogIn, Sessions!LoggedIn,
       Sessions!LoginFails, Sessions!Submit, Sessions!Decide,
       Sessions!SubmitAnswered, Sessions!Poll, Sessions!PollInVain,
       Sessions!PollDecided, Sessions!Registered, Sessions!RegistrationFails,
       Sessions!WriteNickname, Sessions!EndWrite, Sessions!Expire, Sessions!vars
<1>5. calls' \in [SessionsBounds.Slots -> 0..granted]
  <2>1. CASE calls' = calls
    BY <2>1
  <2>2. CASE calls' # calls
    BY <1>2, <1>3, <1>4, <2>2
  <2>. QED  BY <2>1, <2>2
<1>6. 0..granted \subseteq 0..granted'
  BY <1>1
<1>. QED  BY <1>1, <1>5, <1>6

LEMMA ScreensShown ==
  ASSUME ScreenInv, [Sessions!Next]_(Sessions!vars)
  PROVE  screen' \in {"login", "join", "app"} /\ loggingIn' \in BOOLEAN
<1>. screen \in {"login", "join", "app"} /\ loggingIn \in BOOLEAN
  BY DEF ScreenInv, ScreenTyped
<1>1. ASSUME NEW s \in SessionsBounds.Slots,
             \/ Sessions!SubmitAnswered(s) \/ Sessions!Poll(s)
             \/ Sessions!PollInVain(s) \/ Sessions!PollDecided(s)
             \/ Sessions!Registered(s) \/ Sessions!RegistrationFails(s)
             \/ Sessions!WriteNickname(s) \/ Sessions!Call(s)
             \/ (\E code \in {200, 401, 500} : Sessions!Answer(s, code))
             \/ (\E j \in Sessions!Joins : Sessions!Submit(s, j))
      PROVE  UNCHANGED <<screen, loggingIn>>
  BY <1>1 DEF Sessions!SubmitAnswered, Sessions!Poll, Sessions!PollInVain,
       Sessions!PollDecided, Sessions!Registered, Sessions!RegistrationFails,
       Sessions!WriteNickname, Sessions!Call, Sessions!Answer, Sessions!Submit
<1>2. ASSUME NEW s \in SessionsBounds.Slots, Sessions!EndWrite(s)
      PROVE  screen' \in {"login", "app", screen}
           /\ loggingIn' \in {FALSE, loggingIn}
  BY <1>2 DEF Sessions!EndWrite
<1>3. ASSUME \/ Sessions!OpenJoin \/ Sessions!BackToLogin
             \/ Sessions!RetryRegistration \/ Sessions!LogIn \/ Sessions!LoggedIn
             \/ Sessions!LoginFails \/ Sessions!Restart \/ (\E t \in valid :
                  Sessions!Expire(t)) \/ UNCHANGED Sessions!vars
             \/ (\E j \in Sessions!Joins : Sessions!Decide(j, "approved")
                  \/ Sessions!Decide(j, "rejected"))
      PROVE  /\ screen' \in {"login", "join", "app", screen}
             /\ loggingIn' \in {FALSE, TRUE, loggingIn}
  BY <1>3 DEF Sessions!OpenJoin, Sessions!BackToLogin, Sessions!RetryRegistration,
       Sessions!LogIn, Sessions!LoggedIn, Sessions!LoginFails, Sessions!Restart,
       Sessions!Expire, Sessions!Decide, Sessions!vars
<1>4. CASE \E s \in SessionsBounds.Slots :
              \/ Sessions!SubmitAnswered(s) \/ Sessions!Poll(s)
              \/ Sessions!PollInVain(s) \/ Sessions!PollDecided(s)
              \/ Sessions!Registered(s) \/ Sessions!RegistrationFails(s)
              \/ Sessions!WriteNickname(s) \/ Sessions!Call(s)
              \/ (\E code \in {200, 401, 500} : Sessions!Answer(s, code))
              \/ (\E j \in Sessions!Joins : Sessions!Submit(s, j))
  BY <1>1, <1>4
<1>5. CASE \E s \in SessionsBounds.Slots : Sessions!EndWrite(s)
  BY <1>2, <1>5
<1>6. CASE \/ Sessions!OpenJoin \/ Sessions!BackToLogin
           \/ Sessions!RetryRegistration \/ Sessions!LogIn \/ Sessions!LoggedIn
           \/ Sessions!LoginFails \/ Sessions!Restart \/ (\E t \in valid :
                Sessions!Expire(t)) \/ UNCHANGED Sessions!vars
           \/ (\E j \in Sessions!Joins : Sessions!Decide(j, "approved")
                \/ Sessions!Decide(j, "rejected"))
  BY <1>3, <1>6
<1>. QED  BY <1>4, <1>5, <1>6 DEF Sessions!Next

LEMMA ScreenStep ==
  ASSUME Sessions!ConstantsAssumption, ScreenInv, [Sessions!Next]_(Sessions!vars)
  PROVE  ScreenInv'
<1>1. JoinSafe' /\ SessionInv'
  BY JoinStep, SessionStep DEF ScreenInv
<1>2. ScreenTyped'
  BY InvitesApproved, CallsCarrySessions, ScreensShown DEF ScreenTyped
<1>. QED  BY <1>1, <1>2, ScreenShapeStep DEF ScreenInv

LEMMA ScreenTypes ==
  ASSUME Sessions!ConstantsAssumption, ScreenInv
  PROVE  Sessions!TypeOK
<1>1. Sessions!Joins \cup {Sessions!None} = 0..SessionsBounds.MaxJoins
  BY DEF Sessions!ConstantsAssumption, Sessions!Joins, Sessions!None
<1>2. join \in [phase : JoinPhases, requestId :
     0..SessionsBounds.MaxJoins, inviteToken : 0..SessionsBounds.MaxJoins,
                timers : 0..Cardinality(SessionsBounds.Slots)]
  <2>1. join.timers \in 0..Cardinality(SessionsBounds.Slots)
    BY AwaitingCounted DEF ScreenInv, ScreenShape, JoinSafe, JoinTyped
  <2>. QED  BY <1>1, <2>1 DEF ScreenInv, JoinSafe, JoinTyped
<1>3. granted \in 0..SessionsBounds.MaxTokens
  BY DEF Sessions!ConstantsAssumption, ScreenInv, ScreenTyped, JoinSafe, JoinTyped
<1>4. screen = "join" \/ Sessions!Free(polls, Sessions!None) = SessionsBounds.Slots
  BY DEF ScreenInv, ScreenShape, Sessions!Free
<1>5. \A s \in SessionsBounds.Slots : ceremonies[s] = Sessions!NoCeremony
     \/ decided[ceremonies[s].invite] = "approved"
  BY DEF Sessions!NoCeremony, ScreenInv, ScreenShape, JoinSafe, JoinTyped
<1>6. 0..Sessions!Cardinality(SessionsBounds.Slots) = 0..Cardinality(SessionsBounds.Slots)
  BY SlotSizes
<1>. QED
  BY <1>1, <1>2, <1>3, <1>4, <1>5, <1>6 DEF Sessions!TypeOK, ScreenInv, ScreenTyped,
       JoinSafe, JoinTyped, JoinPhases, SessionInv, SessionTyped

LEMMA ScreenInit ==
  ASSUME Sessions!ConstantsAssumption, Sessions!Init, JoinSafe, SessionInv
  PROVE  ScreenInv
<1>1. Awaiting = {}
  BY DEF Sessions!Init, Awaiting
<1>2. Cardinality(Awaiting) = 0 /\ Cardinality(SessionsBounds.Slots) \in Nat
  BY <1>1, FS_EmptySet, AwaitingCounted
<1>3. ScreenShape
  BY <1>2 DEF Sessions!Init, Sessions!Form, Sessions!NoCeremony, ScreenShape
<1>4. ScreenTyped
  <2>1. /\ granted = 0 /\ calls = [s \in SessionsBounds.Slots |-> 0] /\ used = {}
        /\ screen = "login" /\ loggingIn = FALSE
    BY DEF Sessions!Init, Sessions!None
  <2>2. 0 <= SessionsBounds.MaxTokens /\ 0 \in 0..0
    BY DEF Sessions!ConstantsAssumption
  <2>. QED  BY <2>1, <2>2 DEF ScreenTyped
<1>. QED  BY <1>3, <1>4 DEF ScreenInv

LEMMA SessionTypes ==
  ASSUME Sessions!ConstantsAssumption
  PROVE  Sessions!Spec => []Sessions!TypeOK
<1>1. Sessions!Init => ScreenInv
  BY ScreenInit, JoinInit, SessionInit
<1>2. ScreenInv /\ [Sessions!Next]_(Sessions!vars) => ScreenInv'
  BY ScreenStep
<1>3. ScreenInv => Sessions!TypeOK
  BY ScreenTypes
<1>. QED  BY <1>1, <1>2, <1>3, PTL DEF Sessions!Spec


-----------------------------------------------------------------------------
(* Notifications.  A race that nothing disturbed is either up to date or    *)
(* in the hands of a synchronisation that began with what the list says    *)
(* now: whatever changes the list once more disturbs it.                   *)

\* What undisturbed races that do not notify by themselves can rely on while the
\* app runs: every synchronisation that has them to do is up to date, and without
\* one the notification is that of the list.
Tracked(r) ==
    /\ \A s \in NotificationsBounds.Syncs :
         r \in Notifications!RacesOf(sync[s].todo) =>
          /\ \A e \in sync[s].todo : e[1] = r => e \in listed
          /\ sync[s].lead = settings.lead
    /\ \A s \in NotificationsBounds.Syncs : r \in sync[s].removed =>
         r \notin Notifications!RacesOf(listed)
    /\ (\A s \in NotificationsBounds.Syncs : r \notin Notifications!Touched(s)) =>
          /\ \A e \in listed : e[1] = r =>
                scheduled[r] = [content |-> e[2], lead |-> settings.lead]
          /\ r \notin Notifications!RacesOf(listed) =>
               scheduled[r] = Notifications!Nothing

\* A graded race of the day has its notification, or a synchronisation that makes it.
Covered(r) ==
    r \in Notifications!RacesOf(day) =>
        scheduled[r] # Notifications!Nothing \/ \E s \in NotificationsBounds.Syncs :
             r \in Notifications!RacesOf(sync[s].todo)

NotificationTypes ==
    /\ marked \subseteq NotificationsBounds.Races
    /\ listed \subseteq NotificationsBounds.Races \X (0..1)
    /\ day \subseteq NotificationsBounds.Races \X (0..1)
    /\ content \in [NotificationsBounds.Races -> 0..1]
    /\ settings \in Notifications!Settings
    /\ sync \in [NotificationsBounds.Syncs -> [todo :
         SUBSET (NotificationsBounds.Races \X (0..1)), removed :
              SUBSET NotificationsBounds.Races,
                           lead : 0..1]]
    /\ scheduled \in [NotificationsBounds.Races -> [content : 0..2, lead : 0..1]]

NotificationInv ==
    /\ NotificationTypes
    /\ \A e, f \in listed : e[1] = f[1] => e = f
    /\ app # "running" => listed = {}
    /\ app \in {"closed", "starting"} => \A s \in NotificationsBounds.Syncs :
         Notifications!Touched(s) \subseteq NotificationsBounds.Graded
    /\ app = "running" => dropped \cap Notifications!RacesOf(listed) = {}
    /\ app = "running" =>
          \A r \in NotificationsBounds.Races \ (NotificationsBounds.Graded \cup disturbed \cup dropped \cup past) : Tracked(r)
    /\ \A r \in NotificationsBounds.Graded \ disturbed, s \in NotificationsBounds.Syncs : r \notin sync[s].removed
    /\ \A r \in NotificationsBounds.Graded \ (disturbed \cup past) : Covered(r)

LEMMA TouchedBy ==
  ASSUME NEW s \in NotificationsBounds.Syncs, NEW r
  PROVE  r \in Notifications!Touched(s) <=> (r \in Notifications!RacesOf(sync[s].todo) \/ r \in sync[s].removed)
BY DEF Notifications!Touched, Notifications!RacesOf

LEMMA IdleTouchesNone ==
  ASSUME NEW s \in NotificationsBounds.Syncs, sync[s] = Notifications!IdleSync
  PROVE  sync[s].todo = {} /\ sync[s].removed = {}
       /\ Notifications!RacesOf(sync[s].todo) = {}
BY DEF Notifications!IdleSync, Notifications!RacesOf

\* A synchronisation under way has nothing else to do for a race.
Agrees(t, r, wanted, removed, lead) ==
    /\ r \notin sync[t].removed \ removed
    /\ \A e \in sync[t].todo : e[1] = r => e \in wanted /\ sync[t].lead = lead

\* How a synchronisation of the favourites begins: what another has to do
\* otherwise is disturbed.
Begun(list, before, current, lost) ==
    /\ disturbed \subseteq disturbed' /\ lost \subseteq disturbed'
    /\ Notifications!Removed(before, list) \cap NotificationsBounds.Graded \subseteq disturbed'
    /\ \A r \in Notifications!RacesOf(list \ before) \cup Notifications!Removed(before, list) :
          \/ r \in disturbed'
          \/ \A t \in NotificationsBounds.Syncs :
                Agrees(t, r, list \ before, Notifications!Removed(before, list), current.lead)
    /\ \E s \in NotificationsBounds.Syncs :
          /\ sync[s] = Notifications!IdleSync
          /\ sync' \in [NotificationsBounds.Syncs -> [todo :
               SUBSET (NotificationsBounds.Races \X (0..1)),
                                  removed : SUBSET NotificationsBounds.Races, lead :
                                       0..1]]
          /\ sync'[s].todo \subseteq list \ before
          /\ \A r \in Notifications!RacesOf(list \ before) :
                r \in disturbed' \/ sync'[s].todo = list \ before
          /\ sync'[s].removed = Notifications!Removed(before, list)
          /\ sync'[s].lead = current.lead
          /\ \A t \in NotificationsBounds.Syncs \ {s} : sync'[t] = sync[t]

LEMMA Synchronised ==
  ASSUME NotificationTypes,
         NEW list \in SUBSET (NotificationsBounds.Races \X (0..1)),
         NEW before \in SUBSET (NotificationsBounds.Races \X (0..1)),
              NEW current \in Notifications!Settings, NEW lost,
         Notifications!SyncFavoriteNotifications(list, before, current, lost)
  PROVE  Begun(list, before, current, lost)
<1>. DEFINE allowed == current.notifications /\ current.favorites
            news == IF allowed THEN list \ before ELSE {}
            gone == Notifications!Removed(before, list)
<1>1. /\ news \in SUBSET (NotificationsBounds.Races \X (0..1))
      /\ gone \in SUBSET NotificationsBounds.Races
      /\ current.lead \in 0..1
  BY DEF Notifications!Removed, Notifications!RacesOf, Notifications!Settings
<1>2. /\ Notifications!Starts(news, gone, current.lead)
      /\ disturbed' = disturbed \cup lost
           \cup Notifications!Contested(list \ before, gone, current.lead)
           \cup (gone \cap NotificationsBounds.Graded)
           \cup IF allowed THEN {} ELSE Notifications!RacesOf(list \ before)
  BY DEF Notifications!SyncFavoriteNotifications,
       Notifications!RacesNeedingReschedule
<1>3. ASSUME NEW r \in Notifications!RacesOf(list \ before) \cup gone,
             r \notin disturbed',
             NEW t \in NotificationsBounds.Syncs
      PROVE  Agrees(t, r, list \ before, gone, current.lead)
  <2>1. r \notin Notifications!Contested(list \ before, gone, current.lead)
    BY <1>2, <1>3
  <2>. HIDE DEF gone
  <2>. QED  BY <1>3, <2>1 DEF Notifications!Contested, Agrees
<1>4. PICK s \in NotificationsBounds.Syncs :
        /\ sync[s] = Notifications!IdleSync
        /\ sync' = [sync EXCEPT ![s] = [todo |-> news, removed |-> gone,
                                        lead |-> current.lead]]
  BY <1>2 DEF Notifications!Starts, Notifications!Busy
<1>. HIDE DEF gone
<1>5. \A r \in Notifications!RacesOf(list \ before) : r \in disturbed'
     \/ news = list \ before
  BY <1>2
<1>6. news \subseteq list \ before
  OBVIOUS
<1>7. /\ disturbed \subseteq disturbed' /\ lost \subseteq disturbed'
      /\ gone \cap NotificationsBounds.Graded \subseteq disturbed'
  BY <1>2
<1>. HIDE DEF news, allowed
<1>8. /\ sync' \in [NotificationsBounds.Syncs -> [todo :
           SUBSET (NotificationsBounds.Races \X (0..1)),
                              removed : SUBSET NotificationsBounds.Races, lead :
                                   0..1]]
      /\ sync'[s].todo = news /\ sync'[s].removed = gone
      /\ sync'[s].lead = current.lead
      /\ \A t \in NotificationsBounds.Syncs \ {s} : sync'[t] = sync[t]
  BY <1>1, <1>4 DEF NotificationTypes
<1>. QED  BY <1>3, <1>4, <1>5, <1>6, <1>7, <1>8 DEF gone, Begun

\* What a list of favourites has: one entry of a race.
LEMMA UpcomingListed ==
  ASSUME NotificationTypes
  PROVE  /\ Notifications!Upcoming \in SUBSET (NotificationsBounds.Races \X (0..1))
         /\ \A e, f \in Notifications!Upcoming : e[1] = f[1] => e = f
<1>1. \A r \in marked \ past : r \in NotificationsBounds.Races /\ content[r] \in 0..1
  BY DEF NotificationTypes
<1>2. \A e \in Notifications!Upcoming : e[1] \in marked \ past
     /\ e = <<e[1], content[e[1]]>>
  BY DEF Notifications!Upcoming, Notifications!Entries
<1>. QED  BY <1>1, <1>2

\* What undisturbed races can rely on once the list of favourites is emitted.
LEMMA FavoritesEmitted ==
  ASSUME Notifications!ConstantsAssumption, NotificationInv,
         Notifications!EmitFavorites
  PROVE  NotificationInv'
<1>0. NotificationTypes
  BY DEF NotificationInv
<1>a. PICK list, unlisted, before, current, lost :
        /\ list = Notifications!Upcoming
        /\ unlisted = Notifications!Notified \ Notifications!RacesOf(Notifications!Upcoming)
        /\ before = listed /\ current = settings
        /\ lost = IF app = "starting" THEN unlisted ELSE {}
  OBVIOUS
<1>1. /\ list \in SUBSET (NotificationsBounds.Races \X (0..1))
      /\ \A e, f \in list : e[1] = f[1] => e = f
  BY <1>0, <1>a, UpcomingListed
<1>2. /\ listed' = list /\ app' = "running"
      /\ app \in {"starting", "reloading", "running"}
      /\ UNCHANGED <<marked, content, past, day, settings, scheduled>>
      /\ before \in SUBSET (NotificationsBounds.Races \X (0..1))
      /\ current \in Notifications!Settings
      /\ dropped' = (dropped \ Notifications!RacesOf(list))
                       \cup IF app = "reloading" THEN unlisted ELSE {}
  BY <1>0, <1>a DEF Notifications!EmitFavorites, NotificationTypes
<1>b. Notifications!SyncFavoriteNotifications(list, before, current, lost)
  BY <1>a DEF Notifications!EmitFavorites, Notifications!SyncFavoriteNotifications
<1>c. Begun(list, before, current, lost)
  BY <1>0, <1>1, <1>2, <1>b, Synchronised, Zenon
<1>. DEFINE gone == Notifications!Removed(before, list)
<1>3. /\ disturbed \subseteq disturbed' /\ lost \subseteq disturbed'
      /\ gone \cap NotificationsBounds.Graded \subseteq disturbed'
      /\ \A r \in Notifications!RacesOf(list \ listed) \cup gone :
            \/ r \in disturbed'
            \/ \A t \in NotificationsBounds.Syncs :
                 Agrees(t, r, list \ listed, gone, settings.lead)
  BY <1>a, <1>c DEF Begun
<1>4. PICK s \in NotificationsBounds.Syncs :
        /\ sync[s] = Notifications!IdleSync
        /\ sync' \in [NotificationsBounds.Syncs -> [todo :
             SUBSET (NotificationsBounds.Races \X (0..1)),
                                removed : SUBSET NotificationsBounds.Races, lead :
                                     0..1]]
        /\ sync'[s].todo \subseteq list \ listed
        /\ \A r \in Notifications!RacesOf(list \ listed) :
              r \in disturbed' \/ sync'[s].todo = list \ listed
        /\ sync'[s].removed = gone
        /\ sync'[s].lead = settings.lead
        /\ \A t \in NotificationsBounds.Syncs \ {s} : sync'[t] = sync[t]
  BY <1>a, <1>c DEF Begun
<1>5. sync[s].todo = {} /\ sync[s].removed = {}
     /\ Notifications!RacesOf(sync[s].todo) = {}
  BY <1>4, IdleTouchesNone
<1>6. \A r : r \in gone <=> (r \in Notifications!RacesOf(listed)
     /\ r \notin Notifications!RacesOf(list))
  BY <1>a DEF Notifications!Removed
<1>. HIDE DEF gone
<1>7. ASSUME NEW r \in NotificationsBounds.Races \ (NotificationsBounds.Graded \cup disturbed' \cup dropped' \cup past),
             r \in Notifications!RacesOf(list \ listed) \cup gone
      PROVE  Tracked(r)'
  <2>1. \A t \in NotificationsBounds.Syncs :
       Agrees(t, r, list \ listed, gone, settings.lead)
    BY <1>3, <1>7
  <2>2. r \in Notifications!RacesOf(list \ listed) => sync'[s].todo = list \ listed
    BY <1>4, <1>7
  <2>3. r \in Notifications!RacesOf(sync'[s].todo) \/ r \in sync'[s].removed
    BY <1>4, <1>7, <2>2
  <2>4. r \in Notifications!Touched(s)'
    BY <2>3 DEF Notifications!Touched
  <2>5. \A t \in NotificationsBounds.Syncs : \A e \in sync'[t].todo :
           e[1] = r => e \in list /\ sync'[t].lead = settings.lead
    BY <1>4, <2>1 DEF Agrees
  <2>6. \A t \in NotificationsBounds.Syncs :
       r \in Notifications!RacesOf(sync'[t].todo) => sync'[t].lead = settings.lead
    BY <2>5 DEF Notifications!RacesOf
  <2>7. \A t \in NotificationsBounds.Syncs : r \in sync'[t].removed => r \in gone
    BY <1>4, <2>1 DEF Agrees
  <2>. QED  BY <1>2, <1>4, <1>6, <2>4, <2>5, <2>6, <2>7 DEF Tracked
<1>8. ASSUME NEW r \in NotificationsBounds.Races \ (NotificationsBounds.Graded \cup disturbed' \cup dropped' \cup past),
             r \notin Notifications!RacesOf(list \ listed) \cup gone
      PROVE  Tracked(r)'
  <2>1. r \notin Notifications!RacesOf(sync'[s].todo) /\ r \notin sync'[s].removed
    BY <1>4, <1>8 DEF Notifications!RacesOf
  <2>2. r \notin Notifications!Touched(s)
       /\ \A t \in NotificationsBounds.Syncs \ {s} :
            r \in Notifications!Touched(t)' <=> r \in Notifications!Touched(t)
    BY <1>4, <1>5, TouchedBy DEF Notifications!Touched
  <2>3. CASE app = "running"
    <3>1. Tracked(r)
      <4>1. r \in Notifications!RacesOf(list) => r \in Notifications!RacesOf(listed)
        BY <1>8 DEF Notifications!RacesOf
      <4>2. r \notin dropped
        BY <1>2, <1>8, <2>3, <4>1 DEF NotificationInv
      <4>. QED  BY <1>2, <1>3, <1>8, <2>3, <4>2 DEF NotificationInv
    <3>2. \A e \in list : e[1] = r => e \in listed
      BY <1>8 DEF Notifications!RacesOf
    <3>3. \A e \in listed : e[1] = r => e \in list
      <4>. SUFFICES ASSUME NEW e \in listed, e[1] = r
                    PROVE  e \in list
        OBVIOUS
      <4>1. r \in Notifications!RacesOf(list)
        BY <1>6, <1>8 DEF Notifications!RacesOf
      <4>2. PICK f \in list : f[1] = r
        BY <4>1 DEF Notifications!RacesOf
      <4>3. f \in listed
        BY <3>2, <4>2
      <4>. QED  BY <4>2, <4>3 DEF NotificationInv
    <3>4. r \in Notifications!RacesOf(listed) <=> r \in Notifications!RacesOf(listed')
      BY <1>2, <3>2, <3>3 DEF Notifications!RacesOf
    <3>. QED  BY <1>2, <1>4, <2>1, <2>2, <3>1, <3>2, <3>3, <3>4 DEF Tracked
  <2>4. CASE app \in {"starting", "reloading"}
    <3>1. listed = {}
      BY <2>4 DEF NotificationInv
    <3>2. r \notin Notifications!RacesOf(list)
      BY <1>8, <3>1 DEF Notifications!RacesOf
    <3>3. r \notin unlisted
      BY <1>2, <1>3, <1>8, <1>a, <2>4
    <3>4. scheduled[r] = Notifications!Nothing
         /\ \A t \in NotificationsBounds.Syncs : r \notin Notifications!Touched(t)
      BY <1>8, <1>a, <3>2, <3>3 DEF Notifications!Notified
    <3>5. \A t \in NotificationsBounds.Syncs \ {s} :
         r \notin Notifications!RacesOf(sync[t].todo) /\ r \notin sync[t].removed
      BY <3>4, TouchedBy
    <3>6. \A e \in list : e[1] # r
      BY <3>2 DEF Notifications!RacesOf
    <3>. QED  BY <1>2, <1>4, <2>1, <3>2, <3>4, <3>5, <3>6 DEF Tracked
  <2>. QED  BY <1>2, <2>3, <2>4
<1>9. \A r \in NotificationsBounds.Graded \ disturbed', t \in NotificationsBounds.Syncs : r \notin sync'[t].removed
  <2>. SUFFICES ASSUME NEW r \in NotificationsBounds.Graded \ disturbed',
                       NEW t \in NotificationsBounds.Syncs
                PROVE  r \notin sync'[t].removed
    OBVIOUS
  <2>. QED  BY <1>3, <1>4 DEF NotificationInv
<1>10. \A r \in NotificationsBounds.Graded \ (disturbed' \cup past') : Covered(r)'
  <2>. SUFFICES ASSUME NEW r \in NotificationsBounds.Graded \ (disturbed' \cup past')
                PROVE  Covered(r)'
    OBVIOUS
  <2>1. Covered(r)
    BY <1>2, <1>3 DEF NotificationInv
  <2>. QED  BY <1>2, <1>4, <1>5, <2>1 DEF Covered
<1>11. NotificationTypes'
  BY <1>1, <1>2, <1>4 DEF NotificationInv, NotificationTypes
<1>12. dropped' \cap Notifications!RacesOf(listed') = {}
  BY <1>2, <1>a
<1>. QED  BY <1>1, <1>2, <1>7, <1>8, <1>9, <1>10, <1>11, <1>12 DEF NotificationInv

\* The lead time changes: the favourites listed are scheduled again.
LEMMA LeadChanged ==
  ASSUME NotificationInv, Notifications!ChangeLead
  PROVE  NotificationInv'
<1>0. NotificationTypes
  BY DEF NotificationInv
<1>1. /\ settings' \in Notifications!Settings
      /\ UNCHANGED <<app, marked, content, past, listed, day, scheduled, dropped>>
  BY <1>0 DEF Notifications!ChangeLead, NotificationTypes, Notifications!Settings
<1>2. CASE app # "running"
  <2>1. UNCHANGED <<sync, disturbed>>
    BY <1>2 DEF Notifications!ChangeLead
  <2>. QED  BY <1>1, <1>2, <2>1 DEF NotificationInv, NotificationTypes, Covered,
       Notifications!Touched
<1>3. CASE app = "running"
  <2>a. PICK list, before, current, lost :
           list = listed /\ before = {} /\ current = settings' /\ lost = {}
    OBVIOUS
  <2>b. /\ list \in SUBSET (NotificationsBounds.Races \X (0..1))
        /\ before \in SUBSET (NotificationsBounds.Races \X (0..1))
        /\ current \in Notifications!Settings
    BY <1>0, <1>1, <2>a DEF NotificationTypes
  <2>c. Notifications!SyncFavoriteNotifications(list, before, current, lost)
    BY <1>3, <2>a DEF Notifications!ChangeLead,
         Notifications!SyncFavoriteNotifications
  <2>d. Begun(list, before, current, lost)
    BY <1>0, <2>b, <2>c, Synchronised, Zenon
  <2>1. /\ disturbed \subseteq disturbed' /\ Notifications!Removed(before, list) = {}
        /\ \A r \in Notifications!RacesOf(listed) :
              \/ r \in disturbed'
              \/ \A t \in NotificationsBounds.Syncs :
                   Agrees(t, r, listed, {}, settings'.lead)
    <3>1. Notifications!Removed(before, list) = {} /\ list \ before = listed
      BY <2>a DEF Notifications!Removed, Notifications!RacesOf
    <3>2. Notifications!RacesOf(list \ before) \cup Notifications!Removed(before, list) = Notifications!RacesOf(listed)
      BY <3>1
    <3>3. /\ disturbed \subseteq disturbed'
          /\ \A r \in Notifications!RacesOf(list \ before) \cup Notifications!Removed(before, list) :
                \/ r \in disturbed'
                \/ \A t \in NotificationsBounds.Syncs :
                      Agrees(t, r, list \ before, Notifications!Removed(before, list), current.lead)
      BY <2>d DEF Begun
    <3>4. ASSUME NEW r \in Notifications!RacesOf(listed), r \notin disturbed'
          PROVE  \A t \in NotificationsBounds.Syncs :
               Agrees(t, r, listed, {}, settings'.lead)
      <4>1. \A t \in NotificationsBounds.Syncs :
               Agrees(t, r, list \ before, Notifications!Removed(before, list), current.lead)
        BY <3>2, <3>3, <3>4
      <4>. QED  BY <2>a, <3>1, <4>1 DEF Agrees
    <3>. QED  BY <3>1, <3>3, <3>4
  <2>2. PICK s \in NotificationsBounds.Syncs :
          /\ sync[s] = Notifications!IdleSync
          /\ sync' \in [NotificationsBounds.Syncs -> [todo :
               SUBSET (NotificationsBounds.Races \X (0..1)),
                                  removed : SUBSET NotificationsBounds.Races, lead :
                                       0..1]]
          /\ sync'[s].todo \subseteq listed /\ sync'[s].removed = {}
          /\ \A r \in Notifications!RacesOf(listed) : r \in disturbed'
               \/ sync'[s].todo = listed
          /\ sync'[s].lead = settings'.lead
          /\ \A t \in NotificationsBounds.Syncs \ {s} : sync'[t] = sync[t]
    <3>1. list \ before = listed
      BY <2>a
    <3>. QED  BY <2>1, <2>a, <2>d, <3>1 DEF Begun
  <2>3. sync[s].todo = {} /\ sync[s].removed = {}
       /\ Notifications!RacesOf(sync[s].todo) = {}
    BY <2>2, IdleTouchesNone
  <2>4. ASSUME NEW r \in NotificationsBounds.Races \ (NotificationsBounds.Graded \cup disturbed' \cup dropped' \cup past)
        PROVE  Tracked(r)'
    <3>1. Tracked(r)
      BY <1>1, <1>3, <2>1, <2>4 DEF NotificationInv
    <3>2. CASE r \in Notifications!RacesOf(listed)
      <4>1. \A t \in NotificationsBounds.Syncs :
           Agrees(t, r, listed, {}, settings'.lead)
        BY <2>1, <2>4, <3>2
      <4>2. sync'[s].todo = listed
        BY <2>2, <2>4, <3>2
      <4>3. r \in Notifications!Touched(s)'
        BY <3>2, <4>2 DEF Notifications!Touched
      <4>4. /\ \A t \in NotificationsBounds.Syncs : r \notin sync'[t].removed
            /\ \A t \in NotificationsBounds.Syncs : \A e \in sync'[t].todo :
                  e[1] = r => e \in listed /\ sync'[t].lead = settings'.lead
        BY <2>2, <4>1 DEF Agrees
      <4>5. \A t \in NotificationsBounds.Syncs :
               r \in Notifications!RacesOf(sync'[t].todo) =>
                    sync'[t].lead = settings'.lead
        BY <4>4 DEF Notifications!RacesOf
      <4>. QED  BY <1>1, <2>2, <4>3, <4>4, <4>5 DEF Tracked
    <3>3. CASE r \notin Notifications!RacesOf(listed)
      <4>1. \A e \in listed : e[1] # r
        BY <3>3 DEF Notifications!RacesOf
      <4>2. r \notin Notifications!RacesOf(sync'[s].todo)
        BY <2>2, <4>1 DEF Notifications!RacesOf
      <4>3. \A t \in NotificationsBounds.Syncs \ {s} :
           r \notin Notifications!RacesOf(sync'[t].todo)
        <5>. SUFFICES ASSUME NEW t \in NotificationsBounds.Syncs \ {s},
                             r \in Notifications!RacesOf(sync[t].todo)
                      PROVE  FALSE
          BY <2>2
        <5>1. PICK e \in sync[t].todo : e[1] = r
          BY DEF Notifications!RacesOf
        <5>. QED  BY <3>1, <4>1, <5>1 DEF Tracked
      <4>4. \A t \in NotificationsBounds.Syncs :
           r \in Notifications!Touched(t)' <=> r \in sync'[t].removed
        BY <4>2, <4>3 DEF Notifications!Touched, Notifications!RacesOf
      <4>5. (\A t \in NotificationsBounds.Syncs : r \notin sync'[t].removed) =>
           \A t \in NotificationsBounds.Syncs : r \notin Notifications!Touched(t)
        <5>1. \A t \in NotificationsBounds.Syncs : r \in Notifications!Touched(t) =>
             r \in sync'[t].removed
          BY <2>2, <2>3, <4>3, TouchedBy
        <5>. QED  BY <5>1
      <4>. QED  BY <1>1, <2>2, <2>3, <3>1, <3>3, <4>1, <4>2, <4>3, <4>4, <4>5
           DEF Tracked
    <3>. QED  BY <3>2, <3>3
  <2>5. \A r \in NotificationsBounds.Graded \ disturbed', t \in NotificationsBounds.Syncs : r \notin sync'[t].removed
    BY <2>1, <2>2 DEF NotificationInv
  <2>6. ASSUME NEW r \in NotificationsBounds.Graded \ (disturbed' \cup past')
        PROVE  Covered(r)'
    <3>1. Covered(r)
      BY <1>1, <2>1, <2>6 DEF NotificationInv
    <3>. QED  BY <1>1, <2>2, <2>3, <3>1 DEF Covered
  <2>7. NotificationTypes'
    BY <1>0, <1>1, <2>2 DEF NotificationTypes
  <2>. QED  BY <1>1, <1>3, <2>4, <2>5, <2>6, <2>7 DEF NotificationInv
<1>. QED  BY <1>2, <1>3

\* The races of the day are emitted: only what notifies by itself is scheduled.
LEMMA DayEmitted ==
  ASSUME Notifications!ConstantsAssumption, NotificationInv, Notifications!EmitDay
  PROVE  NotificationInv'
<1>0. NotificationTypes
  BY DEF NotificationInv
<1>. DEFINE news == {e \in day' :
     e[1] \in NotificationsBounds.Graded} \ {e \in day :
          e[1] \in NotificationsBounds.Graded}
<1>1. /\ UNCHANGED <<app, marked, content, past, listed, settings, scheduled, dropped>>
      /\ day' = {<<r, content[r]>> : r \in NotificationsBounds.Races}
           /\ disturbed \subseteq disturbed'
  BY DEF Notifications!EmitDay, Notifications!Entries,
       Notifications!ScheduleAutoGradeNotifications
<1>2. /\ day' \subseteq NotificationsBounds.Races \X (0..1)
      /\ news \subseteq NotificationsBounds.Races \X (0..1)
      /\ Notifications!RacesOf(news) \subseteq NotificationsBounds.Graded
      /\ \A r \in NotificationsBounds.Graded \cap Notifications!RacesOf(day') :
           r \in Notifications!RacesOf(day) \/ r \in Notifications!RacesOf(news)
  <2>1. \A e \in day' : e[1] \in NotificationsBounds.Races
       /\ e = <<e[1], content[e[1]]>>
    BY <1>1
  <2>2. day' \subseteq NotificationsBounds.Races \X (0..1)
    BY <1>0, <2>1 DEF NotificationTypes
  <2>. QED  BY <2>2 DEF Notifications!RacesOf
<1>3. \/ sync' = sync /\ Notifications!RacesOf(news) \subseteq disturbed'
      \/ \E s \in NotificationsBounds.Syncs :
            /\ sync[s] = Notifications!IdleSync
            /\ sync' = [sync EXCEPT ![s] = [todo |-> news, removed |-> {},
                                            lead |-> settings.lead]]
  BY DEF Notifications!EmitDay, Notifications!ScheduleAutoGradeNotifications,
       Notifications!RacesNeedingReschedule, Notifications!Starts,
       Notifications!Busy, Notifications!RacesOf
<1>. HIDE DEF news
<1>4. CASE sync' = sync /\ Notifications!RacesOf(news) \subseteq disturbed'
  <2>1. NotificationTypes'
    BY <1>0, <1>1, <1>2, <1>4 DEF NotificationTypes
  <2>2. \A r \in NotificationsBounds.Races \ (NotificationsBounds.Graded \cup disturbed' \cup dropped' \cup past) : Tracked(r) => Tracked(r)'
    BY <1>1, <1>4 DEF Tracked, Notifications!Touched
  <2>3. \A r \in NotificationsBounds.Graded \ (disturbed' \cup past) : Covered(r) =>
       Covered(r)'
    BY <1>1, <1>2, <1>4 DEF Covered
  <2>. QED  BY <1>1, <1>4, <2>1, <2>2, <2>3 DEF NotificationInv,
       Notifications!Touched
<1>5. ASSUME NEW s \in NotificationsBounds.Syncs, sync[s] = Notifications!IdleSync,
             sync' = [sync EXCEPT ![s] = [todo |-> news, removed |-> {},
                                          lead |-> settings.lead]]
      PROVE  NotificationInv'
  <2>1. /\ sync' \in [NotificationsBounds.Syncs -> [todo :
             SUBSET (NotificationsBounds.Races \X (0..1)),
                                removed : SUBSET NotificationsBounds.Races, lead :
                                     0..1]]
        /\ sync'[s].todo = news /\ sync'[s].removed = {}
        /\ \A t \in NotificationsBounds.Syncs \ {s} : sync'[t] = sync[t]
    BY <1>0, <1>2, <1>5 DEF NotificationTypes, Notifications!Settings
  <2>2. sync[s].todo = {} /\ sync[s].removed = {}
       /\ Notifications!RacesOf(sync[s].todo) = {}
    BY <1>5, IdleTouchesNone
  <2>3. NotificationTypes'
    BY <1>0, <1>1, <1>2, <2>1 DEF NotificationTypes
  <2>4. \A r : r \notin NotificationsBounds.Graded =>
       r \notin Notifications!RacesOf(news)
    BY <1>2
  <2>5. \A r : r \notin NotificationsBounds.Graded =>
       \A t \in NotificationsBounds.Syncs : r \in Notifications!Touched(t)' =>
            r \in Notifications!Touched(t)
    BY <2>1, <2>2, <2>4 DEF Notifications!Touched, Notifications!RacesOf
  <2>6. \A r : r \notin NotificationsBounds.Graded =>
       \A t \in NotificationsBounds.Syncs : r \in Notifications!Touched(t) =>
            r \in Notifications!Touched(t)'
    BY <2>1, <2>2 DEF Notifications!Touched
  <2>7. ASSUME NEW r \in NotificationsBounds.Races \ (NotificationsBounds.Graded \cup disturbed' \cup dropped' \cup past), Tracked(r)
        PROVE  Tracked(r)'
    BY <1>1, <2>1, <2>2, <2>4, <2>5, <2>6, <2>7 DEF Tracked
  <2>8. ASSUME NEW r \in NotificationsBounds.Graded \ (disturbed' \cup past),
               Covered(r)
        PROVE  Covered(r)'
    BY <1>1, <1>2, <2>1, <2>2, <2>8 DEF Covered
  <2>9. /\ app # "running" => listed' = {}
        /\ app \in {"closed", "starting"} => \A t \in NotificationsBounds.Syncs :
             Notifications!Touched(t)' \subseteq NotificationsBounds.Graded
    BY <1>1, <2>5 DEF NotificationInv
  <2>. QED  BY <1>1, <2>1, <2>2, <2>3, <2>7, <2>8, <2>9 DEF NotificationInv
<1>. QED  BY <1>3, <1>4, <1>5

\* One race of a synchronisation is scheduled.
LEMMA RaceScheduled ==
  ASSUME NotificationInv, NEW s \in NotificationsBounds.Syncs,
         Notifications!ScheduleRaceNotification(s)
  PROVE  NotificationInv'
<1>0. NotificationTypes
  BY DEF NotificationInv
<1>1. PICK e \in sync[s].todo :
        /\ sync' = [sync EXCEPT ![s].todo = sync[s].todo \ {e}]
        /\ \/ /\ disturbed' = disturbed
              /\ scheduled' = [scheduled EXCEPT ![e[1]] =
                    IF e[1] \in past THEN Notifications!Nothing
                    ELSE [content |-> e[2], lead |-> sync[s].lead]]
           \/ disturbed' = disturbed \cup {e[1]} /\ scheduled' = scheduled
  BY DEF Notifications!ScheduleRaceNotification, Notifications!Requested
<1>2. UNCHANGED <<app, marked, content, past, listed, day, settings, dropped>>
  BY DEF Notifications!ScheduleRaceNotification
<1>3. /\ e \in NotificationsBounds.Races \X (0..1)
      /\ e[1] \in NotificationsBounds.Races /\ e[2] \in 0..1
      /\ sync[s].lead \in 0..1
      /\ sync[s].todo \in SUBSET (NotificationsBounds.Races \X (0..1))
      /\ sync[s].removed \in SUBSET NotificationsBounds.Races
  BY <1>0, <1>1 DEF NotificationTypes
<1>4. /\ sync' \in [NotificationsBounds.Syncs -> [todo :
           SUBSET (NotificationsBounds.Races \X (0..1)),
                              removed : SUBSET NotificationsBounds.Races, lead :
                                   0..1]]
      /\ sync'[s].todo = sync[s].todo \ {e} /\ sync'[s].removed = sync[s].removed
      /\ sync'[s].lead = sync[s].lead
      /\ \A t \in NotificationsBounds.Syncs \ {s} : sync'[t] = sync[t]
  BY <1>0, <1>1, <1>3 DEF NotificationTypes
<1>5. Notifications!Nothing \in [content : 0..2, lead : 0..1]
     /\ Notifications!Nothing.content = 2
  BY DEF Notifications!Nothing
<1>6. /\ scheduled' \in [NotificationsBounds.Races -> [content : 0..2, lead : 0..1]]
      /\ \A r \in NotificationsBounds.Races \ {e[1]} : scheduled'[r] = scheduled[r]
      /\ disturbed \subseteq disturbed'
      /\ e[1] \in past \cup disturbed' \/ scheduled'[e[1]] = [content |-> e[2],
                                                              lead |-> sync[s].lead]
  <2>1. PICK v : v = IF e[1] \in past THEN Notifications!Nothing
                     ELSE [content |-> e[2], lead |-> sync[s].lead]
    OBVIOUS
  <2>2. v \in [content : 0..2, lead : 0..1]
    BY <1>3, <1>5, <2>1
  <2>3. scheduled \in [NotificationsBounds.Races -> [content : 0..2, lead :
       0..1]] /\ e[1] \in NotificationsBounds.Races
    BY <1>0, <1>3 DEF NotificationTypes
  <2>4. CASE disturbed' = disturbed /\ scheduled' = [scheduled EXCEPT ![e[1]] = v]
    <3>1. /\ scheduled' \in [NotificationsBounds.Races -> [content : 0..2, lead :
               0..1]]
          /\ \A r \in NotificationsBounds.Races \ {e[1]} :
               scheduled'[r] = scheduled[r]
          /\ scheduled'[e[1]] = v
      BY <2>2, <2>3, <2>4
    <3>. QED  BY <2>1, <2>4, <3>1
  <2>5. CASE disturbed' = disturbed \cup {e[1]} /\ scheduled' = scheduled
    BY <2>3, <2>5
  <2>. QED  BY <1>1, <2>1, <2>4, <2>5
<1>7. \A t \in NotificationsBounds.Syncs :
          /\ sync'[t].todo \subseteq sync[t].todo
          /\ sync'[t].removed = sync[t].removed
          /\ sync'[t].lead = sync[t].lead
  BY <1>4
<1>8. \A t \in NotificationsBounds.Syncs : \A r :
     r \in Notifications!RacesOf(sync'[t].todo) =>
          r \in Notifications!RacesOf(sync[t].todo)
  BY <1>7 DEF Notifications!RacesOf
<1>9. \A t \in NotificationsBounds.Syncs : \A r : r # e[1] =>
         (r \in Notifications!RacesOf(sync[t].todo) =>
              r \in Notifications!RacesOf(sync'[t].todo))
  BY <1>4 DEF Notifications!RacesOf
<1>10. ASSUME NEW r \in NotificationsBounds.Races \ (NotificationsBounds.Graded \cup disturbed' \cup dropped' \cup past), Tracked(r)
       PROVE  Tracked(r)'
  <2>1. \A t \in NotificationsBounds.Syncs :
       r \in Notifications!RacesOf(sync'[t].todo) =>
           /\ \A f \in sync'[t].todo : f[1] = r => f \in listed'
           /\ sync'[t].lead = settings'.lead
    BY <1>2, <1>7, <1>8, <1>10 DEF Tracked
  <2>2. CASE r = e[1]
    <3>1. r \in Notifications!RacesOf(sync[s].todo)
      BY <1>1, <2>2 DEF Notifications!RacesOf
    <3>2. e \in listed /\ sync[s].lead = settings.lead
      BY <1>1, <1>10, <2>2, <3>1 DEF Tracked
    <3>3. r \in Notifications!RacesOf(listed)
      BY <2>2, <3>2 DEF Notifications!RacesOf
    <3>4. \A f \in listed : f[1] = r => f = e
      BY <2>2, <3>2 DEF NotificationInv
    <3>5. scheduled'[r] = [content |-> e[2], lead |-> settings.lead]
      BY <1>6, <1>10, <2>2, <3>2
    <3>. QED  BY <1>2, <1>7, <1>10, <2>1, <3>3, <3>4, <3>5 DEF Tracked
  <2>3. CASE r # e[1]
    <3>1. \A t \in NotificationsBounds.Syncs : r \in Notifications!Touched(t) =>
         r \in Notifications!Touched(t)'
      <4>. SUFFICES ASSUME NEW t \in NotificationsBounds.Syncs,
                           r \in Notifications!Touched(t)
                    PROVE  r \in Notifications!Touched(t)'
        OBVIOUS
      <4>1. r \in Notifications!RacesOf(sync'[t].todo) \/ r \in sync'[t].removed
        BY <1>7, <1>9, <2>3, TouchedBy
      <4>. QED  BY <4>1 DEF Notifications!Touched, Notifications!RacesOf
    <3>. QED  BY <1>2, <1>6, <1>7, <1>10, <2>1, <2>3, <3>1 DEF Tracked
  <2>. QED  BY <2>2, <2>3
<1>11. ASSUME NEW r \in NotificationsBounds.Graded \ (disturbed' \cup past),
              Covered(r), r \in NotificationsBounds.Races
       PROVE  Covered(r)'
  <2>1. CASE r = e[1]
    <3>1. scheduled'[r].content \in 0..1
      BY <1>3, <1>6, <1>11, <2>1
    <3>. QED  BY <1>5, <3>1 DEF Covered
  <2>2. CASE r # e[1]
    BY <1>2, <1>6, <1>9, <1>11, <2>2 DEF Covered
  <2>. QED  BY <2>1, <2>2
<1>12. \A r \in NotificationsBounds.Graded \ (disturbed' \cup past) :
     r \notin NotificationsBounds.Races => Covered(r)'
  <2>1. \A r : r \in Notifications!RacesOf(day) => r \in NotificationsBounds.Races
    BY <1>0 DEF NotificationTypes, Notifications!RacesOf
  <2>. QED  BY <1>2, <2>1 DEF Covered
<1>13. \A t \in NotificationsBounds.Syncs : \A r :
     r \in Notifications!Touched(t)' => r \in Notifications!Touched(t)
  BY <1>7 DEF Notifications!Touched, Notifications!RacesOf
<1>14. NotificationTypes'
  BY <1>0, <1>2, <1>4, <1>6 DEF NotificationTypes
<1>15. /\ app' # "running" => listed' = {}
       /\ app' \in {"closed", "starting"} => \A t \in NotificationsBounds.Syncs :
            Notifications!Touched(t)' \subseteq NotificationsBounds.Graded
       /\ app' = "running" => dropped' \cap Notifications!RacesOf(listed') = {}
  BY <1>2, <1>13 DEF NotificationInv
<1>16. /\ \A r \in NotificationsBounds.Races \ (NotificationsBounds.Graded \cup disturbed' \cup dropped' \cup past) :
             app = "running" => Tracked(r)'
       /\ \A r \in NotificationsBounds.Graded \ (disturbed' \cup past) : Covered(r)'
  BY <1>2, <1>6, <1>10, <1>11, <1>12 DEF NotificationInv
<1>. QED  BY <1>2, <1>6, <1>7, <1>14, <1>15, <1>16 DEF NotificationInv

\* One race of a synchronisation is cancelled.
LEMMA RaceCancelled ==
  ASSUME NotificationInv, NEW s \in NotificationsBounds.Syncs,
         Notifications!CancelRaceNotification(s)
  PROVE  NotificationInv'
<1>0. NotificationTypes
  BY DEF NotificationInv
<1>1. PICK q \in sync[s].removed :
        /\ sync' = [sync EXCEPT ![s].removed = sync[s].removed \ {q}]
        /\ \/ /\ disturbed' = disturbed
              /\ scheduled' = [scheduled EXCEPT ![q] = Notifications!Nothing]
           \/ disturbed' = disturbed \cup {q} /\ scheduled' = scheduled
  BY DEF Notifications!CancelRaceNotification, Notifications!Requested
<1>2. UNCHANGED <<app, marked, content, past, listed, day, settings, dropped>>
  BY DEF Notifications!CancelRaceNotification
<1>3. /\ sync[s].todo \in SUBSET (NotificationsBounds.Races \X (0..1))
      /\ sync[s].removed \in SUBSET NotificationsBounds.Races
      /\ sync[s].lead \in 0..1 /\ q \in NotificationsBounds.Races
  BY <1>0, <1>1 DEF NotificationTypes
<1>4. /\ sync' \in [NotificationsBounds.Syncs -> [todo :
           SUBSET (NotificationsBounds.Races \X (0..1)),
                              removed : SUBSET NotificationsBounds.Races, lead :
                                   0..1]]
      /\ sync'[s].todo = sync[s].todo /\ sync'[s].removed = sync[s].removed \ {q}
      /\ sync'[s].lead = sync[s].lead
      /\ \A t \in NotificationsBounds.Syncs \ {s} : sync'[t] = sync[t]
  BY <1>0, <1>1, <1>3 DEF NotificationTypes
<1>5. Notifications!Nothing \in [content : 0..2, lead : 0..1]
  BY DEF Notifications!Nothing
<1>6. /\ scheduled' \in [NotificationsBounds.Races -> [content : 0..2, lead : 0..1]]
      /\ \A r \in NotificationsBounds.Races \ {q} : scheduled'[r] = scheduled[r]
      /\ disturbed \subseteq disturbed'
      /\ q \in disturbed' \/ scheduled'[q] = Notifications!Nothing
  BY <1>0, <1>1, <1>3, <1>5 DEF NotificationTypes
<1>7. \A t \in NotificationsBounds.Syncs :
          /\ sync'[t].todo = sync[t].todo
          /\ sync'[t].removed \subseteq sync[t].removed
          /\ sync'[t].lead = sync[t].lead
  BY <1>4
<1>8. ASSUME NEW r \in NotificationsBounds.Races \ (NotificationsBounds.Graded \cup disturbed' \cup dropped' \cup past), Tracked(r)
      PROVE  Tracked(r)'
  <2>1. CASE r = q
    <3>1. r \notin Notifications!RacesOf(listed)
         /\ scheduled'[r] = Notifications!Nothing
      BY <1>1, <1>6, <1>8, <2>1 DEF Tracked
    <3>2. \A f \in listed : f[1] # r
      BY <3>1 DEF Notifications!RacesOf
    <3>. QED  BY <1>2, <1>7, <1>8, <3>1, <3>2 DEF Tracked
  <2>2. CASE r # q
    <3>1. \A t \in NotificationsBounds.Syncs : r \in Notifications!Touched(t) =>
         r \in Notifications!Touched(t)'
      BY <1>4, <1>7, <2>2 DEF Notifications!Touched
    <3>. QED  BY <1>2, <1>6, <1>7, <1>8, <2>2, <3>1 DEF Tracked
  <2>. QED  BY <2>1, <2>2
<1>9. ASSUME NEW r \in NotificationsBounds.Graded \ (disturbed' \cup past),
             Covered(r)
      PROVE  Covered(r)'
  <2>1. r # q
    BY <1>1, <1>6, <1>9 DEF NotificationInv
  <2>2. r \in Notifications!RacesOf(day) => r \in NotificationsBounds.Races
    BY <1>0 DEF NotificationTypes, Notifications!RacesOf
  <2>. QED  BY <1>2, <1>6, <1>7, <1>9, <2>1, <2>2 DEF Covered
<1>10. \A t \in NotificationsBounds.Syncs : \A r :
     r \in Notifications!Touched(t)' => r \in Notifications!Touched(t)
  BY <1>7 DEF Notifications!Touched, Notifications!RacesOf
<1>11. NotificationTypes'
  BY <1>0, <1>2, <1>4, <1>6 DEF NotificationTypes
<1>12. /\ app' # "running" => listed' = {}
       /\ app' \in {"closed", "starting"} => \A t \in NotificationsBounds.Syncs :
            Notifications!Touched(t)' \subseteq NotificationsBounds.Graded
       /\ app' = "running" => dropped' \cap Notifications!RacesOf(listed') = {}
  BY <1>2, <1>10 DEF NotificationInv
<1>13. /\ \A r \in NotificationsBounds.Races \ (NotificationsBounds.Graded \cup disturbed' \cup dropped' \cup past) :
             app = "running" => Tracked(r)'
       /\ \A r \in NotificationsBounds.Graded \ (disturbed' \cup past) : Covered(r)'
  BY <1>2, <1>6, <1>8, <1>9 DEF NotificationInv
<1>. QED  BY <1>2, <1>6, <1>7, <1>11, <1>12, <1>13 DEF NotificationInv

LEMMA SyncDone ==
  ASSUME NotificationInv, NEW s \in NotificationsBounds.Syncs, Notifications!Done(s)
  PROVE  NotificationInv'
<1>0. NotificationTypes
  BY DEF NotificationInv
<1>1. /\ sync[s].todo = {} /\ sync[s].removed = {}
      /\ sync' = [sync EXCEPT ![s] = Notifications!IdleSync]
      /\ UNCHANGED <<app, marked, content, past, listed, day, settings, scheduled,
                     disturbed, dropped>>
  BY DEF Notifications!Done
<1>2. /\ sync' \in [NotificationsBounds.Syncs -> [todo :
           SUBSET (NotificationsBounds.Races \X (0..1)),
                              removed : SUBSET NotificationsBounds.Races, lead :
                                   0..1]]
      /\ \A t \in NotificationsBounds.Syncs :
             /\ sync'[t].todo = sync[t].todo
             /\ sync'[t].removed = sync[t].removed
             /\ sync'[t].todo # {} => sync'[t].lead = sync[t].lead
  <2>1. /\ Notifications!IdleSync \in [todo :
             SUBSET (NotificationsBounds.Races \X (0..1)), removed :
                  SUBSET NotificationsBounds.Races, lead : 0..1]
        /\ Notifications!IdleSync.todo = {} /\ Notifications!IdleSync.removed = {}
    BY DEF Notifications!IdleSync
  <2>2. /\ sync' \in [NotificationsBounds.Syncs -> [todo :
             SUBSET (NotificationsBounds.Races \X (0..1)),
                                removed : SUBSET NotificationsBounds.Races, lead :
                                     0..1]]
        /\ sync'[s] = Notifications!IdleSync
        /\ \A t \in NotificationsBounds.Syncs \ {s} : sync'[t] = sync[t]
    BY <1>0, <1>1, <2>1 DEF NotificationTypes
  <2>. QED  BY <1>1, <2>1, <2>2
<1>3. \A t \in NotificationsBounds.Syncs : \A r :
     r \in Notifications!Touched(t)' <=> r \in Notifications!Touched(t)
  BY <1>2 DEF Notifications!Touched
<1>4. ASSUME NEW r, Tracked(r)
      PROVE  Tracked(r)'
  <2>1. \A t \in NotificationsBounds.Syncs :
       r \in Notifications!RacesOf(sync'[t].todo) => sync'[t].lead = sync[t].lead
    BY <1>2 DEF Notifications!RacesOf
  <2>. QED  BY <1>1, <1>2, <1>3, <1>4, <2>1 DEF Tracked
<1>5. \A r : Covered(r) => Covered(r)'
  BY <1>1, <1>2 DEF Covered
<1>6. NotificationTypes'
  BY <1>0, <1>1, <1>2 DEF NotificationTypes
<1>7. /\ app' # "running" => listed' = {}
      /\ app' \in {"closed", "starting"} => \A t \in NotificationsBounds.Syncs :
           Notifications!Touched(t)' \subseteq NotificationsBounds.Graded
  BY <1>1, <1>3 DEF NotificationInv
<1>. QED  BY <1>1, <1>2, <1>4, <1>5, <1>6, <1>7 DEF NotificationInv

\* What people, the site and time do.
LEMMA OthersAct ==
  ASSUME Notifications!ConstantsAssumption, NotificationInv,
         \/ Notifications!ToggleFavorite \/ Notifications!WatchPlayer
         \/ Notifications!ReloadFavorites \/ Notifications!LogOut
         \/ Notifications!LogIn
         \/ Notifications!ChangeRace \/ Notifications!Due
         \/ Notifications!LeaveDay \/ Notifications!Close \/ Notifications!Open
         \/ \E option \in NotificationsBounds.Options \ {"lead"} :
              Notifications!Toggle(option)
         \/ UNCHANGED Notifications!vars
  PROVE  NotificationInv'
<1>0. NotificationTypes
  BY DEF NotificationInv
<1>1. CASE \/ Notifications!ToggleFavorite \/ Notifications!WatchPlayer
           \/ Notifications!ReloadFavorites \/ Notifications!LogOut
           \/ Notifications!LogIn
           \/ Notifications!ChangeRace \/ Notifications!LeaveDay
           \/ UNCHANGED Notifications!vars
  <2>1. /\ UNCHANGED <<past, settings, scheduled, sync, disturbed, dropped>>
        /\ day' \subseteq day
        /\ \/ UNCHANGED <<app, listed>>
           \/ listed' = {} /\ app' = IF app = "running" THEN "reloading" ELSE app
    BY <1>1 DEF Notifications!ToggleFavorite, Notifications!WatchPlayer,
         Notifications!ReloadFavorites, Notifications!LogOut, Notifications!LogIn,
         Notifications!ChangeRace, Notifications!LeaveDay, Notifications!Reload,
         Notifications!vars
  <2>2. marked' \subseteq NotificationsBounds.Races
    BY <1>0, <1>1 DEF Notifications!ToggleFavorite, Notifications!WatchPlayer,
         Notifications!ReloadFavorites, Notifications!LogOut, Notifications!LogIn,
         Notifications!ChangeRace, Notifications!LeaveDay, Notifications!vars,
         NotificationTypes
  <2>3. content' \in [NotificationsBounds.Races -> 0..1]
    <3>1. CASE Notifications!ChangeRace
      <4>1. PICK r \in NotificationsBounds.Races :
           content' = [content EXCEPT ![r] = 1 - content[r]]
        BY <3>1 DEF Notifications!ChangeRace
      <4>2. 1 - content[r] \in 0..1
        BY <1>0 DEF NotificationTypes
      <4>. QED  BY <1>0, <4>1, <4>2 DEF NotificationTypes
    <3>2. CASE content' = content
      BY <1>0, <3>2 DEF NotificationTypes
    <3>. QED  BY <1>1, <3>1, <3>2 DEF Notifications!ToggleFavorite,
         Notifications!WatchPlayer, Notifications!ReloadFavorites,
         Notifications!LogOut, Notifications!LogIn, Notifications!LeaveDay,
         Notifications!vars
  <2>4. NotificationTypes'
    BY <1>0, <2>1, <2>2, <2>3 DEF NotificationTypes
  <2>5. listed' = listed => \A r : Tracked(r) => Tracked(r)'
    BY <2>1 DEF Tracked, Notifications!Touched
  <2>6. \A r : Covered(r) => Covered(r)'
    BY <2>1 DEF Covered, Notifications!RacesOf
  <2>7. \A t \in NotificationsBounds.Syncs :
       Notifications!Touched(t)' = Notifications!Touched(t)
    BY <2>1 DEF Notifications!Touched
  <2>8. CASE UNCHANGED <<app, listed>>
    BY <2>1, <2>4, <2>5, <2>6, <2>7, <2>8 DEF NotificationInv
  <2>9. CASE listed' = {} /\ app' = IF app = "running" THEN "reloading" ELSE app
    <3>1. app' # "running" /\ (app' \in {"closed", "starting"} => app' = app)
      BY <2>9
    <3>. QED  BY <2>1, <2>4, <2>6, <2>7, <2>9, <3>1 DEF NotificationInv
  <2>. QED  BY <2>1, <2>8, <2>9
<1>2. CASE Notifications!Due
  <2>1. UNCHANGED <<app, marked, content, listed, day, settings, sync, disturbed, dropped>>
    BY <1>2 DEF Notifications!Due
  <2>2. PICK q \in NotificationsBounds.Races \ past :
          past' = past \cup {q}
               /\ scheduled' = [scheduled EXCEPT ![q] = Notifications!Nothing]
    BY <1>2 DEF Notifications!Due
  <2>3. Notifications!Nothing \in [content : 0..2, lead : 0..1]
    BY DEF Notifications!Nothing
  <2>4. /\ scheduled' \in [NotificationsBounds.Races -> [content : 0..2, lead :
             0..1]]
        /\ \A r \in NotificationsBounds.Races \ {q} : scheduled'[r] = scheduled[r]
    BY <1>0, <2>2, <2>3 DEF NotificationTypes
  <2>5. NotificationTypes'
    BY <1>0, <2>1, <2>4 DEF NotificationTypes
  <2>6. \A r \in NotificationsBounds.Races \ {q} : Tracked(r) => Tracked(r)'
    BY <2>1, <2>4 DEF Tracked, Notifications!Touched
  <2>7. \A r \in NotificationsBounds.Races \ {q} : Covered(r) => Covered(r)'
    BY <2>1, <2>4 DEF Covered
  <2>8. \A t \in NotificationsBounds.Syncs :
       Notifications!Touched(t)' = Notifications!Touched(t)
    BY <2>1 DEF Notifications!Touched
  <2>9. NotificationsBounds.Graded \subseteq NotificationsBounds.Races
    BY DEF Notifications!ConstantsAssumption
  <2>. QED  BY <2>1, <2>2, <2>5, <2>6, <2>7, <2>8, <2>9 DEF NotificationInv
<1>3. CASE \E option \in NotificationsBounds.Options \ {"lead"} :
     Notifications!Toggle(option)
  <2>1. PICK option \in {"notifications", "favorites", "graded"} :
          settings' = [settings EXCEPT ![option] = ~settings[option]]
    BY <1>3 DEF Notifications!Toggle, Notifications!ConstantsAssumption
  <2>2. UNCHANGED <<app, marked, content, past, listed, day, scheduled, sync, disturbed,
                    dropped>>
    BY <1>3 DEF Notifications!Toggle
  <2>3. settings' \in Notifications!Settings /\ settings'.lead = settings.lead
    <3>1. settings \in Notifications!Settings
      BY <1>0 DEF NotificationTypes
    <3>2. CASE option = "notifications"
      BY <2>1, <3>1, <3>2 DEF Notifications!Settings
    <3>3. CASE option = "favorites"
      BY <2>1, <3>1, <3>3 DEF Notifications!Settings
    <3>4. CASE option = "graded"
      BY <2>1, <3>1, <3>4 DEF Notifications!Settings
    <3>. QED  BY <3>2, <3>3, <3>4
  <2>4. NotificationTypes'
    BY <1>0, <2>2, <2>3 DEF NotificationTypes
  <2>5. \A r : Tracked(r) => Tracked(r)'
    BY <2>2, <2>3 DEF Tracked, Notifications!Touched
  <2>6. \A r : Covered(r) => Covered(r)'
    BY <2>2 DEF Covered
  <2>7. \A t \in NotificationsBounds.Syncs :
       Notifications!Touched(t)' = Notifications!Touched(t)
    BY <2>2 DEF Notifications!Touched
  <2>. QED  BY <2>2, <2>4, <2>5, <2>6, <2>7 DEF NotificationInv
<1>4. CASE Notifications!Close
  <2>1. /\ app' = "closed" /\ listed' = {} /\ day' = {}
        /\ sync' = [s \in NotificationsBounds.Syncs |-> Notifications!IdleSync]
        /\ disturbed \subseteq disturbed'
        /\ UNCHANGED <<marked, content, past, settings, scheduled, dropped>>
    BY <1>4 DEF Notifications!Close
  <2>2. /\ Notifications!IdleSync \in [todo :
             SUBSET (NotificationsBounds.Races \X (0..1)), removed :
                  SUBSET NotificationsBounds.Races, lead : 0..1]
        /\ Notifications!IdleSync.todo = {} /\ Notifications!IdleSync.removed = {}
    BY DEF Notifications!IdleSync
  <2>3. /\ sync' \in [NotificationsBounds.Syncs -> [todo :
             SUBSET (NotificationsBounds.Races \X (0..1)),
                                removed : SUBSET NotificationsBounds.Races, lead :
                                     0..1]]
        /\ \A t \in NotificationsBounds.Syncs : sync'[t].todo = {}
             /\ sync'[t].removed = {}
    BY <2>1, <2>2
  <2>4. \A t \in NotificationsBounds.Syncs : Notifications!Touched(t)' = {}
    BY <2>3 DEF Notifications!Touched, Notifications!RacesOf
  <2>5. NotificationTypes'
    BY <1>0, <2>1, <2>3 DEF NotificationTypes
  <2>6. \A r : Covered(r)'
    BY <2>1 DEF Covered, Notifications!RacesOf
  <2>. QED  BY <2>1, <2>3, <2>4, <2>5, <2>6 DEF NotificationInv
<1>5. CASE Notifications!Open
  <2>1. /\ app = "closed" /\ app' = "starting"
        /\ UNCHANGED <<marked, content, past, listed, day, settings, scheduled, sync,
                       disturbed, dropped>>
    BY <1>5 DEF Notifications!Open
  <2>2. NotificationTypes'
    BY <1>0, <2>1 DEF NotificationTypes
  <2>3. \A r : Covered(r) => Covered(r)'
    BY <2>1 DEF Covered
  <2>4. \A t \in NotificationsBounds.Syncs :
       Notifications!Touched(t)' = Notifications!Touched(t)
    BY <2>1 DEF Notifications!Touched
  <2>. QED  BY <2>1, <2>2, <2>3, <2>4 DEF NotificationInv
<1>. QED  BY <1>1, <1>2, <1>3, <1>4, <1>5

LEMMA NotificationStep ==
  ASSUME Notifications!ConstantsAssumption, NotificationInv,
         [Notifications!Next]_(Notifications!vars)
  PROVE  NotificationInv'
<1>1. CASE Notifications!EmitFavorites
  BY <1>1, FavoritesEmitted
<1>2. CASE Notifications!EmitDay
  BY <1>2, DayEmitted
<1>3. ASSUME NEW s \in NotificationsBounds.Syncs,
             Notifications!ScheduleRaceNotification(s)
                  \/ Notifications!CancelRaceNotification(s) \/ Notifications!Done(s)
      PROVE  NotificationInv'
  BY <1>3, RaceScheduled, RaceCancelled, SyncDone
<1>4. CASE Notifications!ChangeLead
  BY <1>4, LeadChanged
<1>5. CASE \/ Notifications!ToggleFavorite \/ Notifications!WatchPlayer
           \/ Notifications!ReloadFavorites \/ Notifications!LogOut
           \/ Notifications!LogIn
           \/ Notifications!ChangeRace \/ Notifications!Due
           \/ Notifications!LeaveDay \/ Notifications!Close \/ Notifications!Open
           \/ \E option \in NotificationsBounds.Options \ {"lead"} :
                Notifications!Toggle(option)
           \/ UNCHANGED Notifications!vars
  BY <1>5, OthersAct
<1>. QED  BY <1>1, <1>2, <1>3, <1>4, <1>5 DEF Notifications!Next

LEMMA NotificationStart ==
  ASSUME Notifications!Init
  PROVE  NotificationInv
<1>1. /\ Notifications!IdleSync \in [todo :
           SUBSET (NotificationsBounds.Races \X (0..1)), removed :
                SUBSET NotificationsBounds.Races, lead : 0..1]
      /\ Notifications!IdleSync.todo = {} /\ Notifications!IdleSync.removed = {}
  BY DEF Notifications!IdleSync
<1>2. Notifications!Nothing \in [content : 0..2, lead : 0..1]
  BY DEF Notifications!Nothing
<1>3. NotificationTypes
  BY <1>1, <1>2 DEF Notifications!Init, NotificationTypes, Notifications!Settings
<1>4. \A t \in NotificationsBounds.Syncs : sync[t].removed = {}
     /\ Notifications!Touched(t) = {}
  BY <1>1 DEF Notifications!Init, Notifications!Touched, Notifications!RacesOf
<1>5. \A r : Covered(r)
  BY DEF Notifications!Init, Covered, Notifications!RacesOf
<1>. QED  BY <1>3, <1>4, <1>5 DEF Notifications!Init, NotificationInv

LEMMA NotificationFollows ==
  ASSUME Notifications!ConstantsAssumption, NotificationInv
  PROVE  Notifications!NotificationsFollowLists
<1>. SUFFICES ASSUME Notifications!Settled
              PROVE  /\ \A r \in NotificationsBounds.Races \ (NotificationsBounds.Graded \cup disturbed \cup dropped \cup past) :
                           Notifications!Follows(r)
                     /\ day = Notifications!Entries(NotificationsBounds.Races) =>
                           \A r \in NotificationsBounds.Graded \ (disturbed \cup past) : scheduled[r] # Notifications!Nothing
  BY DEF Notifications!NotificationsFollowLists
<1>1. /\ app = "running" /\ \A t \in NotificationsBounds.Syncs :
           sync[t] = Notifications!IdleSync
      /\ listed = Notifications!Upcoming
  BY DEF Notifications!Settled, Notifications!Busy
<1>2. \A t \in NotificationsBounds.Syncs : Notifications!Touched(t) = {}
     /\ Notifications!RacesOf(sync[t].todo) = {}
  BY <1>1 DEF Notifications!IdleSync, Notifications!Touched, Notifications!RacesOf
<1>3. ASSUME NEW r \in NotificationsBounds.Races \ (NotificationsBounds.Graded \cup disturbed \cup dropped \cup past)
      PROVE  Notifications!Follows(r)
  <2>1. /\ \A e \in listed : e[1] = r =>
              scheduled[r] = [content |-> e[2], lead |-> settings.lead]
        /\ r \notin Notifications!RacesOf(listed) =>
             scheduled[r] = Notifications!Nothing
    BY <1>1, <1>2 DEF NotificationInv, Tracked
  <2>2. CASE r \in Notifications!RacesOf(Notifications!Upcoming)
    <3>1. PICK e \in listed : e[1] = r
      BY <1>1, <2>2 DEF Notifications!RacesOf
    <3>2. e[2] = content[r]
      BY <1>1, <3>1 DEF Notifications!Upcoming, Notifications!Entries
    <3>. QED  BY <2>1, <2>2, <3>1, <3>2 DEF Notifications!Follows
  <2>. QED  BY <1>1, <2>1, <2>2 DEF Notifications!Follows
<1>4. ASSUME day = Notifications!Entries(NotificationsBounds.Races),
             NEW r \in NotificationsBounds.Graded \ (disturbed \cup past)
      PROVE  scheduled[r] # Notifications!Nothing
  <2>1. r \in Notifications!RacesOf(day)
    <3>1. r \in NotificationsBounds.Races
      BY <1>4 DEF Notifications!ConstantsAssumption
    <3>2. <<r, content[r]>> \in day
      BY <1>4, <3>1 DEF Notifications!Entries
    <3>. QED  BY <3>2 DEF Notifications!RacesOf
  <2>2. Covered(r)
    BY <1>4 DEF NotificationInv
  <2>. QED  BY <1>2, <2>1, <2>2 DEF Covered
<1>. QED  BY <1>3, <1>4

\* What happened so far, and to which races.
HistoryTyped ==
    /\ app \in {"closed", "starting", "reloading", "running"}
    /\ signedIn \in BOOLEAN
    /\ past \subseteq NotificationsBounds.Races
    /\ disturbed \subseteq NotificationsBounds.Races
    /\ dropped \subseteq NotificationsBounds.Races
    /\ events \in 0..NotificationsBounds.MaxEvents

NotificationTyped == NotificationInv /\ HistoryTyped

LEMMA TouchesRaces ==
  ASSUME NotificationTypes, NEW s \in NotificationsBounds.Syncs
  PROVE  Notifications!Touched(s) \subseteq NotificationsBounds.Races
BY DEF NotificationTypes, Notifications!Touched, Notifications!RacesOf

LEMMA ContestsRaces ==
  ASSUME NEW wanted,
         Notifications!RacesOf(wanted) \subseteq NotificationsBounds.Races, NEW removed \in SUBSET NotificationsBounds.Races, NEW lead
  PROVE  Notifications!Contested(wanted, removed, lead) \subseteq NotificationsBounds.Races
BY DEF Notifications!Contested

LEMMA DisturbsRaces ==
  ASSUME Notifications!ConstantsAssumption,
         NEW list \in SUBSET (NotificationsBounds.Races \X (0..1)),
         NEW before \in SUBSET (NotificationsBounds.Races \X (0..1)), NEW current,
              NEW lost \in SUBSET NotificationsBounds.Races,
         disturbed \subseteq NotificationsBounds.Races, Notifications!SyncFavoriteNotifications(list, before, current, lost)
  PROVE  disturbed' \subseteq NotificationsBounds.Races
<1>1. /\ Notifications!RacesOf(list \ before) \subseteq NotificationsBounds.Races
      /\ Notifications!Removed(before, list) \subseteq NotificationsBounds.Races
  BY DEF Notifications!Removed, Notifications!RacesOf
<1>2. Notifications!Contested(list \ before, Notifications!Removed(before, list), current.lead) \subseteq NotificationsBounds.Races
  BY <1>1, ContestsRaces
<1>3. disturbed' \subseteq disturbed \cup lost
         \cup Notifications!Contested(list \ before, Notifications!Removed(before, list), current.lead)
         \cup Notifications!Removed(before, list) \cup Notifications!RacesOf(list \ before)
  <2>. HIDE DEF Notifications!Removed, Notifications!Contested, Notifications!Starts, Notifications!RacesOf
  <2>. QED  BY DEF Notifications!SyncFavoriteNotifications,
       Notifications!RacesNeedingReschedule
<1>. QED  BY <1>1, <1>2, <1>3

\* What the list does not have is a race.
LEMMA NotifiesRaces ==
  ASSUME NotificationTypes
  PROVE  Notifications!Notified \subseteq NotificationsBounds.Races
BY TouchesRaces DEF Notifications!Notified

LEMMA ListsDisturbRaces ==
  ASSUME Notifications!ConstantsAssumption, NotificationTyped,
         Notifications!EmitFavorites \/ Notifications!EmitDay
              \/ Notifications!ChangeLead
  PROVE  disturbed' \subseteq NotificationsBounds.Races
<1>0. /\ disturbed \subseteq NotificationsBounds.Races /\ NotificationTypes
      /\ listed \in SUBSET (NotificationsBounds.Races \X (0..1))
      /\ content \in [NotificationsBounds.Races -> 0..1]
  BY DEF NotificationTyped, NotificationInv, NotificationTypes, HistoryTyped
<1>1. CASE Notifications!EmitFavorites
  <2>1. PICK list, lost :
          /\ list = Notifications!Upcoming
          /\ lost = IF app = "starting" THEN Notifications!Notified \ Notifications!RacesOf(Notifications!Upcoming) ELSE {}
    OBVIOUS
  <2>2. list \in SUBSET (NotificationsBounds.Races \X (0..1))
       /\ lost \in SUBSET NotificationsBounds.Races
    BY <1>0, <2>1, UpcomingListed, NotifiesRaces
  <2>3. Notifications!SyncFavoriteNotifications(list, listed, settings, lost)
    BY <1>1, <2>1 DEF Notifications!EmitFavorites
  <2>. QED  BY <1>0, <2>2, <2>3, DisturbsRaces
<1>2. CASE Notifications!ChangeLead
  <2>1. CASE app = "running"
    <3>1. PICK current, none, lost : current = settings' /\ none = {} /\ lost = {}
      OBVIOUS
    <3>2. Notifications!SyncFavoriteNotifications(listed, none, current, lost)
      BY <1>2, <2>1, <3>1 DEF Notifications!ChangeLead
    <3>3. /\ none \in SUBSET (NotificationsBounds.Races \X (0..1))
          /\ lost \in SUBSET NotificationsBounds.Races
      BY <3>1
    <3>. QED  BY <1>0, <3>2, <3>3, DisturbsRaces
  <2>. QED  BY <1>0, <1>2, <2>1 DEF Notifications!ChangeLead
<1>3. CASE Notifications!EmitDay
  <2>1. PICK list : list = Notifications!Entries(NotificationsBounds.Races)
    OBVIOUS
  <2>2. list \in SUBSET (NotificationsBounds.Races \X (0..1)) /\ day' = list
    BY <1>0, <1>3, <2>1 DEF Notifications!Entries, Notifications!EmitDay
  <2>. DEFINE wanted == Notifications!RacesNeedingReschedule({e \in list :
       e[1] \in NotificationsBounds.Graded},
                                              {e \in day :
                                                   e[1] \in NotificationsBounds.Graded})
  <2>3. Notifications!RacesOf(wanted) \subseteq NotificationsBounds.Races
    BY <2>2 DEF Notifications!RacesNeedingReschedule, Notifications!RacesOf
  <2>4. Notifications!Contested(wanted, {}, settings.lead) \subseteq NotificationsBounds.Races
    BY <2>3, ContestsRaces
  <2>5. \/ disturbed' = disturbed \cup Notifications!Contested(wanted, {}, settings.lead)
        \/ disturbed' = disturbed \cup Notifications!RacesOf(wanted)
    BY <1>3, <2>2 DEF Notifications!EmitDay,
         Notifications!ScheduleAutoGradeNotifications
  <2>. HIDE DEF wanted
  <2>. QED  BY <1>0, <2>3, <2>4, <2>5
<1>. QED  BY <1>1, <1>2, <1>3

LEMMA HistoryStep ==
  ASSUME Notifications!ConstantsAssumption, NotificationTyped,
         [Notifications!Next]_(Notifications!vars)
  PROVE  HistoryTyped'
<1>0. HistoryTyped /\ NotificationTypes /\ NotificationsBounds.MaxEvents \in Nat
  BY DEF NotificationTyped, NotificationInv, Notifications!ConstantsAssumption
<1>1. CASE Notifications!EmitFavorites \/ Notifications!EmitDay
     \/ Notifications!ChangeLead
  <2>1. /\ app' \in {app, "running"} /\ past' = past
        /\ events' \in {events, events + 1} /\ (events' # events =>
             events < NotificationsBounds.MaxEvents)
        /\ signedIn' = signedIn
    BY <1>1 DEF Notifications!EmitFavorites, Notifications!EmitDay,
         Notifications!ChangeLead, Notifications!Event
  <2>2. dropped' \subseteq dropped \cup Notifications!Notified
    BY <1>1 DEF Notifications!EmitFavorites, Notifications!EmitDay,
         Notifications!ChangeLead
  <2>. QED  BY <1>0, <1>1, <2>1, <2>2, ListsDisturbRaces, NotifiesRaces
       DEF HistoryTyped
<1>2. ASSUME NEW s \in NotificationsBounds.Syncs,
             Notifications!ScheduleRaceNotification(s)
                  \/ Notifications!CancelRaceNotification(s) \/ Notifications!Done(s)
      PROVE  HistoryTyped'
  <2>1. \/ UNCHANGED <<events, disturbed>>
        \/ /\ events < NotificationsBounds.MaxEvents /\ events' = events + 1
           /\ \E r \in NotificationsBounds.Races : disturbed' = disturbed \cup {r}
    <3>1. /\ \A e \in sync[s].todo : e[1] \in NotificationsBounds.Races
          /\ \A r \in sync[s].removed : r \in NotificationsBounds.Races
      BY <1>0 DEF NotificationTypes
    <3>2. \/ UNCHANGED <<events, disturbed>>
          \/ \E r \in NotificationsBounds.Races : \E notification :
               Notifications!Requested(r, notification)
      BY <1>2, <3>1 DEF Notifications!ScheduleRaceNotification,
           Notifications!CancelRaceNotification, Notifications!Done
    <3>. QED  BY <3>2 DEF Notifications!Requested, Notifications!Event
  <2>. QED  BY <1>0, <1>2, <2>1 DEF Notifications!ScheduleRaceNotification,
       Notifications!CancelRaceNotification, Notifications!Done, HistoryTyped
<1>3. CASE \/ Notifications!ToggleFavorite \/ Notifications!WatchPlayer
           \/ Notifications!ReloadFavorites \/ Notifications!LogOut
           \/ Notifications!LogIn
           \/ Notifications!ChangeRace \/ Notifications!Due
           \/ Notifications!LeaveDay \/ Notifications!Close \/ Notifications!Open
           \/ \E option \in NotificationsBounds.Options \ {"lead"} :
                Notifications!Toggle(option)
           \/ UNCHANGED Notifications!vars
  <2>1. \/ events' = events
        \/ events < NotificationsBounds.MaxEvents /\ events' = events + 1
    BY <1>3 DEF Notifications!ToggleFavorite, Notifications!WatchPlayer,
         Notifications!ReloadFavorites, Notifications!LogOut, Notifications!LogIn,
         Notifications!ChangeRace, Notifications!Due, Notifications!LeaveDay,
         Notifications!Close, Notifications!Open, Notifications!Toggle,
         Notifications!Event, Notifications!vars
  <2>2. app' \in {app, "closed", "starting", "reloading"}
    BY <1>3 DEF Notifications!ToggleFavorite, Notifications!WatchPlayer,
         Notifications!ReloadFavorites, Notifications!LogOut, Notifications!LogIn,
         Notifications!ChangeRace, Notifications!Due, Notifications!LeaveDay,
         Notifications!Close, Notifications!Open, Notifications!Toggle,
         Notifications!Reload, Notifications!vars
  <2>3. past' \subseteq NotificationsBounds.Races
    BY <1>0, <1>3 DEF Notifications!ToggleFavorite, Notifications!WatchPlayer,
         Notifications!ReloadFavorites, Notifications!LogOut, Notifications!LogIn,
         Notifications!ChangeRace, Notifications!Due, Notifications!LeaveDay,
         Notifications!Close, Notifications!Open, Notifications!Toggle,
         Notifications!vars, HistoryTyped
  <2>4. signedIn' \in BOOLEAN /\ dropped' = dropped
    BY <1>0, <1>3 DEF Notifications!ToggleFavorite, Notifications!WatchPlayer,
         Notifications!ReloadFavorites, Notifications!LogOut, Notifications!LogIn,
         Notifications!ChangeRace, Notifications!Due, Notifications!LeaveDay,
         Notifications!Close, Notifications!Open, Notifications!Toggle,
         Notifications!vars, HistoryTyped
  <2>5. disturbed' \subseteq NotificationsBounds.Races
    <3>1. disturbed' = disturbed
         \/ disturbed' = disturbed \cup UNION {Notifications!Touched(s) :
              s \in NotificationsBounds.Syncs}
      BY <1>3 DEF Notifications!ToggleFavorite, Notifications!WatchPlayer,
           Notifications!ReloadFavorites, Notifications!LogOut, Notifications!LogIn,
           Notifications!ChangeRace, Notifications!Due, Notifications!LeaveDay,
           Notifications!Close, Notifications!Open, Notifications!Toggle,
           Notifications!vars
    <3>. QED  BY <1>0, <3>1, TouchesRaces DEF HistoryTyped
  <2>. QED  BY <1>0, <2>1, <2>2, <2>3, <2>4, <2>5 DEF HistoryTyped
<1>. QED  BY <1>1, <1>2, <1>3 DEF Notifications!Next

LEMMA NotificationTypesHold ==
  ASSUME NotificationTyped
  PROVE  Notifications!TypeOK
<1>1. /\ app \in {"closed", "starting", "reloading", "running"}
      /\ signedIn \in BOOLEAN /\ events \in 0..NotificationsBounds.MaxEvents
      /\ marked \in SUBSET NotificationsBounds.Races
      /\ dropped \in SUBSET NotificationsBounds.Races
      /\ past \in SUBSET NotificationsBounds.Races
      /\ disturbed \in SUBSET NotificationsBounds.Races
      /\ listed \in SUBSET (NotificationsBounds.Races \X (0..1))
      /\ day \in SUBSET (NotificationsBounds.Races \X (0..1))
  BY DEF NotificationTyped, NotificationInv, NotificationTypes, HistoryTyped
<1>. QED  BY <1>1 DEF NotificationTyped, NotificationInv, NotificationTypes,
     Notifications!TypeOK

LEMMA HistoryStart ==
  ASSUME Notifications!ConstantsAssumption, Notifications!Init
  PROVE  HistoryTyped
<1>1. 0 \in 0..NotificationsBounds.MaxEvents
  BY DEF Notifications!ConstantsAssumption
<1>. QED  BY <1>1 DEF Notifications!Init, HistoryTyped

LEMMA NotificationsHold == Notifications!Spec => []NotificationTyped
<1>1. Notifications!ConstantsAssumption
  BY SingleServicesAssumption
<1>2. Notifications!Init => NotificationTyped
  BY <1>1, NotificationStart, HistoryStart DEF NotificationTyped
<1>3. NotificationTyped /\ [Notifications!Next]_(Notifications!vars) => NotificationTyped'
  BY <1>1, NotificationStep, HistoryStep DEF NotificationTyped
<1>. QED  BY <1>2, <1>3, PTL DEF Notifications!Spec

-----------------------------------------------------------------------------
(* The days of a batch.  Both doors take only ranges of days in order, and  *)
(* every kind of step works on all of its range.                           *)

\* The day in Japan of the instant at which a day begins there.
LEMMA DayOfMidnight ==
  ASSUME NEW d \in Int
  PROVE  Dates!JstDay(Dates!JstMidnight(d)) = d
BY DEF Dates!JstDay, Dates!JstMidnight

\* Later days are in later months, or the same.
LEMMA MonthsGrow ==
  ASSUME NEW m \in Nat \ {0}, NEW x \in Int, NEW y \in Int, x <= y
  PROVE  x \div m <= y \div m
OBVIOUS

\* The calendar asks for the day after the last, and gets all of it.
LEMMA CalendarDays ==
  ASSUME NEW x \in Int, NEW y \in Int, x <= y
  PROVE  Dates!RunCalendar(x, y) = x..(y + 1)
<1>1. Dates!EndOfJstDay(Dates!NormalizeValue(y + 1)) = Dates!JstMidnight(y + 2) - 1
  <2>1. Dates!JstDay(Dates!NormalizeValue(y + 1)) = y + 1
    BY DayOfMidnight DEF Dates!NormalizeValue
  <2>. QED  BY <2>1 DEF Dates!EndOfJstDay
<1>. QED  BY <1>1 DEF Dates!RunCalendar, Dates!RaceDays, Dates!NormalizeValue,
     Dates!JstMidnight

\* The places of the days between two are the days.
LEMMA PlacesOfDays ==
  ASSUME NEW near \in SUBSET Int, NEW x \in Int, NEW y \in Int, x..y \subseteq near
  PROVE  Dates!PlaceDays(near, Dates!NormalizeValue(x), Dates!NormalizeValue(y)) = x..y
<1>1. ASSUME NEW d \in Int
      PROVE  Dates!JstMidnight(d) \in Dates!NormalizeValue(x)..Dates!NormalizeValue(y)
             <=> d \in x..y
  BY <1>1 DEF Dates!NormalizeValue, Dates!JstMidnight
<1>. QED  BY <1>1 DEF Dates!PlaceDays

\* Abroad the days of the months of the range are read, which are the range and
\* the rest of its first and last month.
LEMMA AbroadDays ==
  ASSUME Dates!ConstantsAssumption, NEW x \in Int, NEW y \in Int, x <= y
  PROVE  /\ x..y \subseteq Dates!RunRace("overseas", x, y)
         /\ \A d \in Dates!RunRace("overseas", x, y) :
                \E a \in x..y : Dates!Month(a) = Dates!Month(d)
<1>. DEFINE near == (x - DatesBounds.DaysPerMonth)..(y + DatesBounds.DaysPerMonth)
<1>1. DatesBounds.DaysPerMonth \in Nat \ {0}
  BY DEF Dates!ConstantsAssumption
<1>2. Dates!RunRace("overseas", x, y)
        = {d \in near : Dates!Month(d) \in Dates!Month(x)..Dates!Month(y)}
  BY DEF Dates!RunRace
<1>3. \A d \in Int : Dates!Month(d) \in Int
  BY <1>1 DEF Dates!Month
<1>4. \A a, d \in Int : a <= d => Dates!Month(a) <= Dates!Month(d)
  BY <1>1, MonthsGrow DEF Dates!Month
<1>5. ASSUME NEW d \in x..y
      PROVE  d \in near /\ Dates!Month(d) \in Dates!Month(x)..Dates!Month(y)
  BY <1>1, <1>3, <1>4
<1>6. ASSUME NEW d \in near, Dates!Month(d) \in Dates!Month(x)..Dates!Month(y)
      PROVE  \E a \in x..y : Dates!Month(a) = Dates!Month(d)
  <2>0. d \in Int
    BY <1>1
  <2>1. CASE d \in x..y
    BY <2>1
  <2>2. CASE d < x
    <3>1. Dates!Month(d) = Dates!Month(x)
      BY <1>3, <1>4, <1>6, <2>0, <2>2
    <3>. QED  BY <3>1
  <2>3. CASE d > y
    <3>1. Dates!Month(d) = Dates!Month(y)
      BY <1>3, <1>4, <1>6, <2>0, <2>3
    <3>. QED  BY <3>1
  <2>. QED  BY <2>0, <2>1, <2>2, <2>3
<1>. QED  BY <1>2, <1>5, <1>6

\* The days a step works on for a range from x to y, and those it may add.
StepDays(type, target, x, y) ==
    CASE target = "place" -> Dates!Scraped(x, y)
      [] target = "race" -> Dates!RunRace(type, x, y)
      [] OTHER -> Dates!RunCalendar(x, y)

Spared(type, target, x, y) ==
    CASE target = "calendar" -> {y + 1}
      [] target = "race" /\ type = "overseas" ->
             {d \in StepDays(type, target, x, y) :
                 \E a \in x..y : Dates!Month(a) = Dates!Month(d)}
      [] OTHER -> {}

\* Whatever the step, it works on its range and on no other but the spared.
LEMMA StepCovers ==
  ASSUME Dates!ConstantsAssumption, NEW type, NEW target \in Dates!Targets,
         NEW x \in Int, NEW y \in Int, x <= y
  PROVE  /\ x..y \subseteq StepDays(type, target, x, y)
         /\ StepDays(type, target, x, y)
                \subseteq x..y \cup Spared(type, target, x, y)
<1>1. CASE target = "place"
  BY <1>1 DEF StepDays, Dates!Scraped
<1>2. CASE target = "calendar"
  <2>1. StepDays(type, target, x, y) = x..(y + 1)
    BY <1>2, CalendarDays DEF StepDays
  <2>2. Spared(type, target, x, y) = {y + 1}
    BY <1>2 DEF Spared
  <2>. QED  BY <2>1, <2>2
<1>3. CASE target = "race" /\ type = "overseas"
  <2>1. StepDays(type, target, x, y) = Dates!RunRace("overseas", x, y)
    BY <1>3 DEF StepDays
  <2>2. Spared(type, target, x, y)
          = {d \in StepDays(type, target, x, y) :
                 \E a \in x..y : Dates!Month(a) = Dates!Month(d)}
    BY <1>3 DEF Spared
  <2>3. /\ x..y \subseteq Dates!RunRace("overseas", x, y)
        /\ \A d \in Dates!RunRace("overseas", x, y) :
                \E a \in x..y : Dates!Month(a) = Dates!Month(d)
    BY AbroadDays
  <2>. QED  BY <2>1, <2>2, <2>3
<1>4. CASE target = "race" /\ type = "nar"
  BY <1>4 DEF StepDays, Dates!RunRace, Dates!Scraped
<1>5. CASE target = "race" /\ type \notin {"nar", "overseas"}
  <2>. DEFINE near == (x - DatesBounds.DaysPerMonth)..(y + DatesBounds.DaysPerMonth)
  <2>1. near \in SUBSET Int /\ x..y \subseteq near
    BY DEF Dates!ConstantsAssumption
  <2>2. StepDays(type, target, x, y)
          = Dates!PlaceDays(near, Dates!NormalizeValue(x), Dates!NormalizeValue(y))
    BY <1>5 DEF StepDays, Dates!RunRace
  <2>3. StepDays(type, target, x, y) = x..y
    BY <2>1, <2>2, PlacesOfDays
  <2>. QED  BY <2>3
<1>. QED  BY <1>1, <1>2, <1>3, <1>4, <1>5 DEF Dates!Targets

\* The range of every batch is one of days in order, as both doors see to.
RangeInOrder ==
    /\ batch.start \in Int /\ batch.finish \in Int
    /\ batch.door # "cron" => batch.start <= batch.finish

DatesInv ==
    /\ Dates!TypeOK
    /\ RangeInOrder
    /\ Dates!WorksOnAskedDays

LEMMA StepsKnown ==
  ASSUME NEW door, NEW types \in SUBSET DatesBounds.RaceTypes,
         NEW targets \in SUBSET Dates!Targets
  PROVE  Dates!Steps(door, types, targets) \subseteq types \X targets
BY DEF Dates!Steps

\* The limit of the command line is the smallest of its types'.
LEMMA SmallestLimit ==
  ASSUME NEW limits \in SUBSET {10, 35, 390}, limits # {}
  PROVE  LET m == CHOOSE m \in limits : \A l \in limits : m <= l
         IN  m \in limits /\ \A l \in limits : m <= l
<1>1. \E m \in limits : \A l \in limits : m <= l
  <2>0. PICK some \in limits : TRUE
    OBVIOUS
  <2>1. CASE 10 \in limits
    BY <2>1
  <2>2. CASE 10 \notin limits /\ 35 \in limits
    BY <2>2
  <2>3. CASE 10 \notin limits /\ 35 \notin limits
    <3>1. \A l \in limits : l = 390
      BY <2>3
    <3>. QED  BY <2>0, <3>1
  <2>. QED  BY <2>1, <2>2, <2>3
<1>. QED  BY <1>1

LEMMA CliChecksAll ==
  ASSUME NEW types \in SUBSET DatesBounds.RaceTypes, types # {}, NEW target,
         NEW x \in Int, NEW y \in Int
  PROVE  Dates!CliAccepts(types, target, x, y)
         <=> \A type \in types :
                 Dates!ValidateDateRange(x, y, Dates!GetMaxRangeDays(target, type))
<1>. DEFINE limits == {Dates!GetMaxRangeDays(target, type) : type \in types}
            m == CHOOSE m \in limits : \A l \in limits : m <= l
<1>1. \A type \in types : Dates!GetMaxRangeDays(target, type) \in {10, 35, 390}
  BY DEF Dates!GetMaxRangeDays
<1>2. limits \in SUBSET {10, 35, 390} /\ limits # {}
  BY <1>1
<1>3. m \in limits /\ \A l \in limits : m <= l
  BY <1>2, SmallestLimit
<1>4. Dates!CliAccepts(types, target, x, y) <=> Dates!ValidateDateRange(x, y, m)
  BY DEF Dates!CliAccepts
<1>5. m \in Int
  BY <1>2, <1>3
<1>. HIDE DEF m
<1>6. PICK least \in types : m = Dates!GetMaxRangeDays(target, least)
  BY <1>3
<1>7. \A type \in types :
          /\ m <= Dates!GetMaxRangeDays(target, type)
          /\ Dates!GetMaxRangeDays(target, type) \in Int
  BY <1>1, <1>3
<1>. QED  BY <1>4, <1>5, <1>6, <1>7 DEF Dates!ValidateDateRange

\* For all targets the limit of races decides, the smallest of the three.
LEMMA DoorsAlike ==
  ASSUME NEW types \in SUBSET DatesBounds.RaceTypes, types # {},
         NEW target \in Dates!BatchTargets,
         NEW x \in Int, NEW y \in Int
  PROVE  Dates!CliAccepts(types, target, x, y)
         <=> Dates!RouterAccepts(types, Dates!ExpandTargets(target), x, y)
<1>1. CASE target \in Dates!Targets
  BY <1>1, CliChecksAll DEF Dates!RouterAccepts, Dates!ExpandTargets, Dates!Targets
<1>2. CASE target = "all"
  <2>1. \A type \in types :
       Dates!GetMaxRangeDays("all", type) = Dates!GetMaxRangeDays("race", type)
    BY DEF Dates!GetMaxRangeDays
  <2>2. ASSUME NEW type \in types, NEW t \in Dates!Targets,
               Dates!ValidateDateRange(x, y, Dates!GetMaxRangeDays("race", type))
        PROVE  Dates!ValidateDateRange(x, y, Dates!GetMaxRangeDays(t, type))
    BY <2>2 DEF Dates!ValidateDateRange, Dates!GetMaxRangeDays, Dates!Targets
  <2>3. Dates!CliAccepts(types, target, x, y)
        <=> \A type \in types :
                Dates!ValidateDateRange(x, y, Dates!GetMaxRangeDays("race", type))
    BY <1>2, <2>1, CliChecksAll
  <2>4. Dates!RouterAccepts(types, Dates!ExpandTargets(target), x, y)
        <=> \A type \in types, t \in Dates!Targets :
                Dates!ValidateDateRange(x, y, Dates!GetMaxRangeDays(t, type))
    BY <1>2 DEF Dates!RouterAccepts, Dates!ExpandTargets
  <2>5. "race" \in Dates!Targets
    BY DEF Dates!Targets
  <2>. QED  BY <2>2, <2>3, <2>4, <2>5
<1>. QED  BY <1>1, <1>2 DEF Dates!BatchTargets

LEMMA DoorsAgreeAlways == Dates!ConstantsAssumption => Dates!DoorsAgree
<1>. SUFFICES ASSUME Dates!ConstantsAssumption,
                     NEW types \in (SUBSET DatesBounds.RaceTypes) \ {{}},
                     NEW target \in Dates!BatchTargets,
                     NEW range \in DatesBounds.Ranges
              PROVE  Dates!CliAccepts(types, target, range[1], range[2])
                     <=> Dates!RouterAccepts(types, Dates!ExpandTargets(target),
                                       range[1], range[2])
  BY DEF Dates!DoorsAgree
<1>1. range[1] \in Int /\ range[2] \in Int
  BY DEF Dates!ConstantsAssumption
<1>2. types \in SUBSET DatesBounds.RaceTypes /\ types # {}
  OBVIOUS
<1>. QED  BY <1>1, <1>2, DoorsAlike

\* What a door accepts is in order.
LEMMA CliInOrder ==
  ASSUME NEW types, NEW target, NEW x \in Int, NEW y \in Int,
         Dates!CliAccepts(types, target, x, y)
  PROVE  x <= y
<1>1. PICK m : Dates!ValidateDateRange(x, y, m)
  BY DEF Dates!CliAccepts
<1>. QED  BY <1>1 DEF Dates!ValidateDateRange

LEMMA RouterInOrder ==
  ASSUME NEW types, types # {}, NEW targets, targets # {},
         NEW x \in Int, NEW y \in Int, Dates!RouterAccepts(types, targets, x, y)
  PROVE  x <= y
<1>1. PICK type \in types, target \in targets : TRUE
  OBVIOUS
<1>2. Dates!ValidateDateRange(x, y, Dates!GetMaxRangeDays(target, type))
  BY <1>1 DEF Dates!RouterAccepts
<1>. QED  BY <1>2 DEF Dates!ValidateDateRange

\* A batch that begins: nothing is worked on yet.
LEMMA BeginKeeps ==
  ASSUME DatesInv, NEW door \in Dates!Doors,
         NEW types \in SUBSET DatesBounds.RaceTypes,
         NEW targets \in SUBSET Dates!Targets, NEW x \in Int, NEW y \in Int,
         door # "cron" => x <= y, Dates!Begin(door, types, targets, x, y)
  PROVE  DatesInv'
<1>1. /\ batch' = [door |-> door, types |-> types, targets |-> targets,
                   start |-> x, finish |-> y]
      /\ todo' = Dates!Steps(door, types, targets)
      /\ step' = Dates!NoStep /\ instant' = instant
  BY DEF Dates!Begin
<1>2. Dates!WorksOnAskedDays'
  BY <1>1 DEF Dates!WorksOnAskedDays, Dates!NoStep
<1>3. RangeInOrder'
  BY <1>1 DEF RangeInOrder
<1>4. Dates!TypeOK'
  <2>1. todo' \subseteq types \X targets
    BY <1>1, StepsKnown
  <2>2. /\ batch'.door = door /\ batch'.types = types
        /\ batch'.targets = targets
    BY <1>1
  <2>. QED  BY <1>1, <2>1, <2>2 DEF DatesInv, Dates!TypeOK, Dates!NoStep
<1>. QED  BY <1>1, <1>2, <1>3, <1>4 DEF DatesInv

LEMMA DoorsKeep ==
  ASSUME Dates!ConstantsAssumption, DatesInv,
         \/ Dates!Schedule
         \/ \E types \in (SUBSET DatesBounds.RaceTypes) \ {{}},
               range \in DatesBounds.Ranges :
                \/ \E target \in Dates!BatchTargets :
                     Dates!CommandLine(types, target, range)
                \/ \E targets \in (SUBSET Dates!Targets) \ {{}} :
                       Dates!PostBatch(types, targets, range)
  PROVE  DatesInv'
<1>1. CASE Dates!Schedule
  <2>1. Dates!Begin("cron", DatesBounds.RaceTypes, Dates!Targets, instant, instant)
    BY <1>1 DEF Dates!Schedule
  <2>2. instant \in Int /\ "cron" \in Dates!Doors
    BY DEF DatesInv, Dates!TypeOK, Dates!ConstantsAssumption, Dates!Doors
  <2>. QED  BY <2>1, <2>2, BeginKeeps
<1>2. ASSUME NEW types \in (SUBSET DatesBounds.RaceTypes) \ {{}},
             NEW range \in DatesBounds.Ranges,
             NEW target \in Dates!BatchTargets,
             Dates!CommandLine(types, target, range)
      PROVE  DatesInv'
  <2>1. /\ Dates!CliAccepts(types, target, range[1], range[2])
        /\ Dates!Begin("cli", types, Dates!ExpandTargets(target), range[1], range[2])
    BY <1>2 DEF Dates!CommandLine
  <2>2. range[1] \in Int /\ range[2] \in Int
    BY DEF Dates!ConstantsAssumption
  <2>3. Dates!ExpandTargets(target) \in SUBSET Dates!Targets
    BY DEF Dates!ExpandTargets, Dates!BatchTargets
  <2>4. range[1] <= range[2]
    BY <2>1, <2>2, CliInOrder
  <2>5. "cli" \in Dates!Doors
    BY DEF Dates!Doors
  <2>. QED  BY <2>1, <2>2, <2>3, <2>4, <2>5, BeginKeeps
<1>3. ASSUME NEW types \in (SUBSET DatesBounds.RaceTypes) \ {{}},
             NEW range \in DatesBounds.Ranges,
             NEW targets \in (SUBSET Dates!Targets) \ {{}},
             Dates!PostBatch(types, targets, range)
      PROVE  DatesInv'
  <2>1. /\ Dates!RouterAccepts(types, targets, range[1], range[2])
        /\ Dates!Begin("router", types, targets, range[1], range[2])
    BY <1>3 DEF Dates!PostBatch
  <2>2. range[1] \in Int /\ range[2] \in Int
    BY DEF Dates!ConstantsAssumption
  <2>3. range[1] <= range[2]
    BY <2>1, <2>2, RouterInOrder
  <2>4. "router" \in Dates!Doors
    BY DEF Dates!Doors
  <2>. QED  BY <2>1, <2>2, <2>3, <2>4, BeginKeeps
<1>. QED  BY <1>1, <1>2, <1>3

LEMMA RunStepKeeps ==
  ASSUME Dates!ConstantsAssumption, DatesInv, NEW type \in DatesBounds.RaceTypes,
         NEW target \in Dates!Targets, Dates!RunStep(type, target)
  PROVE  DatesInv'
<1>. DEFINE x == Dates!StartDate
            y == Dates!FinishDate(type, target)
<1>1. /\ step' = [type |-> type, target |-> target,
                  days |-> StepDays(type, target, x, y)]
      /\ todo' = todo \ {<<type, target>>}
      /\ UNCHANGED <<instant, batch>>
  BY DEF Dates!RunStep, StepDays
<1>2. x \in Int /\ y \in Int /\ x <= y
  <2>1. CASE batch.door = "cron"
    BY <2>1 DEF DatesInv, RangeInOrder, Dates!StartDate, Dates!FinishDate,
         Dates!ScheduledReach, Dates!JstDay
  <2>2. CASE batch.door # "cron"
    BY <2>2 DEF DatesInv, RangeInOrder, Dates!StartDate, Dates!FinishDate
  <2>. QED  BY <2>1, <2>2
<1>3. Dates!StartDate' = x /\ Dates!FinishDate(type, target)' = y
  BY <1>1 DEF Dates!StartDate, Dates!FinishDate
<1>4. /\ step'.type = type /\ step'.target = target
      /\ step'.days = StepDays(type, target, x, y)
  BY <1>1
<1>5. Dates!WorksOnAskedDays'
  <2>1. /\ x..y \subseteq step'.days
        /\ step'.days
              \subseteq x..y \cup Spared(type, target, x, y)
    <3>. HIDE DEF x, y
    <3>1. /\ x..y \subseteq StepDays(type, target, x, y)
          /\ StepDays(type, target, x, y)
                \subseteq x..y \cup Spared(type, target, x, y)
      BY <1>2, StepCovers
    <3>. QED  BY <1>4, <3>1
  <2>2. /\ Dates!StartDate' = x
        /\ Dates!FinishDate(step.type, step.target)' = y
    BY <1>3, <1>4
  <2>. QED  BY <1>4, <2>1, <2>2 DEF Dates!WorksOnAskedDays, Spared
<1>6. RangeInOrder'
  BY <1>1 DEF DatesInv, RangeInOrder
<1>7. Dates!TypeOK'
  <2>1. <<type, target>> \in todo
    BY DEF Dates!RunStep
  <2>. QED  BY <1>1, <1>4, <2>1 DEF DatesInv, Dates!TypeOK
<1>. QED  BY <1>5, <1>6, <1>7 DEF DatesInv

LEMMA DatesSteps ==
  Dates!ConstantsAssumption /\ DatesInv /\ [Dates!Next]_(Dates!vars) => DatesInv'
<1>. SUFFICES ASSUME Dates!ConstantsAssumption, DatesInv,
                     [Dates!Next]_(Dates!vars) PROVE DatesInv'
  OBVIOUS
<1>1. CASE UNCHANGED Dates!vars
  BY <1>1 DEF Dates!vars, DatesInv, Dates!TypeOK, RangeInOrder,
       Dates!WorksOnAskedDays, Dates!StartDate, Dates!FinishDate
<1>2. CASE Dates!Tick
  BY <1>2 DEF Dates!Tick, Dates!ConstantsAssumption, DatesInv, Dates!TypeOK,
       RangeInOrder, Dates!WorksOnAskedDays, Dates!StartDate, Dates!FinishDate
<1>3. CASE Dates!End
  BY <1>3 DEF Dates!End, Dates!Nobody, Dates!NoStep, DatesInv, Dates!TypeOK,
       RangeInOrder, Dates!WorksOnAskedDays
<1>4. CASE \E type \in DatesBounds.RaceTypes, target \in Dates!Targets :
     Dates!RunStep(type, target)
  BY <1>4, RunStepKeeps
<1>5. CASE \/ Dates!Schedule
           \/ \E types \in (SUBSET DatesBounds.RaceTypes) \ {{}},
                 range \in DatesBounds.Ranges :
                  \/ \E target \in Dates!BatchTargets :
                       Dates!CommandLine(types, target, range)
                  \/ \E targets \in (SUBSET Dates!Targets) \ {{}} :
                         Dates!PostBatch(types, targets, range)
  BY <1>5, DoorsKeep
<1>. QED  BY <1>1, <1>2, <1>3, <1>4, <1>5 DEF Dates!Next

LEMMA DatesStart == Dates!ConstantsAssumption /\ Dates!Init => DatesInv
BY DEF Dates!ConstantsAssumption, Dates!Init, DatesInv, Dates!TypeOK, RangeInOrder,
     Dates!WorksOnAskedDays, Dates!Nobody

LEMMA DatesHold == Dates!Spec => []DatesInv
<1>1. Dates!ConstantsAssumption
  BY SingleServicesAssumption
<1>2. Dates!Init => DatesInv
  BY <1>1, DatesStart
<1>3. DatesInv /\ [Dates!Next]_(Dates!vars) => DatesInv'
  BY <1>1, DatesSteps
<1>. QED  BY <1>2, <1>3, PTL DEF Dates!Spec

LEMMA DateTypes == Dates!Spec => []Dates!TypeOK
<1>1. DatesInv => Dates!TypeOK
  BY DEF DatesInv
<1>. QED  BY <1>1, DatesHold, PTL
=============================================================================
