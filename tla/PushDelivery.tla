---------------------------- MODULE PushDelivery ----------------------------
(***************************************************************************)
(* What the Web Push service promises about one notification request,      *)
(* seen from outside: every accepted push is paid for by one registration. *)
(* A user registers a request (POST /push/request) and the service hands   *)
(* at most one accepted push per registration to the push provider,        *)
(* however many cron and manual dispatches overlap, crash or retry.        *)
(***************************************************************************)
EXTENDS Naturals

CONSTANT Requests

VARIABLES registered, accepted

vars == <<registered, accepted>>

Init ==
    /\ registered = [r \in Requests |-> 0]
    /\ accepted = [r \in Requests |-> 0]

Register(r) ==
    /\ registered' = [registered EXCEPT ![r] = @ + 1]
    /\ UNCHANGED accepted

Deliver(r) ==
    /\ accepted[r] < registered[r]
    /\ accepted' = [accepted EXCEPT ![r] = @ + 1]
    /\ UNCHANGED registered

Next == \E r \in Requests : Register(r) \/ Deliver(r)

Spec == Init /\ [][Next]_vars
=============================================================================
