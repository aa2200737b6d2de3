--------------------------- MODULE AnnounceContract ---------------------------
(***************************************************************************)
(* What dsvdc_announce_container and dsvdc_announce_device promise their   *)
(* caller (dsvdc.h): a call either fails, and then its confirmation        *)
(* callback never runs, or returns OK, and then the callback runs once.    *)
(***************************************************************************)
CONSTANT Calls

VARIABLE promise  \* what each call has been promised so far

Init == promise = [n \in Calls |-> "pending"]

(* The call returns an error. *)
Fail(n) ==
  /\ promise[n] = "pending"
  /\ promise' = [promise EXCEPT ![n] = "failed"]

(* The call returns DSVDC_OK. *)
Accept(n) ==
  /\ promise[n] = "pending"
  /\ promise' = [promise EXCEPT ![n] = "accepted"]

(* The confirmation callback, with whatever code. *)
Confirm(n) ==
  /\ promise[n] = "accepted"
  /\ promise' = [promise EXCEPT ![n] = "confirmed"]

Next == \E n \in Calls : Fail(n) \/ Accept(n) \/ Confirm(n)

Spec == Init /\ [][Next]_promise

(* Every accepted call is confirmed in the end. *)
FairSpec == Spec /\ \A n \in Calls : WF_promise(Confirm(n))
=============================================================================
