--------------------------- MODULE ServiceContract ---------------------------
(***************************************************************************)
(* What a vdSM may rely on when it browses for _ds-vdc._tcp services of a  *)
(* machine: a service is published only by a process that listens, with    *)
(* the port it listens on; it is withdrawn before the port is given up;    *)
(* and no two processes listen on one port.                                *)
(***************************************************************************)
EXTENDS Integers

CONSTANTS Instances, Labels

VARIABLES
  listener, \* the port each instance listens on, or 0
  service   \* its published service as <<label, port>>, or <<>>

Init ==
  /\ listener = [i \in Instances |-> 0]
  /\ service = [i \in Instances |-> <<>>]

Listen(i) ==
  /\ listener[i] = 0
  /\ listener'[i] \in Nat \ ({0} \cup {listener[j] : j \in Instances})
  /\ listener' = [listener EXCEPT ![i] = listener'[i]]
  /\ UNCHANGED service

Publish(i) ==
  /\ listener[i] # 0 /\ service[i] = <<>>
  /\ service'[i] \in Labels \X {listener[i]}
  /\ service' = [service EXCEPT ![i] = service'[i]]
  /\ UNCHANGED listener

(* One service, or all of them when the daemon ends. *)
Withdraw ==
  /\ \E gone \in SUBSET Instances :
       service' = [i \in Instances |-> IF i \in gone THEN <<>> ELSE service[i]]
  /\ UNCHANGED listener

Close(i) ==
  /\ service[i] = <<>>
  /\ listener' = [listener EXCEPT ![i] = 0]
  /\ UNCHANGED service

Next ==
  \/ \E i \in Instances : Listen(i) \/ Publish(i) \/ Close(i)
  \/ Withdraw

Spec == Init /\ [][Next]_<<listener, service>>
=============================================================================
