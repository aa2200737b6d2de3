--------------------------- MODULE SessionContract ---------------------------
(***************************************************************************)
(* What an application may rely on about connections and sessions, taken   *)
(* from the callbacks it registers (new_session, end_session) and from     *)
(* dsvdc_has_session: there is at most one link to a vdSM; a session comes *)
(* up once per link, on a link that was opened without one; it goes down   *)
(* with its link and never before; and a link is replaced only after it was*)
(* dropped.                                                                *)
(***************************************************************************)
CONSTANTS Conns, NoConn

VARIABLES
  link,  \* the open connection or NoConn
  up     \* whether a session exists

Init == link = NoConn /\ up = FALSE

(* A vdSM is accepted; nobody has said HELLO on the new link yet. *)
Open(c) ==
  /\ link = NoConn
  /\ link' = c /\ up' = FALSE

(* The first HELLO on a link. *)
Start ==
  /\ link # NoConn /\ ~up
  /\ up' = TRUE /\ UNCHANGED link

(* BYE, a lost connection or the end of the instance. *)
Drop ==
  /\ link # NoConn
  /\ link' = NoConn /\ up' = FALSE

Next == (\E c \in Conns : Open(c)) \/ Start \/ Drop

Spec == Init /\ [][Next]_<<link, up>>
=============================================================================
