----------------------------- MODULE SceneTable -----------------------------
(***************************************************************************)
(* What a vDC with a scene table promises the user of its light: calling a *)
(* scene brings back the brightness saved last under that scene, whichever *)
(* process saved it and however many have ended or crashed since.  Scenes  *)
(* do not disturb each other.  A message may be ignored, because there is  *)
(* nothing to recall or no memory to do it.                                *)
(***************************************************************************)
EXTENDS Integers

CONSTANTS
  Processes,  \* runs of the application on one machine
  Scenes,     \* scene numbers
  Messages,   \* what the vdSM sends
  NoMessage,  \* no message in hand
  Unset,      \* nothing was saved
  Initial     \* brightness of a light after its process was started

VARIABLES
  table,      \* brightness saved under each scene
  light,      \* brightness of each process's light
  hand        \* the message each process is handling

Darker == {11, 13}    \* decrement, minimum
Brighter == {12, 14}  \* increment, maximum

Init ==
  /\ table = [s \in Scenes |-> Unset]
  /\ light = [p \in Processes |-> Initial]
  /\ hand = [p \in Processes |-> NoMessage]

Receive(p, m) ==
  /\ hand[p] = NoMessage
  /\ hand' = [hand EXCEPT ![p] = m]
  /\ UNCHANGED <<table, light>>

(* The message in hand is of that type, and it has been dealt with. *)
Handles(p, type) ==
  /\ hand[p] # NoMessage /\ hand[p].type = type
  /\ hand' = [hand EXCEPT ![p] = NoMessage]

SaveScene(p) ==
  /\ Handles(p, "save")
  /\ table' = [table EXCEPT ![hand[p].scene] = light[p]]
  /\ UNCHANGED light

CallScene(p) ==
  /\ Handles(p, "call")
  /\ hand[p].scene \notin Darker \cup Brighter
  /\ table[hand[p].scene] # Unset
  /\ light' = [light EXCEPT ![p] = table[hand[p].scene]]
  /\ UNCHANGED table

Dim(p) ==
  /\ Handles(p, "call")
  /\ \/ hand[p].scene \in Darker /\ light'[p] <= light[p]
     \/ hand[p].scene \in Brighter /\ light'[p] >= light[p]
  /\ light' = [light EXCEPT ![p] = light'[p]]
  /\ UNCHANGED table

SetOutput(p) ==
  /\ Handles(p, "value")
  /\ light' = [light EXCEPT ![p] = hand[p].value]
  /\ UNCHANGED table

Ignore(p) ==
  /\ hand[p] # NoMessage
  /\ hand' = [hand EXCEPT ![p] = NoMessage]
  /\ UNCHANGED <<table, light>>

(* A process ends or is started again. *)
Restart(p) ==
  /\ light' = [light EXCEPT ![p] = Initial]
  /\ hand' = [hand EXCEPT ![p] = NoMessage]
  /\ UNCHANGED table

Step(p) ==
  \/ \E m \in Messages : Receive(p, m)
  \/ SaveScene(p) \/ CallScene(p) \/ Dim(p) \/ SetOutput(p) \/ Ignore(p)
  \/ Restart(p)

Next == \E p \in Processes : Step(p)

Spec == Init /\ [][Next]_<<table, light, hand>>
=============================================================================
