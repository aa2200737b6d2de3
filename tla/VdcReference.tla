---------------------------- MODULE VdcReference ----------------------------
(***************************************************************************)
(* The reference vDC (examples/vdc-reference.c) and the database wrapper   *)
(* it keeps its scene table in (database.c): processes that are started,   *)
(* stopped by a signal or crash at any time, and share one gdbm file.      *)
(*                                                                         *)
(*   - the process that has the file open for writing holds its lock; for  *)
(*     another one dsvdc_database_open releases its structure and returns  *)
(*     it with DSVDC_OK, so that the first use ends that process;          *)
(*   - dsvdc_work calls the scene and output callbacks, one message at a   *)
(*     time; a record of the file is a tree with one double in it;         *)
(*   - the main loop ends when a signal handler has raised a flag.         *)
(*                                                                         *)
(* The library below is the subject of the other modules: here dsvdc_work  *)
(* returns, with or without having called back.                            *)
(***************************************************************************)
EXTENDS Integers

CONSTANTS
  Processes,    \* runs of the application on one machine
  Nobody,       \* no process
  Calls,        \* bound: the scenes the vdSM calls
  Saves,        \* bound: the scenes the vdSM saves
  OutputValues, \* bound: the values the vdSM sets
  MIN_VALUE, MAX_VALUE, DEC_STEP, INC_STEP,
  NoMessage,    \* no message in hand
  Unset,        \* no record under that key
  Empty,        \* a record without a value
  MayFail       \* the calls that may fail

Scenes == Calls \cup Saves
Failures == {"open", "new", "property", "add", "store", "fetch"}

ASSUME ReferenceAssumption ==
  /\ Nobody \notin Processes
  /\ Scenes \subseteq Int
  /\ MIN_VALUE \in Int /\ MAX_VALUE \in Int /\ 0 \in MIN_VALUE .. MAX_VALUE
  /\ DEC_STEP \in Nat /\ INC_STEP \in Nat
  /\ OutputValues \subseteq MIN_VALUE .. MAX_VALUE
  /\ Unset \notin Int /\ Empty \notin Int /\ Unset # Empty
  /\ MayFail \subseteq Failures

Messages ==
  [type : {"call"}, scene : Calls] \cup [type : {"save"}, scene : Saves]
    \cup [type : {"value"}, channel : {0, 1}, value : OutputValues]

ASSUME NoMessageAssumption == NoMessage \notin Messages

VARIABLES
  pc,       \* where each process is, "down" if it is not running
  db,       \* its database handle: "dead" if it was released
  quit,     \* g_shutdown_flag
  light,    \* g_light_state
  hand,     \* the message its callback was called with
  loaded,   \* the property the callback has loaded or is about to save
  writer,   \* external: the process that holds the lock of the file
  records   \* external: what the file contains

vars == <<pc, db, quit, light, hand, loaded, writer, records>>

Handling == {"handle", "apply", "store"}
Places == {"down", "open", "new", "loop", "work", "exit"} \cup Handling

(* snprintf of an int32_t into ten characters and a terminator: the last   *)
(* digit of the longest negative numbers is lost.                          *)
Key(s) == IF s <= -1000000000 THEN -((-s) \div 10) ELSE s

Keys == {Key(s) : s \in Scenes}

Init ==
  /\ pc = [p \in Processes |-> "down"]
  /\ db = [p \in Processes |-> "none"]
  /\ quit = [p \in Processes |-> FALSE]
  /\ light = [p \in Processes |-> 0]
  /\ hand = [p \in Processes |-> NoMessage]
  /\ loaded = [p \in Processes |-> Unset]
  /\ writer = Nobody
  /\ records = [k \in Keys |-> Unset]

-----------------------------------------------------------------------------
(* Processes *)

Goto(p, place) == pc' = [pc EXCEPT ![p] = place]

(* The memory of a process and its locks end with it, the file stays. *)
Ends(p) ==
  /\ Goto(p, "down")
  /\ db' = [db EXCEPT ![p] = "none"]
  /\ quit' = [quit EXCEPT ![p] = FALSE]
  /\ light' = [light EXCEPT ![p] = 0]
  /\ hand' = [hand EXCEPT ![p] = NoMessage]
  /\ loaded' = [loaded EXCEPT ![p] = Unset]
  /\ writer' = IF writer = p THEN Nobody ELSE writer
  /\ UNCHANGED records

Start(p) ==
  /\ pc[p] = "down"
  /\ Goto(p, "open")
  /\ UNCHANGED <<db, quit, light, hand, loaded, writer, records>>

(* SIGINT or SIGTERM *)
Signal(p) ==
  /\ pc[p] # "down"
  /\ quit' = [quit EXCEPT ![p] = TRUE]
  /\ UNCHANGED <<pc, db, light, hand, loaded, writer, records>>

(* SIGKILL, or a fault anywhere in the process. *)
Crash(p) == pc[p] # "down" /\ Ends(p)

(* Slip: the file is opened without its lock. *)
OpenUnlocked(p) ==
  /\ pc[p] = "open"
  /\ db' = [db EXCEPT ![p] = "open"]
  /\ Goto(p, "new")
  /\ UNCHANGED <<quit, light, hand, loaded, writer, records>>

(* gdbm_open fails if another process has the file open. *)
Open(p) ==
  /\ pc[p] = "open"
  /\ \/ /\ writer = Nobody
        /\ writer' = p
        /\ db' = [db EXCEPT ![p] = "open"]
     \/ /\ writer # Nobody \/ "open" \in MayFail
        /\ db' = [db EXCEPT ![p] = "dead"]
        /\ UNCHANGED writer
  /\ Goto(p, "new")
  /\ UNCHANGED <<quit, light, hand, loaded, records>>

New(p) ==
  /\ pc[p] = "new"
  /\ \/ /\ Goto(p, "loop")
        /\ UNCHANGED <<db, quit, light, hand, loaded, writer, records>>
     \/ "new" \in MayFail /\ Ends(p)

(* Slip: the flag is not looked at. *)
LoopAlways(p) ==
  /\ pc[p] = "loop"
  /\ Goto(p, "work")
  /\ UNCHANGED <<db, quit, light, hand, loaded, writer, records>>

Loop(p) ==
  /\ pc[p] = "loop"
  /\ Goto(p, IF quit[p] THEN "exit" ELSE "work")
  /\ UNCHANGED <<db, quit, light, hand, loaded, writer, records>>

(* Nothing came, or something the scene table has nothing to do with. *)
WorkReturns(p) ==
  /\ pc[p] = "work"
  /\ Goto(p, "loop")
  /\ UNCHANGED <<db, quit, light, hand, loaded, writer, records>>

Deliver(p, m) ==
  /\ pc[p] = "work"
  /\ hand' = [hand EXCEPT ![p] = m]
  /\ Goto(p, "handle")
  /\ UNCHANGED <<db, quit, light, loaded, writer, records>>

(* dsvdc_device_vanished, dsvdc_cleanup, dsvdc_database_close: the last    *)
(* releases a dead handle again, with which the process ends as well.      *)
Exit(p) == pc[p] = "exit" /\ Ends(p)

-----------------------------------------------------------------------------
(* Callbacks *)

Is(p, type) == pc[p] = "handle" /\ hand[p].type = type
Scene(p) == hand[p].scene

(* Slip: the message stays in hand. *)
ReturnsWithout(p) ==
  /\ Goto(p, "loop")
  /\ loaded' = [loaded EXCEPT ![p] = Unset]
  /\ UNCHANGED <<db, quit, hand, writer>>

Returns(p) ==
  /\ Goto(p, "loop")
  /\ hand' = [hand EXCEPT ![p] = NoMessage]
  /\ loaded' = [loaded EXCEPT ![p] = Unset]
  /\ UNCHANGED <<db, quit, writer>>

Dimming == 11 .. 14

(* Slip: the increment is not limited. *)
DimmedOver(l, s) ==
  CASE s = 11 -> IF l - DEC_STEP < MIN_VALUE THEN MIN_VALUE ELSE l - DEC_STEP
    [] s = 12 -> l + INC_STEP
    [] s = 13 -> MIN_VALUE
    [] s = 14 -> MAX_VALUE

Dimmed(l, s) ==
  CASE s = 11 -> IF l - DEC_STEP < MIN_VALUE THEN MIN_VALUE ELSE l - DEC_STEP
    [] s = 12 -> IF l + INC_STEP > MAX_VALUE THEN MAX_VALUE ELSE l + INC_STEP
    [] s = 13 -> MIN_VALUE
    [] s = 14 -> MAX_VALUE

CallDims(p) ==
  /\ Is(p, "call") /\ Scene(p) \in Dimming
  /\ light' = [light EXCEPT ![p] = Dimmed(light[p], Scene(p))]
  /\ Returns(p)
  /\ UNCHANGED records

(* An unknown scene, called or saved.  There is no lower limit. *)
SceneIgnored(p) ==
  /\ Is(p, "call") \/ Is(p, "save")
  /\ Scene(p) > 128
  /\ Returns(p)
  /\ UNCHANGED <<light, records>>

Stored(p) == Scene(p) <= 128 /\ (Is(p, "call") => Scene(p) \notin Dimming)

(* dsvdc_database_load_property *)
CallLoads(p) ==
  /\ Is(p, "call") /\ Stored(p) /\ db[p] = "open"
  /\ records[Key(Scene(p))] # Unset
  /\ loaded' = [loaded EXCEPT ![p] = records[Key(Scene(p))]]
  /\ Goto(p, "apply")
  /\ UNCHANGED <<db, quit, light, hand, writer, records>>

(* The key was not found, or there is no memory for what was. *)
CallLoadsNothing(p) ==
  /\ Is(p, "call") /\ Stored(p) /\ db[p] = "open"
  /\ records[Key(Scene(p))] = Unset \/ "fetch" \in MayFail
  /\ Returns(p)
  /\ UNCHANGED <<light, records>>

(* A record without a value leaves the light as it is. *)
CallApplies(p) ==
  /\ pc[p] = "apply"
  /\ light' = IF loaded[p] = Empty THEN light
              ELSE [light EXCEPT ![p] = loaded[p]]
  /\ Returns(p)
  /\ UNCHANGED records

SaveGivesUp(p) ==
  /\ Is(p, "save") /\ Stored(p)
  /\ "property" \in MayFail
  /\ Returns(p)
  /\ UNCHANGED <<light, records>>

(* The result of dsvdc_property_add_double is not looked at. *)
SavePrepares(p) ==
  /\ Is(p, "save") /\ Stored(p)
  /\ \E content \in {light[p]} \cup (IF "add" \in MayFail THEN {Empty} ELSE {}) :
       loaded' = [loaded EXCEPT ![p] = content]
  /\ Goto(p, "store")
  /\ UNCHANGED <<db, quit, light, hand, writer, records>>

(* dsvdc_database_save_property *)
SaveStores(p) ==
  /\ pc[p] = "store" /\ db[p] = "open"
  /\ \/ records' = [records EXCEPT ![Key(Scene(p))] = loaded[p]]
     \/ "store" \in MayFail /\ UNCHANGED records
  /\ Returns(p)
  /\ UNCHANGED light

(* A callback that works on the released structure: gdbm faults, or finds  *)
(* no file behind what it reads there.                                     *)
UsesDead(p) ==
  /\ db[p] = "dead"
  /\ (Is(p, "call") /\ Stored(p)) \/ pc[p] = "store"
  /\ \/ Ends(p)
     \/ Returns(p) /\ UNCHANGED <<light, records>>

(* There is only one channel. *)
OutputValue(p) ==
  /\ Is(p, "value")
  /\ light' = IF hand[p].channel = 0
                THEN [light EXCEPT ![p] = hand[p].value] ELSE light
  /\ Returns(p)
  /\ UNCHANGED records

-----------------------------------------------------------------------------
Callback(p) ==
  \/ CallDims(p) \/ SceneIgnored(p) \/ CallLoads(p) \/ CallLoadsNothing(p)
  \/ CallApplies(p) \/ SaveGivesUp(p) \/ SavePrepares(p) \/ SaveStores(p)
  \/ UsesDead(p) \/ OutputValue(p)

Run(p) ==
  Open(p) \/ New(p) \/ Loop(p) \/ WorkReturns(p) \/ Callback(p) \/ Exit(p)

Environment(p) ==
  \/ Start(p) \/ Signal(p) \/ Crash(p)
  \/ \E m \in Messages : Deliver(p, m)

Next == \E p \in Processes : Run(p) \/ Environment(p)

Spec == Init /\ [][Next]_vars

(* Every process gets the processor, and dsvdc_work returns.  Nobody has to *)
(* start a process, to stop one or to send anything.                       *)
FairSpec == Spec /\ \A p \in Processes : WF_vars(Run(p))

-----------------------------------------------------------------------------
(* Properties *)

Contents == Int \cup {Unset, Empty}

(* A process has a message in hand exactly while a callback runs, and a     *)
(* callback applies only what it found.                                    *)
TypeOK ==
  /\ pc \in [Processes -> Places]
  /\ db \in [Processes -> {"none", "open", "dead"}]
  /\ quit \in [Processes -> BOOLEAN]
  /\ light \in [Processes -> Int]
  /\ hand \in [Processes -> Messages \cup {NoMessage}]
  /\ \A p \in Processes : hand[p] # NoMessage <=> pc[p] \in Handling
  /\ loaded \in [Processes -> Contents]
  /\ \A p \in Processes : pc[p] = "apply" => loaded[p] # Unset
  /\ writer \in Processes \cup {Nobody}
  /\ records \in [Keys -> Contents]

(* As long as the vdSM sets percentages, the light shows one: dimming stops *)
(* at the ends, and what is recalled is what some light showed, in an      *)
(* earlier process perhaps.                                                *)
LightInRange == \A p \in Processes : light[p] \in MIN_VALUE .. MAX_VALUE

(* dsvdc.h on databases: "we enable the sync flag to protect against       *)
(* corruption".  The scenes saved survive every crash and every second     *)
(* process, and each scene recalls its own value.                          *)
Recalled ==
  [s \in Scenes |-> IF records[Key(s)] = Empty THEN Unset ELSE records[Key(s)]]

Table == INSTANCE SceneTable WITH Initial <- 0, table <- Recalled

SceneTableHolds == Table!Spec

(* "press Ctrl-C to quit": after SIGINT or SIGTERM the process ends.       *)
Stops == \A p \in Processes : quit[p] ~> pc[p] = "down"
=============================================================================
