------------------------ MODULE VdcReference_proofs ------------------------
(***************************************************************************)
(* Proofs about VdcReference, for any number of processes, any scenes and  *)
(* any range of the light.                                                 *)
(***************************************************************************)
EXTENDS VdcReference, TLAPS

Values == MIN_VALUE .. MAX_VALUE

LEMMA HandKinds ==
  ASSUME NEW m \in Messages
  PROVE  /\ m # NoMessage
         /\ m.type \in {"call", "save", "value"}
         /\ m.type \in {"call", "save"} => m.scene \in Scenes
         /\ m.type = "value" => m.value \in Values
BY ReferenceAssumption, NoMessageAssumption DEF Messages, Scenes, Values

LEMMA KeysOfScenes == \A s \in Scenes : Key(s) \in Keys
BY DEF Keys

-----------------------------------------------------------------------------
(* Every variable keeps its type: a process has a message in hand exactly   *)
(* while it handles one.                                                   *)

LEMMA TypeInit == Init => TypeOK
BY ReferenceAssumption DEF Init, TypeOK, Places, Handling, Contents

LEMMA TypeEnds ==
  ASSUME TypeOK, NEW p \in Processes, Ends(p)
  PROVE  TypeOK'
BY ReferenceAssumption DEF TypeOK, Ends, Goto, Places, Handling, Contents

LEMMA TypeReturns ==
  ASSUME TypeOK, NEW p \in Processes, Returns(p),
         light' \in [Processes -> Int], records' \in [Keys -> Contents]
  PROVE  TypeOK'
BY ReferenceAssumption DEF TypeOK, Returns, Goto, Places, Handling, Contents

LEMMA TypeStep ==
  ASSUME TypeOK, [Next]_vars
  PROVE  TypeOK'
<1>1. CASE UNCHANGED vars
  BY <1>1 DEF vars, TypeOK
<1>2. ASSUME NEW p \in Processes, Run(p)
      PROVE  TypeOK'
  <2>1. CASE Open(p)
    BY <2>1 DEF Open, Goto, TypeOK, Places, Handling
  <2>2. CASE New(p)
    <3>1. CASE Ends(p)
      BY <3>1, TypeEnds
    <3>2. CASE ~ Ends(p)
      BY <2>2, <3>2 DEF New, Goto, TypeOK, Places, Handling
    <3>3. QED BY <3>1, <3>2
  <2>3. CASE Loop(p)
    BY <2>3 DEF Loop, Goto, TypeOK, Places, Handling
  <2>4. CASE WorkReturns(p)
    BY <2>4 DEF WorkReturns, Goto, TypeOK, Places, Handling
  <2>5. CASE Exit(p)
    BY <2>5, TypeEnds DEF Exit
  <2>6. CASE Callback(p)
    <3>1. CASE CallDims(p)
      <4>1. Dimmed(light[p], Scene(p)) \in Int
        BY <3>1, ReferenceAssumption DEF CallDims, Dimming, Dimmed, TypeOK
      <4>2. QED
        BY <3>1, <4>1, TypeReturns DEF CallDims, TypeOK
    <3>2. CASE SceneIgnored(p)
      BY <3>2, TypeReturns DEF SceneIgnored, TypeOK
    <3>3. CASE CallLoads(p)
      <4>1. Scene(p) \in Scenes
        BY <3>3, HandKinds
        DEF CallLoads, Is, Scene, TypeOK, Handling
      <4>2. records[Key(Scene(p))] \in Contents
        BY <4>1, KeysOfScenes DEF TypeOK
      <4>3. QED
        BY <3>3, <4>2
        DEF CallLoads, Is, Goto, TypeOK, Places, Handling
    <3>4. CASE CallLoadsNothing(p)
      BY <3>4, TypeReturns DEF CallLoadsNothing, TypeOK
    <3>5. CASE CallApplies(p)
      <4>1. loaded[p] = Empty \/ loaded[p] \in Int
        BY <3>5 DEF CallApplies, TypeOK, Contents
      <4>2. QED
        BY <3>5, <4>1, TypeReturns DEF CallApplies, TypeOK
    <3>6. CASE SaveGivesUp(p)
      BY <3>6, TypeReturns DEF SaveGivesUp, TypeOK
    <3>7. CASE SavePrepares(p)
      BY <3>7
      DEF SavePrepares, Is, Goto, TypeOK, Places, Handling, Contents
    <3>8. CASE SaveStores(p)
      BY <3>8, TypeReturns DEF SaveStores, TypeOK
    <3>9. CASE UsesDead(p)
      BY <3>9, TypeReturns, TypeEnds DEF UsesDead, TypeOK
    <3>10. CASE OutputValue(p)
      <4>1. hand[p].value \in Int
        BY <3>10, HandKinds, ReferenceAssumption
        DEF OutputValue, Is, TypeOK, Handling, Values
      <4>2. QED
        BY <3>10, <4>1, TypeReturns DEF OutputValue, TypeOK
    <3>11. QED
      BY <2>6, <3>1, <3>2, <3>3, <3>4, <3>5, <3>6, <3>7, <3>8, <3>9, <3>10
      DEF Callback
  <2>7. QED
    BY <1>2, <2>1, <2>2, <2>3, <2>4, <2>5, <2>6 DEF Run
<1>3. ASSUME NEW p \in Processes, Environment(p)
      PROVE  TypeOK'
  <2>1. CASE Start(p)
    BY <2>1 DEF Start, Goto, TypeOK, Places, Handling
  <2>2. CASE Signal(p)
    BY <2>2 DEF Signal, TypeOK
  <2>3. CASE Crash(p)
    BY <2>3, TypeEnds DEF Crash
  <2>4. ASSUME NEW m \in Messages, Deliver(p, m)
        PROVE  TypeOK'
    BY <2>4, NoMessageAssumption
    DEF Deliver, Goto, TypeOK, Places, Handling
  <2>5. QED
    BY <1>3, <2>1, <2>2, <2>3, <2>4 DEF Environment
<1>4. QED
  BY <1>1, <1>2, <1>3 DEF Next

(* In every reachable state the variables have their types. *)
THEOREM ReferenceTypes == Spec => []TypeOK
<1>1. QED
  BY TypeInit, TypeStep, PTL DEF Spec

-----------------------------------------------------------------------------
(* The light and every copy of its value are in range.                     *)

Copies == Values \cup {Unset, Empty}

Ranges ==
  /\ \A p \in Processes : light[p] \in Values
  /\ \A p \in Processes : loaded[p] \in Copies
  /\ \A k \in Keys : records[k] \in Copies

LEMMA RangesInit == Init => Ranges
BY ReferenceAssumption DEF Init, Ranges, Copies, Values

LEMMA RangesEnds ==
  ASSUME TypeOK, Ranges, NEW p \in Processes, Ends(p)
  PROVE  Ranges'
BY ReferenceAssumption DEF TypeOK, Ranges, Ends, Goto, Copies, Values

LEMMA RangesReturns ==
  ASSUME TypeOK, Ranges, NEW p \in Processes, Returns(p),
         \A q \in Processes : light'[q] \in Values,
         \A k \in Keys : records'[k] \in Copies
  PROVE  Ranges'
BY ReferenceAssumption DEF TypeOK, Ranges, Returns, Goto, Copies

LEMMA RangesStep ==
  ASSUME TypeOK, Ranges, [Next]_vars
  PROVE  Ranges'
<1>1. CASE UNCHANGED vars
  BY <1>1 DEF vars, Ranges
<1>2. ASSUME NEW p \in Processes, Run(p)
      PROVE  Ranges'
  <2>1. CASE Open(p)
    BY <2>1 DEF Open, Goto, TypeOK, Ranges
  <2>2. CASE New(p)
    <3>1. CASE Ends(p)
      BY <3>1, RangesEnds
    <3>2. CASE ~ Ends(p)
      BY <2>2, <3>2 DEF New, Goto, TypeOK, Ranges
    <3>3. QED BY <3>1, <3>2
  <2>3. CASE Loop(p)
    BY <2>3 DEF Loop, Goto, TypeOK, Ranges
  <2>4. CASE WorkReturns(p)
    BY <2>4 DEF WorkReturns, Goto, TypeOK, Ranges
  <2>5. CASE Exit(p)
    BY <2>5, RangesEnds DEF Exit
  <2>6. CASE Callback(p)
    <3>1. CASE CallDims(p)
      <4>1. Dimmed(light[p], Scene(p)) \in Values
        BY <3>1, ReferenceAssumption
        DEF CallDims, Dimming, Dimmed, Ranges, Values
      <4>2. \A q \in Processes : light'[q] \in Values
        BY <3>1, <4>1 DEF CallDims, TypeOK, Ranges
      <4>3. QED
        BY <3>1, <4>2, RangesReturns DEF CallDims, Ranges
    <3>2. CASE SceneIgnored(p)
      BY <3>2, RangesReturns DEF SceneIgnored, Ranges
    <3>3. CASE CallLoads(p)
      <4>1. Scene(p) \in Scenes
        BY <3>3, HandKinds
        DEF CallLoads, Is, Scene, TypeOK, Handling
      <4>2. records[Key(Scene(p))] \in Copies
        BY <4>1, KeysOfScenes DEF Ranges
      <4>3. QED
        BY <3>3, <4>2 DEF CallLoads, Goto, TypeOK, Ranges
    <3>4. CASE CallLoadsNothing(p)
      BY <3>4, RangesReturns DEF CallLoadsNothing, Ranges
    <3>5. CASE CallApplies(p)
      <4>1. loaded[p] = Empty \/ loaded[p] \in Values
        BY <3>5 DEF CallApplies, TypeOK, Ranges, Copies
      <4>2. \A q \in Processes : light'[q] \in Values
        BY <3>5, <4>1 DEF CallApplies, TypeOK, Ranges
      <4>3. QED
        BY <3>5, <4>2, RangesReturns DEF CallApplies, Ranges
    <3>6. CASE SaveGivesUp(p)
      BY <3>6, RangesReturns DEF SaveGivesUp, Ranges
    <3>7. CASE SavePrepares(p)
      <4>1. PICK content \in {light[p], Empty} :
              loaded' = [loaded EXCEPT ![p] = content]
        BY <3>7 DEF SavePrepares
      <4>2. QED
        BY <3>7, <4>1 DEF SavePrepares, Goto, TypeOK, Ranges, Copies
    <3>8. CASE SaveStores(p)
      <4>1. \A k \in Keys : records'[k] \in Copies
        BY <3>8 DEF SaveStores, TypeOK, Ranges
      <4>2. QED
        BY <3>8, <4>1, RangesReturns DEF SaveStores, Ranges
    <3>9. CASE UsesDead(p)
      BY <3>9, RangesReturns, RangesEnds DEF UsesDead, Ranges
    <3>10. CASE OutputValue(p)
      <4>1. hand[p].value \in Values
        BY <3>10, HandKinds
        DEF OutputValue, Is, TypeOK, Handling
      <4>2. \A q \in Processes : light'[q] \in Values
        BY <3>10, <4>1 DEF OutputValue, TypeOK, Ranges
      <4>3. QED
        BY <3>10, <4>2, RangesReturns DEF OutputValue, Ranges
    <3>11. QED
      BY <2>6, <3>1, <3>2, <3>3, <3>4, <3>5, <3>6, <3>7, <3>8, <3>9, <3>10
      DEF Callback
  <2>7. QED
    BY <1>2, <2>1, <2>2, <2>3, <2>4, <2>5, <2>6 DEF Run
<1>3. ASSUME NEW p \in Processes, Environment(p)
      PROVE  Ranges'
  <2>1. CASE Start(p)
    BY <2>1 DEF Start, Goto, TypeOK, Ranges
  <2>2. CASE Signal(p)
    BY <2>2 DEF Signal, Ranges
  <2>3. CASE Crash(p)
    BY <2>3, RangesEnds DEF Crash
  <2>4. ASSUME NEW m \in Messages, Deliver(p, m)
        PROVE  Ranges'
    BY <2>4 DEF Deliver, Goto, TypeOK, Ranges
  <2>5. QED
    BY <1>3, <2>1, <2>2, <2>3, <2>4 DEF Environment
<1>4. QED
  BY <1>1, <1>2, <1>3 DEF Next

(* Whatever is dimmed, set, saved and recalled, in whichever order and by  *)
(* however many processes, and whatever fails: the light stays in range.   *)
THEOREM LightStaysInRange == Spec => []LightInRange
<1>1. TypeOK /\ Ranges => LightInRange
  BY DEF Ranges, Values, LightInRange
<1>2. QED
  BY <1>1, TypeInit, TypeStep, RangesInit, RangesStep, PTL DEF Spec

-----------------------------------------------------------------------------
(* The scene table: only the process that has the lock works on the file,  *)
(* so that a callback applies what the file still contains, and stores     *)
(* what its light shows.                                                   *)

Coherent ==
  /\ \A p \in Processes : db[p] = "open" => writer = p
  /\ \A p \in Processes :
       pc[p] = "apply" =>
         /\ db[p] = "open"
         /\ hand[p].type = "call" /\ Scene(p) \notin Dimming
         /\ loaded[p] = records[Key(Scene(p))]
  /\ \A p \in Processes :
       pc[p] = "store" => hand[p].type = "save" /\ loaded[p] = light[p]
  /\ \A p \in Processes : loaded[p] # Empty
  /\ \A k \in Keys : records[k] # Empty

LEMMA CoherentInit == Init => Coherent
BY ReferenceAssumption DEF Init, Coherent

LEMMA CoherentEnds ==
  ASSUME TypeOK, Coherent, NEW p \in Processes, Ends(p)
  PROVE  Coherent'
BY ReferenceAssumption
DEF TypeOK, Coherent, Scene, Ends, Goto

LEMMA CoherentReturns ==
  ASSUME TypeOK, Coherent, NEW p \in Processes, Returns(p),
         light' \in [Processes -> Int],
         \A q \in Processes : q # p => light'[q] = light[q],
         UNCHANGED records
  PROVE  Coherent'
BY ReferenceAssumption
DEF TypeOK, Coherent, Scene, Returns, Goto

LEMMA CoherentStores ==
  ASSUME TypeOK, Coherent, NEW p \in Processes, SaveStores(p)
  PROVE  Coherent'
<1>1. \A q \in Processes : q # p => pc[q] # "apply"
  BY DEF Coherent, SaveStores
<1>2. \A k \in Keys : records'[k] # Empty
  BY DEF SaveStores, TypeOK, Coherent
<1>3. QED
  BY <1>1, <1>2, ReferenceAssumption
  DEF TypeOK, Coherent, Scene, SaveStores, Returns, Goto

LEMMA CoherentStep ==
  ASSUME "add" \notin MayFail, TypeOK, Coherent, [Next]_vars
  PROVE  Coherent'
<1>1. CASE UNCHANGED vars
  BY <1>1 DEF vars, Coherent, Scene
<1>2. ASSUME NEW p \in Processes, Run(p)
      PROVE  Coherent'
  <2>1. CASE Open(p)
    BY <2>1, ReferenceAssumption DEF Open, Goto, TypeOK, Coherent, Scene
  <2>2. CASE New(p)
    <3>1. CASE Ends(p)
      BY <3>1, CoherentEnds
    <3>2. CASE ~ Ends(p)
      BY <2>2, <3>2 DEF New, Goto, TypeOK, Coherent, Scene
    <3>3. QED BY <3>1, <3>2
  <2>3. CASE Loop(p)
    BY <2>3 DEF Loop, Goto, TypeOK, Coherent, Scene
  <2>4. CASE WorkReturns(p)
    BY <2>4 DEF WorkReturns, Goto, TypeOK, Coherent, Scene
  <2>5. CASE Exit(p)
    BY <2>5, CoherentEnds DEF Exit
  <2>6. CASE Callback(p)
    <3>0. TypeOK'
      BY <1>2, TypeStep DEF Next
    <3>1. CASE CallDims(p)
      BY <3>0, <3>1, CoherentReturns DEF CallDims, TypeOK
    <3>2. CASE SceneIgnored(p)
      BY <3>2, CoherentReturns DEF SceneIgnored, TypeOK
    <3>3. CASE CallLoads(p)
      <4>1. Scene(p) \in Scenes
        BY <3>3, HandKinds
        DEF CallLoads, Is, Scene, TypeOK, Handling
      <4>2. records[Key(Scene(p))] # Empty
        BY <4>1, KeysOfScenes DEF Coherent
      <4>3. QED
        BY <3>3, <4>2
        DEF CallLoads, Is, Stored, Scene, Goto, TypeOK, Coherent
    <3>4. CASE CallLoadsNothing(p)
      BY <3>4, CoherentReturns DEF CallLoadsNothing, TypeOK
    <3>5. CASE CallApplies(p)
      BY <3>0, <3>5, CoherentReturns DEF CallApplies, TypeOK
    <3>6. CASE SaveGivesUp(p)
      BY <3>6, CoherentReturns DEF SaveGivesUp, TypeOK
    <3>7. CASE SavePrepares(p)
      <4>1. loaded' = [loaded EXCEPT ![p] = light[p]]
        BY <3>7 DEF SavePrepares
      <4>2. QED
        BY <3>7, <4>1, ReferenceAssumption
        DEF SavePrepares, Is, Scene, Goto, TypeOK, Coherent
    <3>8. CASE SaveStores(p)
      BY <3>8, CoherentStores
    <3>9. CASE UsesDead(p)
      BY <3>9, CoherentReturns, CoherentEnds DEF UsesDead, TypeOK
    <3>10. CASE OutputValue(p)
      BY <3>0, <3>10, CoherentReturns DEF OutputValue, TypeOK
    <3>11. QED
      BY <2>6, <3>1, <3>2, <3>3, <3>4, <3>5, <3>6, <3>7, <3>8, <3>9, <3>10
      DEF Callback
  <2>7. QED
    BY <1>2, <2>1, <2>2, <2>3, <2>4, <2>5, <2>6 DEF Run
<1>3. ASSUME NEW p \in Processes, Environment(p)
      PROVE  Coherent'
  <2>1. CASE Start(p)
    BY <2>1 DEF Start, Goto, TypeOK, Coherent, Scene
  <2>2. CASE Signal(p)
    BY <2>2 DEF Signal, Coherent, Scene
  <2>3. CASE Crash(p)
    BY <2>3, CoherentEnds DEF Crash
  <2>4. ASSUME NEW m \in Messages, Deliver(p, m)
        PROVE  Coherent'
    BY <2>4 DEF Deliver, Goto, TypeOK, Coherent, Scene
  <2>5. QED
    BY <1>3, <2>1, <2>2, <2>3, <2>4 DEF Environment
<1>4. QED
  BY <1>1, <1>2, <1>3 DEF Next
-----------------------------------------------------------------------------
(* Every step is one of the scene table's or leaves it alone.  Two scenes   *)
(* must not share a key: Key is one to one above -1000000000.              *)

KeysDiffer == \A s, t \in Scenes : Key(s) = Key(t) => s = t

LEMMA SmallScenesDiffer ==
  ASSUME \A s \in Scenes : s > -1000000000
  PROVE  KeysDiffer
BY ReferenceAssumption DEF KeysDiffer, Key

LEMMA TableInit == Init => Table!Init
BY KeysOfScenes, ReferenceAssumption DEF Init, Table!Init, Recalled

TableStutters == UNCHANGED <<Recalled, light, hand>>

TableStep == Table!Next \/ TableStutters

LEMMA TableKept == ASSUME UNCHANGED records PROVE UNCHANGED Recalled
BY DEF Recalled

LEMMA RecalledIs ==
  ASSUME Coherent, NEW s \in Scenes
  PROVE  Recalled[s] = records[Key(s)]
BY KeysOfScenes DEF Recalled, Coherent

LEMMA TableEnds ==
  ASSUME NEW p \in Processes, Ends(p)
  PROVE  TableStep
<1>1. Table!Restart(p)
  BY TableKept DEF Ends, Table!Restart
<1>2. QED
  BY <1>1 DEF TableStep, Table!Next, Table!Step

LEMMA TableIgnores ==
  ASSUME TypeOK, NEW p \in Processes, Returns(p), pc[p] \in Handling,
         UNCHANGED <<light, records>>
  PROVE  TableStep
<1>1. Table!Ignore(p)
  BY TableKept DEF TypeOK, Returns, Table!Ignore
<1>2. QED
  BY <1>1 DEF TableStep, Table!Next, Table!Step

LEMMA TableSaves ==
  ASSUME KeysDiffer, TypeOK, Coherent, Coherent',
         NEW p \in Processes, SaveStores(p)
  PROVE  TableStep
<1>1. CASE UNCHANGED records
  BY <1>1, TableIgnores DEF SaveStores, Handling
<1>2. CASE records' = [records EXCEPT ![Key(Scene(p))] = loaded[p]]
  <2>1. /\ hand[p] \in Messages
        /\ hand[p].type = "save" /\ loaded[p] = light[p]
    BY DEF SaveStores, TypeOK, Handling, Coherent
  <2>2. hand[p] # NoMessage /\ Scene(p) \in Scenes
    BY <2>1, HandKinds DEF Scene
  <2>3. \A s \in Scenes :
          records'[Key(s)] = IF s = Scene(p) THEN light[p] ELSE records[Key(s)]
    BY <1>2, <2>1, <2>2, KeysOfScenes DEF KeysDiffer, TypeOK
  <2>4. \A s \in Scenes :
          /\ Recalled[s] = records[Key(s)]
          /\ records'[Key(s)] # Empty
    BY RecalledIs, KeysOfScenes DEF Coherent
  <2>5. Recalled' = [s \in Scenes |-> records'[Key(s)]]
    BY <2>4 DEF Recalled
  <2>6. Recalled' = [Recalled EXCEPT ![Scene(p)] = light[p]]
    BY <2>2, <2>3, <2>4, <2>5 DEF Recalled
  <2>7. Table!SaveScene(p)
    BY <2>1, <2>2, <2>6
    DEF SaveStores, Returns, Scene, Table!SaveScene, Table!Handles
  <2>8. QED
    BY <2>7 DEF TableStep, Table!Next, Table!Step
<1>3. QED
  BY <1>1, <1>2 DEF SaveStores

LEMMA TableApplies ==
  ASSUME TypeOK, Coherent, NEW p \in Processes, CallApplies(p)
  PROVE  TableStep
<1>1. /\ hand[p] \in Messages
      /\ hand[p].type = "call" /\ Scene(p) \notin Dimming
      /\ loaded[p] = records[Key(Scene(p))]
      /\ loaded[p] # Unset /\ loaded[p] # Empty
  BY DEF CallApplies, TypeOK, Handling, Coherent
<1>2. hand[p] # NoMessage /\ Scene(p) \in Scenes
  BY <1>1, HandKinds DEF Scene
<1>3. Recalled[Scene(p)] = loaded[p]
  BY <1>1, <1>2, RecalledIs
<1>4. light' = [light EXCEPT ![p] = Recalled[Scene(p)]]
  BY <1>1, <1>3 DEF CallApplies
<1>5. Scene(p) \notin Table!Darker \cup Table!Brighter
  BY <1>1 DEF Dimming, Table!Darker, Table!Brighter
<1>6. Table!CallScene(p)
  BY <1>1, <1>2, <1>3, <1>4, <1>5, TableKept
  DEF CallApplies, Returns, Scene, Table!CallScene, Table!Handles
<1>7. QED
  BY <1>6 DEF TableStep, Table!Next, Table!Step

LEMMA TableDims ==
  ASSUME TypeOK, Ranges, NEW p \in Processes, CallDims(p)
  PROVE  TableStep
<1>1. /\ hand[p] # NoMessage
      /\ hand[p].type = "call" /\ Scene(p) \in Dimming
  BY DEF CallDims, Is, TypeOK, Handling
<1>2. light'[p] = Dimmed(light[p], Scene(p))
      /\ light' = [light EXCEPT ![p] = light'[p]]
  BY DEF CallDims, TypeOK
<1>3. light[p] \in Values
  BY DEF Ranges
<1>4. \/ Scene(p) \in Table!Darker /\ light'[p] <= light[p]
      \/ Scene(p) \in Table!Brighter /\ light'[p] >= light[p]
  BY <1>1, <1>2, <1>3, ReferenceAssumption
  DEF Dimming, Dimmed, Values, Table!Darker, Table!Brighter
<1>5. Table!Dim(p)
  BY <1>1, <1>2, <1>4, TableKept
  DEF CallDims, Returns, Scene, Table!Dim, Table!Handles
<1>6. QED
  BY <1>5 DEF TableStep, Table!Next, Table!Step

LEMMA TableSets ==
  ASSUME TypeOK, NEW p \in Processes, OutputValue(p)
  PROVE  TableStep
<1>1. CASE hand[p].channel = 0
  <2>1. hand[p] # NoMessage
    BY DEF OutputValue, Is, TypeOK, Handling
  <2>2. Table!SetOutput(p)
    BY <1>1, <2>1, TableKept
    DEF OutputValue, Is, Returns, Table!SetOutput, Table!Handles
  <2>3. QED
    BY <2>2 DEF TableStep, Table!Next, Table!Step
<1>2. CASE hand[p].channel # 0
  BY <1>2, TableIgnores DEF OutputValue, Is, Handling
<1>3. QED
  BY <1>1, <1>2

LEMMA StepsRefine ==
  ASSUME "add" \notin MayFail, KeysDiffer,
         TypeOK, Ranges, Coherent, Coherent', [Next]_vars
  PROVE  TableStep
<1>1. CASE UNCHANGED vars
  BY <1>1, TableKept DEF vars, TableStep, TableStutters
<1>2. ASSUME UNCHANGED <<light, hand, records>>
      PROVE  TableStep
  BY <1>2, TableKept DEF TableStep, TableStutters
<1>3. ASSUME NEW p \in Processes, Run(p)
      PROVE  TableStep
  <2>1. CASE Open(p) \/ Loop(p) \/ WorkReturns(p)
    BY <2>1, <1>2 DEF Open, Loop, WorkReturns
  <2>2. CASE New(p) \/ Exit(p)
    BY <2>2, <1>2, TableEnds DEF New, Exit
  <2>3. CASE Callback(p)
    <3>1. CASE CallDims(p)
      BY <3>1, TableDims
    <3>2. CASE SceneIgnored(p) \/ CallLoadsNothing(p) \/ SaveGivesUp(p)
      BY <3>2, TableIgnores
      DEF SceneIgnored, CallLoadsNothing, SaveGivesUp, Is, Handling
    <3>3. CASE CallLoads(p) \/ SavePrepares(p)
      BY <3>3, <1>2 DEF CallLoads, SavePrepares
    <3>4. CASE CallApplies(p)
      BY <3>4, TableApplies
    <3>5. CASE SaveStores(p)
      BY <3>5, TableSaves
    <3>6. CASE UsesDead(p)
      BY <3>6, TableEnds, TableIgnores DEF UsesDead, Is, Handling
    <3>7. CASE OutputValue(p)
      BY <3>7, TableSets
    <3>8. QED
      BY <2>3, <3>1, <3>2, <3>3, <3>4, <3>5, <3>6, <3>7 DEF Callback
  <2>4. QED
    BY <1>3, <2>1, <2>2, <2>3 DEF Run
<1>4. ASSUME NEW p \in Processes, Environment(p)
      PROVE  TableStep
  <2>1. CASE Start(p) \/ Signal(p)
    BY <2>1, <1>2 DEF Start, Signal
  <2>2. CASE Crash(p)
    BY <2>2, TableEnds DEF Crash
  <2>3. ASSUME NEW m \in Messages, Deliver(p, m)
        PROVE  TableStep
    <3>1. hand[p] = NoMessage
      BY <2>3 DEF Deliver, TypeOK, Handling
    <3>2. Table!Receive(p, m)
      BY <2>3, <3>1, TableKept DEF Deliver, Table!Receive
    <3>3. QED
      BY <3>2 DEF TableStep, Table!Next, Table!Step
  <2>4. QED
    BY <1>4, <2>1, <2>2, <2>3 DEF Environment
<1>5. QED
  BY <1>1, <1>3, <1>4 DEF Next

(* Scenes survive the processes that saved them, and recall what was saved *)
(* last: the reference vDC implements the scene table, as long as two      *)
(* scenes never share a key and memory for a value can be had.             *)
THEOREM ScenesSurvive ==
  ASSUME "add" \notin MayFail, KeysDiffer
  PROVE  Spec => SceneTableHolds
<1>1. TypeOK /\ Coherent /\ [Next]_vars => Coherent'
  BY CoherentStep
<1>2. TypeOK /\ Ranges /\ Coherent /\ Coherent' /\ [Next]_vars
        => [Table!Next]_<<Recalled, light, hand>>
  BY StepsRefine DEF TableStep, TableStutters
<1>3. QED
  BY <1>1, <1>2, TypeInit, TypeStep, RangesInit, RangesStep, CoherentInit,
     TableInit, PTL
  DEF Spec, SceneTableHolds, Table!Spec
=============================================================================
