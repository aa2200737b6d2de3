------------------------ MODULE VdcInstance_proofs ------------------------
(***************************************************************************)
(* Machine-checked proofs about VdcInstance, for every set of instances,   *)
(* ports and names and every value of the bounds.                          *)
(***************************************************************************)
EXTENDS VdcInstance, SequenceTheorems, TLAPS

LEMMA LabelFacts ==
  /\ FirstLabel(NULL) \in Labels
  /\ \A name \in Names : FirstLabel(name) \in Labels
  /\ \A l \in Labels : Alternative(l) \in Labels /\ Alternative(l)[1] = l[1]
  BY NamesAssumption DEF FirstLabel, Labels, Alternative

LEMMA PortFacts ==
  0 \in Ports /\ DefaultPort \in Ports /\ FixedPorts \subseteq Ports
  BY BoundsAssumption DEF Ports

(* What the goals about types below are made of. *)
LEMMA EventFacts ==
  /\ << >> \in Seq(Events)
  /\ \A s \in Seq(Events), e \in Events : Append(s, e) \in Seq(Events)
  /\ \A s \in Seq(Events) : s # << >> => Tail(s) \in Seq(Events)
  BY EmptySeq, AppendProperties, HeadTailProperties

LEMMA EntryFacts ==
  ASSUME TypeOK, NEW i \in Instances, NEW l \in Labels, NEW p \in Ports,
         NEW s \in {"none", "added", "registering", "established"},
         entry' = Set(entry, i, Entry(s, l, p))
  PROVE  entry' \in [Instances ->
              [state : {"none", "added", "registering", "established"},
               label : Labels, port : Ports]]
<1>1. Entry(s, l, p) \in [state : {"none", "added", "registering", "established"},
                          label : Labels, port : Ports]
  BY DEF Entry
<1>2. QED
  BY <1>1 DEF TypeOK, Set

LEMMA InitTypeOK == Init => TypeOK
  BY LabelFacts, EventFacts, PortFacts, BoundsAssumption
     DEF Init, TypeOK, Nothing, NoEntry, Phases, Pointer

(* A failing call is counted within its bound. *)
LEMMA FaultTypes ==
  ASSUME TypeOK, NEW call, NoFault \/ Fault(call)
  PROVE  faults' \in 0 .. MaxFaults
  BY BoundsAssumption DEF TypeOK, Fault, NoFault

LEMMA FreeTypes ==
  ASSUME TypeOK, NEW i \in Instances, Free(i)
  PROVE  /\ wanted' \in [Instances -> [port : {0} \cup FixedPorts,
                                       name : Names \cup {NULL}]]
         /\ port' \in [Instances -> Ports]
         /\ listen_fd' \in [Instances -> {"none", "open", "bound", "listening"}]
         /\ label' \in [Instances -> Labels]
  BY LabelFacts, PortFacts DEF TypeOK, Free, Set, Nothing

LEMMA DisconnectTypes ==
  ASSUME TypeOK, NEW i \in Instances, Disconnect(i)
  PROVE  /\ quit' \in [Instances -> BOOLEAN]
         /\ conn' \in [Instances -> {"none", "up", "lost"}]
         /\ events' \in [Instances -> Seq(Events)]
         /\ entry' \in [Instances ->
              [state : {"none", "added", "registering", "established"},
               label : Labels, port : Ports]]
<1>1. NoEntry \in [state : {"none", "added", "registering", "established"},
                   label : Labels, port : Ports]
  BY LabelFacts, PortFacts DEF NoEntry
<1>2. QED
  BY <1>1, EventFacts DEF TypeOK, Disconnect, Set

LEMMA NoPointersTypes ==
  ASSUME TypeOK, NEW i \in Instances, NoPointers(i)
  PROVE  /\ avahi_poll' \in [Instances -> Pointer]
         /\ avahi_client' \in [Instances -> Pointer]
         /\ avahi_group' \in [Instances -> Pointer]
         /\ avahi_name' \in [Instances -> Pointer]
  BY DEF TypeOK, NoPointers, Set, Pointer

LEMMA RenameTypes ==
  ASSUME TypeOK, NEW i \in Instances, Rename(i)
  PROVE  /\ avahi_name' \in [Instances -> Pointer]
         /\ label' \in [Instances -> Labels]
         /\ faults' \in 0 .. MaxFaults
<1>1. faults' \in 0 .. MaxFaults
  BY FaultTypes DEF Rename
<1>2. avahi_name' \in [Instances -> Pointer]
  BY DEF TypeOK, Rename, Set, Pointer
<1>3. label' \in [Instances -> Labels]
  <2>1. label \in [Instances -> Labels] /\ Alternative(label[i]) \in Labels
    BY LabelFacts DEF TypeOK
  <2>2. label' = Set(label, i, Alternative(label[i])) \/ label' = label
    BY DEF Rename
  <2>3. QED
    BY <2>1, <2>2 DEF Set
<1>4. QED
  BY <1>1, <1>2, <1>3

LEMMA DispatchTypes ==
  ASSUME TypeOK, NEW i \in Instances, NEW e, Dispatches(i, e)
  PROVE  events' \in [Instances -> Seq(Events)]
<1>1. /\ events \in [Instances -> Seq(Events)]
      /\ Tail(events[i]) \in Seq(Events)
  BY EventFacts DEF TypeOK, Dispatches
<1>2. QED
  BY <1>1 DEF Dispatches, Set

(* The end of a process keeps the types of everything. *)
LEMMA CrashTypeOK ==
  ASSUME TypeOK, NEW i \in Instances, Crash(i), NoFault
  PROVE  TypeOK'
<1>1. NoPointers(i)
  BY DEF Crash, NoPointers
<1>2. /\ pc' \in [Instances -> Phases] /\ abandoned' \in [Instances -> SUBSET Ports]
      /\ UNCHANGED <<daemon, claimed, faults, restarts, hostChanges>>
  BY DEF Crash, TypeOK, Goto, Set, Phases, outside, NoFault
<1>3. QED
  BY <1>1, <1>2, FreeTypes, DisconnectTypes, NoPointersTypes DEF Crash, TypeOK

LEMMA NextTypeOK ==
  ASSUME TypeOK, [Next]_vars PROVE TypeOK'
<1> USE LabelFacts, EventFacts, PortFacts, BoundsAssumption, LabelsAssumption
<1> USE DEF Set, Goto, sockets, pointers, client, outside, Nothing,
            NoEntry, Phases, Pointer, Events
<1>1. ASSUME NEW i \in Instances, New(i) PROVE TypeOK'
  BY <1>1 DEF New, NoFault, TypeOK
<1>2. ASSUME NEW i \in Instances, Bind(i) PROVE TypeOK'
  <2>1. CASE Release(i)
    <3>1. faults' \in 0 .. MaxFaults
      BY <1>2, FaultTypes DEF Bind, Release, NoFault, Fault, TypeOK
    <3>2. QED
      BY <1>2, <2>1, <3>1, FreeTypes DEF Bind, Release, TypeOK
  <2>2. CASE /\ listen_fd' = Set(listen_fd, i, "bound") /\ Goto(i, "listen")
             /\ UNCHANGED <<wanted, port, abandoned, label>> /\ NoFault
    BY <1>2, <2>2 DEF Bind, NoFault, TypeOK
  <2>3. CASE /\ SearchOn(i) /\ port' = Set(port, i, port[i] + 1) /\ NoFault
             /\ UNCHANGED <<pc, wanted, listen_fd, abandoned, label>>
    <3>1. port[i] + 1 \in Ports
      BY <2>3, BoundsAssumption DEF SearchOn, TypeOK, Ports
    <3>2. QED
      BY <1>2, <2>3, <3>1 DEF Bind, NoFault, TypeOK
  <2>4. QED
    BY <1>2, <2>1, <2>2, <2>3 DEF Bind
<1>3. ASSUME NEW i \in Instances, Listen(i) PROVE TypeOK'
  <2>1. CASE Release(i)
    <3>1. faults' \in 0 .. MaxFaults
      BY <1>3, FaultTypes DEF Listen, Release, NoFault, Fault, TypeOK
    <3>2. QED
      BY <1>3, <2>1, <3>1, FreeTypes DEF Listen, Release, TypeOK
  <2>2. CASE /\ listen_fd' = Set(listen_fd, i, "listening") /\ Goto(i, "setup")
             /\ UNCHANGED <<wanted, port, abandoned, label>> /\ NoFault
    BY <1>3, <2>2 DEF Listen, NoFault, TypeOK
  <2>3. QED
    BY <1>3, <2>1, <2>2 DEF Listen
<1>4. ASSUME NEW i \in Instances, SetupFails(i) PROVE TypeOK'
  <2>1. faults' \in 0 .. MaxFaults
    BY <1>4, FaultTypes DEF SetupFails, InitCannot
  <2>2. abandoned' \in [Instances -> SUBSET Ports]
    BY <1>4 DEF SetupFails, TypeOK
  <2>3. QED
    BY <1>4, <2>1, <2>2, FreeTypes DEF SetupFails, TypeOK
<1>5. ASSUME NEW i \in Instances, DiscoveryInit(i) PROVE TypeOK'
  <2>1. CASE InitSucceeds(i)
    <3>1. /\ pc' \in [Instances -> Phases] /\ avahi_client' \in [Instances -> Pointer]
          /\ avahi_poll' \in [Instances -> Pointer] /\ avahi_name' \in [Instances -> Pointer]
      <4>1. /\ Goto(i, "services") \/ Goto(i, "loop")
            /\ UNCHANGED avahi_client \/ avahi_client' = Set(avahi_client, i, "live")
            /\ avahi_poll' = Set(avahi_poll, i, "live")
            /\ avahi_name' = Set(avahi_name, i, "live")
        BY <2>1 DEF InitSucceeds
      <4>2. pc' \in [Instances -> Phases]
        BY <4>1 DEF TypeOK
      <4>3. avahi_client' \in [Instances -> Pointer]
        BY <4>1 DEF TypeOK
      <4>4. QED
        BY <4>1, <4>2, <4>3 DEF TypeOK
    <3>2. conn' \in [Instances -> {"none", "up", "lost"}]
      BY <2>1 DEF InitSucceeds, TypeOK
    <3>3. QED
      BY <1>5, <2>1, <3>1, <3>2 DEF DiscoveryInit, InitSucceeds, NoFault, TypeOK
  <2>2. ASSUME NEW call \in InitCalls, ReinitFails(i, call) PROVE TypeOK'
    <3>1. faults' \in 0 .. MaxFaults
      BY <2>2, FaultTypes DEF ReinitFails, InitCannot
    <3>2. QED
      BY <1>5, <2>2, <3>1 DEF DiscoveryInit, ReinitFails, TypeOK
  <2>3. QED
    BY <1>5, <2>1, <2>2 DEF DiscoveryInit
<1>6. ASSUME NEW i \in Instances, GroupFails(i) PROVE TypeOK'
  <2>1. faults' \in 0 .. MaxFaults
    BY <1>6, FaultTypes DEF GroupFails
  <2>2. QED
    BY <1>6, <2>1 DEF GroupFails, GiveUp, Return, TypeOK
<1>7. ASSUME NEW i \in Instances, AlreadyAdded(i) PROVE TypeOK'
  BY <1>7 DEF AlreadyAdded, HasGroup, InGroup, Return, NoFault, TypeOK
<1>8. ASSUME NEW i \in Instances, AddFails(i) PROVE TypeOK'
  <2>1. CASE Crash(i) /\ NoFault
    BY <2>1, CrashTypeOK
  <2>2. CASE ~(Crash(i) /\ NoFault)
    <3>1. faults' \in 0 .. MaxFaults
      BY <1>8, <2>2, FaultTypes DEF AddFails
    <3>2. HasGroup(i) /\ GiveUp(i)
      BY <1>8, <2>2 DEF AddFails
    <3>3. /\ pc' \in [Instances -> Phases] /\ avahi_client' \in [Instances -> Pointer]
          /\ avahi_group' \in [Instances -> Pointer] /\ quit' \in [Instances -> BOOLEAN]
      BY <3>2 DEF HasGroup, GiveUp, Return, TypeOK
    <3>4. QED
      BY <1>8, <2>2, <3>1, <3>3 DEF AddFails, TypeOK
  <2>3. QED
    BY <2>1, <2>2
<1>9. ASSUME NEW i \in Instances, LocalCollision(i) PROVE TypeOK'
  BY <1>9, RenameTypes DEF LocalCollision, HasGroup, TypeOK
<1>10. ASSUME NEW i \in Instances, Add(i) PROVE TypeOK'
  BY <1>10 DEF Add, HasGroup, InGroup, Entry, NoFault, TypeOK
<1>11. ASSUME NEW i \in Instances, Commit(i) PROVE TypeOK'
  <2>1. faults' \in 0 .. MaxFaults
    BY <1>11, FaultTypes DEF Commit
  <2>2. entry' \in [Instances ->
                [state : {"none", "added", "registering", "established"},
                 label : Labels, port : Ports]]
    <3>1. entry[i].label \in Labels /\ entry[i].port \in Ports
      BY DEF TypeOK
    <3>2. \/ entry' = entry
          \/ entry' = Set(entry, i, Entry("registering", entry[i].label, entry[i].port))
      BY <1>11 DEF Commit
    <3>3. CASE entry' = entry
      BY <3>3 DEF TypeOK
    <3>4. CASE entry' = Set(entry, i, Entry("registering", entry[i].label, entry[i].port))
      BY <3>1, <3>4, EntryFacts
    <3>5. QED
      BY <3>2, <3>3, <3>4
  <2>3. QED
    BY <1>11, <2>1, <2>2 DEF Commit, GiveUp, Return, TypeOK
<1>12. ASSUME NEW i \in Instances, HostRunning(i) PROVE TypeOK'
  BY <1>12 DEF HostRunning, Dispatches, Polls, NoFault, TypeOK
<1>13. ASSUME NEW i \in Instances, HostUnsettled(i) PROVE TypeOK'
  BY <1>13 DEF HostUnsettled, Dispatches, Polls, NoFault, TypeOK
<1>14. ASSUME NEW i \in Instances, Failure(i) PROVE TypeOK'
  <2>1. events' \in [Instances -> Seq(Events)]
    BY <1>14, DispatchTypes DEF Failure
  <2>2. QED
    BY <1>14, <2>1 DEF Failure, NoFault, TypeOK
<1>15. ASSUME NEW i \in Instances, NameCollision(i) PROVE TypeOK'
  BY <1>15, RenameTypes DEF NameCollision, Dispatches, TypeOK
<1>16. ASSUME NEW i \in Instances, Restart(i) PROVE TypeOK'
  <2>1. CASE Crash(i) /\ NoFault
    BY <2>1, CrashTypeOK
  <2>2. CASE ~(Crash(i) /\ NoFault)
    <3>1. TempName(i) /\ NoPointers(i) /\ Disconnect(i)
      BY <1>16, <2>2 DEF Restart, DiscoveryCleanup
    <3>2. faults' \in 0 .. MaxFaults
      BY <3>1, FaultTypes DEF TempName
    <3>3. label' \in [Instances -> Labels]
      BY <3>1 DEF TempName, TypeOK
    <3>4. QED
      BY <1>16, <2>2, <3>1, <3>2, <3>3, NoPointersTypes, DisconnectTypes
         DEF Restart, TypeOK
  <2>3. QED
    BY <2>1, <2>2
<1>17. ASSUME NEW i \in Instances, CleanupDiscovery(i) PROVE TypeOK'
  <2>1. CASE Crash(i)
    BY <1>17, <2>1, CrashTypeOK DEF CleanupDiscovery
  <2>2. CASE DiscoveryCleanup(i) /\ Goto(i, "unlisted") /\ UNCHANGED <<wanted, sockets, label, outside>>
    BY <1>17, <2>2, NoPointersTypes, DisconnectTypes
       DEF CleanupDiscovery, DiscoveryCleanup, NoFault, TypeOK
  <2>3. QED
    BY <1>17, <2>1, <2>2 DEF CleanupDiscovery
<1>18. ASSUME NEW i \in Instances, CleanupHandle(i) PROVE TypeOK'
  BY <1>18, FreeTypes DEF CleanupHandle, Release, NoFault, TypeOK
<1>19. CASE DaemonStops
  BY <1>19 DEF DaemonStops, Tell, NoFault, TypeOK
<1>20. CASE DaemonStarts
  BY <1>20 DEF DaemonStarts, NoFault, TypeOK
<1>21. CASE HostSettles
  BY <1>21 DEF HostSettles, Tell, NoFault, TypeOK
<1>22. CASE HostChanges
  BY <1>22 DEF HostChanges, Tell, NoFault, TypeOK
<1>23. ASSUME NEW l \in OtherLabels, Claim(l) PROVE TypeOK'
  BY <1>23 DEF Claim, NoFault, TypeOK
<1>24. ASSUME NEW i \in Instances, Establish(i) PROVE TypeOK'
  <2>1. entry[i].label \in Labels /\ entry[i].port \in Ports
    BY DEF TypeOK
  <2>2. entry' \in [Instances ->
                [state : {"none", "added", "registering", "established"},
                 label : Labels, port : Ports]]
    BY <1>24, <2>1, EntryFacts DEF Establish
  <2>3. QED
    BY <1>24, <2>2 DEF Establish, NoFault, TypeOK
<1>25. ASSUME NEW i \in Instances, Collide(i) PROVE TypeOK'
  BY <1>25 DEF Collide, Withdraw, NoFault, TypeOK
<1>26. ASSUME NEW i \in Instances, RegisterFails(i) PROVE TypeOK'
  BY <1>26 DEF RegisterFails, Withdraw, Fault, TypeOK
<1>27. CASE UNCHANGED vars
  BY <1>27 DEF vars, TypeOK
<1>28. QED
  BY <1>1, <1>2, <1>3, <1>4, <1>5, <1>6, <1>7, <1>8, <1>9, <1>10, <1>11,
     <1>12, <1>13, <1>14, <1>15, <1>16, <1>17, <1>18, <1>19, <1>20, <1>21,
     <1>22, <1>23, <1>24, <1>25, <1>26, <1>27 DEF Next, Instance, Open,
     CreateServices, Work, Cleanup, Environment

(* Every variable has its type in every reachable state. *)
THEOREM Typing == Spec => []TypeOK
<1>1. QED
  BY InitTypeOK, NextTypeOK, PTL DEF Spec

-----------------------------------------------------------------------------
(* Where a process is and what its handle holds then. *)

(* A socket listens from listen() on to the end of dsvdc_cleanup. *)
SocketsInPlace ==
  \A i \in Instances :
    /\ pc[i] \in {"none", "crashed"} => listen_fd[i] = "none"
    /\ pc[i] \notin {"none", "crashed"} => port[i] # 0
    /\ pc[i] = "bind" => listen_fd[i] = "open"
    /\ pc[i] = "listen" => listen_fd[i] = "bound"
    /\ pc[i] \notin {"none", "crashed", "bind", "listen"} => listen_fd[i] = "listening"

LEMMA InitSockets == Init => SocketsInPlace
  BY DEF Init, SocketsInPlace

LEMMA NextSockets ==
  ASSUME TypeOK, SocketsInPlace, [Next]_vars PROVE SocketsInPlace'
<1> USE DEF SocketsInPlace, Set, Goto, Phases, sockets
<1>0. /\ pc \in [Instances -> Phases] /\ port \in [Instances -> Ports]
      /\ listen_fd \in [Instances -> {"none", "open", "bound", "listening"}]
      /\ MaxPort \in Nat /\ DefaultPort \in Nat \ {0} /\ FixedPorts \subseteq 1 .. MaxPort
  BY BoundsAssumption DEF TypeOK
<1>1. ASSUME NEW i \in Instances, New(i) PROVE SocketsInPlace'
  BY <1>1, <1>0 DEF New
<1>2. ASSUME NEW i \in Instances, Bind(i) PROVE SocketsInPlace'
  BY <1>2, <1>0 DEF Bind, Release, Free, Ports
<1>3. ASSUME NEW i \in Instances, Listen(i) PROVE SocketsInPlace'
  BY <1>3, <1>0 DEF Listen, Release, Free
<1>4. ASSUME NEW i \in Instances, SetupFails(i) PROVE SocketsInPlace'
  BY <1>4, <1>0 DEF SetupFails, Free
<1>5. ASSUME NEW i \in Instances, DiscoveryInit(i) PROVE SocketsInPlace'
  BY <1>5, <1>0 DEF DiscoveryInit, InitSucceeds, ReinitFails
<1>6. ASSUME NEW i \in Instances, GroupFails(i) PROVE SocketsInPlace'
  BY <1>6, <1>0 DEF GroupFails, GiveUp, Return
<1>7. ASSUME NEW i \in Instances, AlreadyAdded(i) PROVE SocketsInPlace'
  BY <1>7, <1>0 DEF AlreadyAdded, HasGroup, Return
<1>8. ASSUME NEW i \in Instances, AddFails(i) PROVE SocketsInPlace'
  BY <1>8, <1>0 DEF AddFails, HasGroup, GiveUp, Return, Crash, Free
<1>9. ASSUME NEW i \in Instances, LocalCollision(i) PROVE SocketsInPlace'
  BY <1>9, <1>0 DEF LocalCollision
<1>10. ASSUME NEW i \in Instances, Add(i) PROVE SocketsInPlace'
  BY <1>10, <1>0 DEF Add, HasGroup
<1>11. ASSUME NEW i \in Instances, Commit(i) PROVE SocketsInPlace'
  BY <1>11, <1>0 DEF Commit, GiveUp, Return
<1>12. ASSUME NEW i \in Instances, HostRunning(i) PROVE SocketsInPlace'
  BY <1>12, <1>0 DEF HostRunning, Dispatches, Polls
<1>13. ASSUME NEW i \in Instances, HostUnsettled(i) PROVE SocketsInPlace'
  BY <1>13, <1>0 DEF HostUnsettled
<1>14. ASSUME NEW i \in Instances, Failure(i) PROVE SocketsInPlace'
  BY <1>14, <1>0 DEF Failure
<1>15. ASSUME NEW i \in Instances, NameCollision(i) PROVE SocketsInPlace'
  BY <1>15, <1>0 DEF NameCollision, Dispatches, Polls
<1>16. ASSUME NEW i \in Instances, Restart(i) PROVE SocketsInPlace'
  BY <1>16, <1>0 DEF Restart, Crash, Free
<1>17. ASSUME NEW i \in Instances, CleanupDiscovery(i) PROVE SocketsInPlace'
  BY <1>17, <1>0 DEF CleanupDiscovery, Crash, Free
<1>18. ASSUME NEW i \in Instances, CleanupHandle(i) PROVE SocketsInPlace'
  BY <1>18, <1>0 DEF CleanupHandle, Release, Free
<1>19. CASE DaemonStops
  BY <1>19, <1>0 DEF DaemonStops
<1>20. CASE DaemonStarts
  BY <1>20, <1>0 DEF DaemonStarts
<1>21. CASE HostSettles
  BY <1>21, <1>0 DEF HostSettles
<1>22. CASE HostChanges
  BY <1>22, <1>0 DEF HostChanges
<1>23. ASSUME NEW l \in OtherLabels, Claim(l) PROVE SocketsInPlace'
  BY <1>23, <1>0 DEF Claim
<1>24. ASSUME NEW i \in Instances, Establish(i) PROVE SocketsInPlace'
  BY <1>24, <1>0 DEF Establish
<1>25. ASSUME NEW i \in Instances, Collide(i) PROVE SocketsInPlace'
  BY <1>25, <1>0 DEF Collide, Withdraw
<1>26. ASSUME NEW i \in Instances, RegisterFails(i) PROVE SocketsInPlace'
  BY <1>26, <1>0 DEF RegisterFails, Withdraw
<1>27. CASE UNCHANGED vars
  BY <1>27 DEF vars, sockets
<1>28. QED
  BY <1>1, <1>2, <1>3, <1>4, <1>5, <1>6, <1>7, <1>8, <1>9, <1>10, <1>11,
     <1>12, <1>13, <1>14, <1>15, <1>16, <1>17, <1>18, <1>19, <1>20, <1>21,
     <1>22, <1>23, <1>24, <1>25, <1>26, <1>27 DEF Next, Instance, Open,
     CreateServices, Work, Cleanup, Environment

LEMMA NextOwnPort ==
  ASSUME TypeOK, SocketsInPlace, OwnPort, [Next]_vars PROVE OwnPort'
<1> USE DEF OwnPort, Set, Goto, Phases, sockets
<1>0. /\ pc \in [Instances -> Phases] /\ port \in [Instances -> Ports]
      /\ listen_fd \in [Instances -> {"none", "open", "bound", "listening"}]
  BY DEF TypeOK
<1>1. ASSUME NEW i \in Instances, New(i) PROVE OwnPort'
  BY <1>1, <1>0 DEF New, SocketsInPlace
<1>2. ASSUME NEW i \in Instances, Bind(i) PROVE OwnPort'
  <2>1. listen_fd[i] = "open" /\ listen_fd'[i] # "listening"
    BY <1>2, <1>0 DEF Bind, SocketsInPlace, Release, Free
  <2>2. \A j \in Instances \ {i} : port'[j] = port[j] /\ listen_fd'[j] = listen_fd[j]
    BY <1>2, <1>0 DEF Bind, Release, Free
  <2>3. QED
    BY <2>1, <2>2
<1>3. ASSUME NEW i \in Instances, Listen(i) PROVE OwnPort'
  <2>1. CASE Release(i)
    BY <2>1, <1>0 DEF Release, Free
  <2>2. CASE ~Listening(port[i]) /\ listen_fd' = Set(listen_fd, i, "listening") /\ UNCHANGED port
    BY <2>2, <1>0 DEF Listening
  <2>3. QED
    BY <1>3, <2>1, <2>2 DEF Listen
<1>4. ASSUME NEW i \in Instances, SetupFails(i) PROVE OwnPort'
  BY <1>4, <1>0 DEF SetupFails, Free
<1>5. ASSUME NEW i \in Instances, DiscoveryInit(i) PROVE OwnPort'
  BY <1>5, <1>0 DEF DiscoveryInit, InitSucceeds, ReinitFails
<1>6. ASSUME NEW i \in Instances, GroupFails(i) PROVE OwnPort'
  BY <1>6, <1>0 DEF GroupFails, GiveUp, Return
<1>7. ASSUME NEW i \in Instances, AlreadyAdded(i) PROVE OwnPort'
  BY <1>7, <1>0 DEF AlreadyAdded, HasGroup, Return
<1>8. ASSUME NEW i \in Instances, AddFails(i) PROVE OwnPort'
  BY <1>8, <1>0 DEF AddFails, HasGroup, GiveUp, Return, Crash, Free
<1>9. ASSUME NEW i \in Instances, LocalCollision(i) PROVE OwnPort'
  BY <1>9, <1>0 DEF LocalCollision
<1>10. ASSUME NEW i \in Instances, Add(i) PROVE OwnPort'
  BY <1>10, <1>0 DEF Add, HasGroup
<1>11. ASSUME NEW i \in Instances, Commit(i) PROVE OwnPort'
  BY <1>11, <1>0 DEF Commit, GiveUp, Return
<1>12. ASSUME NEW i \in Instances, HostRunning(i) PROVE OwnPort'
  BY <1>12, <1>0 DEF HostRunning, Dispatches, Polls
<1>13. ASSUME NEW i \in Instances, HostUnsettled(i) PROVE OwnPort'
  BY <1>13, <1>0 DEF HostUnsettled
<1>14. ASSUME NEW i \in Instances, Failure(i) PROVE OwnPort'
  BY <1>14, <1>0 DEF Failure
<1>15. ASSUME NEW i \in Instances, NameCollision(i) PROVE OwnPort'
  BY <1>15, <1>0 DEF NameCollision, Dispatches, Polls
<1>16. ASSUME NEW i \in Instances, Restart(i) PROVE OwnPort'
  BY <1>16, <1>0 DEF Restart, Crash, Free
<1>17. ASSUME NEW i \in Instances, CleanupDiscovery(i) PROVE OwnPort'
  BY <1>17, <1>0 DEF CleanupDiscovery, Crash, Free
<1>18. ASSUME NEW i \in Instances, CleanupHandle(i) PROVE OwnPort'
  BY <1>18, <1>0 DEF CleanupHandle, Release, Free
<1>19. CASE DaemonStops
  BY <1>19, <1>0 DEF DaemonStops
<1>20. CASE DaemonStarts
  BY <1>20, <1>0 DEF DaemonStarts
<1>21. CASE HostSettles
  BY <1>21, <1>0 DEF HostSettles
<1>22. CASE HostChanges
  BY <1>22, <1>0 DEF HostChanges
<1>23. ASSUME NEW l \in OtherLabels, Claim(l) PROVE OwnPort'
  BY <1>23, <1>0 DEF Claim
<1>24. ASSUME NEW i \in Instances, Establish(i) PROVE OwnPort'
  BY <1>24, <1>0 DEF Establish
<1>25. ASSUME NEW i \in Instances, Collide(i) PROVE OwnPort'
  BY <1>25, <1>0 DEF Collide, Withdraw
<1>26. ASSUME NEW i \in Instances, RegisterFails(i) PROVE OwnPort'
  BY <1>26, <1>0 DEF RegisterFails, Withdraw
<1>27. CASE UNCHANGED vars
  BY <1>27 DEF vars, sockets
<1>28. QED
  BY <1>1, <1>2, <1>3, <1>4, <1>5, <1>6, <1>7, <1>8, <1>9, <1>10, <1>11,
     <1>12, <1>13, <1>14, <1>15, <1>16, <1>17, <1>18, <1>19, <1>20, <1>21,
     <1>22, <1>23, <1>24, <1>25, <1>26, <1>27 DEF Next, Instance, Open,
     CreateServices, Work, Cleanup, Environment

(* Two processes whose port searches raced do not both listen, for every   *)
(* number of processes and ports.                                          *)
THEOREM NoSharedPort == Spec => []OwnPort
<1>1. Init => OwnPort
  BY DEF Init, OwnPort
<1>2. QED
  BY <1>1, InitTypeOK, NextTypeOK, InitSockets, NextSockets, NextOwnPort, PTL DEF Spec

-----------------------------------------------------------------------------
(* The daemon knows an instance while it is in use: a client has a         *)
(* connection only then, and a group holds a service of its own.           *)
EntriesInPlace ==
  \A i \in Instances :
    /\ conn[i] # "none" => pc[i] \in {"services", "commit", "loop"}
    /\ conn[i] = "none" => events[i] = << >>
    /\ \/ entry[i] = NoEntry
       \/ /\ entry[i].state # "none" /\ conn[i] = "up"
          /\ entry[i].port = port[i] /\ entry[i].label[1] = label[i][1]
    /\ (pc[i] = "commit" /\ conn[i] = "up") => entry[i].state = "added"

LEMMA InitEntries == Init => EntriesInPlace
  BY DEF Init, EntriesInPlace

LEMMA AnotherName == \A l \in Labels : Alternative(l)[1] = l[1]
  BY DEF Labels, Alternative

LEMMA NextEntries ==
  ASSUME TypeOK, SocketsInPlace, EntriesInPlace, [Next]_vars PROVE EntriesInPlace'
<1> USE DEF EntriesInPlace, Set, Goto, sockets, client, NoEntry, Entry
<1>0. /\ pc \in [Instances -> Phases] /\ port \in [Instances -> Ports]
      /\ conn \in [Instances -> {"none", "up", "lost"}]
      /\ events \in [Instances -> Seq(Events)]
      /\ label \in [Instances -> Labels]
      /\ entry \in [Instances ->
              [state : {"none", "added", "registering", "established"},
               label : Labels, port : Ports]]
  BY DEF TypeOK
<1>1. ASSUME NEW i \in Instances, New(i) PROVE EntriesInPlace'
  BY <1>1, <1>0, AnotherName DEF New
<1>2. ASSUME NEW i \in Instances, Bind(i) PROVE EntriesInPlace'
  <2>1. conn[i] = "none" /\ entry[i] = NoEntry /\ pc[i] # "commit"
    BY <1>2 DEF Bind
  <2>2. /\ pc'[i] \notin {"services", "commit", "loop"}
        /\ \A j \in Instances \ {i} : /\ pc'[j] = pc[j] /\ port'[j] = port[j]
                                      /\ label'[j] = label[j]
    BY <1>2, <1>0 DEF Bind, Release, Free
  <2>3. QED
    BY <1>2, <2>1, <2>2, <1>0 DEF Bind
<1>3. ASSUME NEW i \in Instances, Listen(i) PROVE EntriesInPlace'
  BY <1>3, <1>0, AnotherName DEF Listen, Release, Free
<1>4. ASSUME NEW i \in Instances, SetupFails(i) PROVE EntriesInPlace'
  BY <1>4, <1>0, AnotherName DEF SetupFails, Free
<1>5. ASSUME NEW i \in Instances, DiscoveryInit(i) PROVE EntriesInPlace'
  BY <1>5, <1>0, AnotherName DEF DiscoveryInit, InitSucceeds, ReinitFails
<1>6. ASSUME NEW i \in Instances, GroupFails(i) PROVE EntriesInPlace'
  BY <1>6, <1>0, AnotherName DEF GroupFails, GiveUp, Return
<1>7. ASSUME NEW i \in Instances, AlreadyAdded(i) PROVE EntriesInPlace'
  BY <1>7, <1>0, AnotherName DEF AlreadyAdded, HasGroup, Return
<1>8. ASSUME NEW i \in Instances, AddFails(i) PROVE EntriesInPlace'
  <2>1. CASE Crash(i)
    BY <2>1, <1>0 DEF Crash, Free, Disconnect
  <2>2. CASE /\ HasGroup(i) /\ GiveUp(i)
             /\ UNCHANGED <<wanted, sockets, avahi_poll, avahi_name, label,
                            conn, events, entry, outside>>
    BY <2>2, <1>0 DEF HasGroup, GiveUp, Return
  <2>3. QED
    BY <1>8, <2>1, <2>2 DEF AddFails
<1>9. ASSUME NEW i \in Instances, LocalCollision(i) PROVE EntriesInPlace'
  BY <1>9, <1>0, AnotherName DEF LocalCollision, Rename, HasGroup
<1>10. ASSUME NEW i \in Instances, Add(i) PROVE EntriesInPlace'
  BY <1>10, <1>0, AnotherName DEF Add, HasGroup, InGroup
<1>11. ASSUME NEW i \in Instances, Commit(i) PROVE EntriesInPlace'
  <2>1. CASE GiveUp(i) /\ UNCHANGED entry
    BY <1>11, <2>1, <1>0 DEF Commit, GiveUp, Return
  <2>2. CASE /\ conn[i] = "up" /\ Return(i)
             /\ entry' = Set(entry, i, Entry("registering", entry[i].label, entry[i].port))
    BY <1>11, <2>2, <1>0 DEF Commit, Return
  <2>3. QED
    BY <1>11, <2>1, <2>2 DEF Commit
<1>12. ASSUME NEW i \in Instances, HostRunning(i) PROVE EntriesInPlace'
  BY <1>12, <1>0, AnotherName DEF HostRunning, Dispatches, Polls
<1>13. ASSUME NEW i \in Instances, HostUnsettled(i) PROVE EntriesInPlace'
  BY <1>13, <1>0, AnotherName DEF HostUnsettled, Dispatches, Polls
<1>14. ASSUME NEW i \in Instances, Failure(i) PROVE EntriesInPlace'
  BY <1>14, <1>0, AnotherName DEF Failure, Dispatches, Polls
<1>15. ASSUME NEW i \in Instances, NameCollision(i) PROVE EntriesInPlace'
  BY <1>15, <1>0, AnotherName DEF NameCollision, Dispatches, Polls, Rename
<1>16. ASSUME NEW i \in Instances, Restart(i) PROVE EntriesInPlace'
  <2>1. CASE Crash(i)
    BY <2>1, <1>0 DEF Crash, Free, Disconnect
  <2>2. CASE /\ TempName(i) /\ Disconnect(i) /\ Goto(i, "reinit")
             /\ UNCHANGED sockets
    <3>1. \A j \in Instances \ {i} : label'[j] = label[j]
      BY <2>2, <1>0 DEF TempName
    <3>2. QED
      BY <2>2, <3>1, <1>0 DEF Disconnect
  <2>3. QED
    BY <1>16, <2>1, <2>2 DEF Restart, DiscoveryCleanup
<1>17. ASSUME NEW i \in Instances, CleanupDiscovery(i) PROVE EntriesInPlace'
  BY <1>17, <1>0, AnotherName DEF CleanupDiscovery, DiscoveryCleanup,
     Disconnect, Crash, Free
<1>18. ASSUME NEW i \in Instances, CleanupHandle(i) PROVE EntriesInPlace'
  BY <1>18, <1>0, AnotherName DEF CleanupHandle, Release, Free
<1>19. CASE DaemonStops
  BY <1>19, <1>0, AnotherName DEF DaemonStops, Tell
<1>20. CASE DaemonStarts
  BY <1>20, <1>0, AnotherName DEF DaemonStarts
<1>21. CASE HostSettles
  BY <1>21, <1>0, AnotherName DEF HostSettles, Tell
<1>22. CASE HostChanges
  BY <1>22, <1>0, AnotherName DEF HostChanges, Tell
<1>23. ASSUME NEW l \in OtherLabels, Claim(l) PROVE EntriesInPlace'
  BY <1>23, <1>0, AnotherName DEF Claim
<1>24. ASSUME NEW i \in Instances, Establish(i) PROVE EntriesInPlace'
  BY <1>24, <1>0, AnotherName DEF Establish
<1>25. ASSUME NEW i \in Instances, Collide(i) PROVE EntriesInPlace'
  BY <1>25, <1>0, AnotherName DEF Collide, Withdraw
<1>26. ASSUME NEW i \in Instances, RegisterFails(i) PROVE EntriesInPlace'
  BY <1>26, <1>0, AnotherName DEF RegisterFails, Withdraw
<1>27. CASE UNCHANGED vars
  BY <1>27 DEF vars, sockets
<1>28. QED
  BY <1>1, <1>2, <1>3, <1>4, <1>5, <1>6, <1>7, <1>8, <1>9, <1>10, <1>11,
     <1>12, <1>13, <1>14, <1>15, <1>16, <1>17, <1>18, <1>19, <1>20, <1>21,
     <1>22, <1>23, <1>24, <1>25, <1>26, <1>27 DEF Next, Instance, Open,
     CreateServices, Work, Cleanup, Environment

LEMMA InPlace == Spec => [](TypeOK /\ SocketsInPlace /\ EntriesInPlace)
<1>1. QED
  BY InitTypeOK, NextTypeOK, InitSockets, NextSockets, InitEntries, NextEntries,
     PTL DEF Spec

(* A failed dsvdc_new or a finished dsvdc_cleanup leaves nothing with the  *)
(* kernel or the daemon, whichever call failed before it.                  *)
THEOREM NothingLeft == Spec => []NothingLeftBehind
<1>1. TypeOK /\ SocketsInPlace /\ EntriesInPlace => NothingLeftBehind
  BY DEF TypeOK, SocketsInPlace, EntriesInPlace, NothingLeftBehind
<1>2. QED
  BY <1>1, InPlace, PTL

-----------------------------------------------------------------------------
(* What is published. *)

(* The handle's name is the one asked for, or an alternative of it. *)
NamesKept == \A i \in Instances : label[i][1] = FirstLabel(wanted[i].name)[1]

LEMMA NextNamesKept ==
  ASSUME "strdup" \notin MayFail, TypeOK, NamesKept, [Next]_vars PROVE NamesKept'
<1> USE DEF NamesKept, Set, Nothing, Fault
<1>0. /\ label \in [Instances -> Labels]
      /\ wanted \in [Instances -> [port : {0} \cup FixedPorts,
                                   name : Names \cup {NULL}]]
  BY DEF TypeOK
<1>1. ASSUME NEW i \in Instances, New(i) PROVE NamesKept'
  <2>1. PICK name \in Names, p \in {0} \cup FixedPorts :
          /\ wanted' = Set(wanted, i, [port |-> p, name |-> name])
          /\ label' = Set(label, i, FirstLabel(name))
    BY <1>1 DEF New
  <2>2. QED
    BY <2>1, <1>0
<1>2. ASSUME NEW i \in Instances, Bind(i) PROVE NamesKept'
  BY <1>2, <1>0, AnotherName DEF Bind, Release, Free
<1>3. ASSUME NEW i \in Instances, Listen(i) PROVE NamesKept'
  BY <1>3, <1>0, AnotherName DEF Listen, Release, Free
<1>4. ASSUME NEW i \in Instances, SetupFails(i) PROVE NamesKept'
  BY <1>4, <1>0, AnotherName DEF SetupFails, Free
<1>5. ASSUME NEW i \in Instances, DiscoveryInit(i) PROVE NamesKept'
  BY <1>5, <1>0, AnotherName DEF DiscoveryInit
<1>6. ASSUME NEW i \in Instances, GroupFails(i) PROVE NamesKept'
  BY <1>6, <1>0, AnotherName DEF GroupFails
<1>7. ASSUME NEW i \in Instances, AlreadyAdded(i) PROVE NamesKept'
  BY <1>7, <1>0, AnotherName DEF AlreadyAdded
<1>8. ASSUME NEW i \in Instances, AddFails(i) PROVE NamesKept'
  BY <1>8, <1>0, AnotherName DEF AddFails, Crash, Free
<1>9. ASSUME NEW i \in Instances, LocalCollision(i) PROVE NamesKept'
  BY <1>9, <1>0, AnotherName DEF LocalCollision, Rename
<1>10. ASSUME NEW i \in Instances, Add(i) PROVE NamesKept'
  BY <1>10, <1>0, AnotherName DEF Add
<1>11. ASSUME NEW i \in Instances, Commit(i) PROVE NamesKept'
  BY <1>11, <1>0, AnotherName DEF Commit
<1>12. ASSUME NEW i \in Instances, HostRunning(i) PROVE NamesKept'
  BY <1>12, <1>0, AnotherName DEF HostRunning
<1>13. ASSUME NEW i \in Instances, HostUnsettled(i) PROVE NamesKept'
  BY <1>13, <1>0, AnotherName DEF HostUnsettled
<1>14. ASSUME NEW i \in Instances, Failure(i) PROVE NamesKept'
  BY <1>14, <1>0, AnotherName DEF Failure
<1>15. ASSUME NEW i \in Instances, NameCollision(i) PROVE NamesKept'
  BY <1>15, <1>0, AnotherName DEF NameCollision, Rename
<1>16. ASSUME NEW i \in Instances, Restart(i) PROVE NamesKept'
  BY <1>16, <1>0, AnotherName DEF Restart, TempName, Crash, Free
<1>17. ASSUME NEW i \in Instances, CleanupDiscovery(i) PROVE NamesKept'
  BY <1>17, <1>0, AnotherName DEF CleanupDiscovery, Crash, Free
<1>18. ASSUME NEW i \in Instances, CleanupHandle(i) PROVE NamesKept'
  BY <1>18, <1>0, AnotherName DEF CleanupHandle, Release, Free
<1>19. CASE DaemonStops
  BY <1>19, <1>0, AnotherName DEF DaemonStops
<1>20. CASE DaemonStarts
  BY <1>20, <1>0, AnotherName DEF DaemonStarts
<1>21. CASE HostSettles
  BY <1>21, <1>0, AnotherName DEF HostSettles
<1>22. CASE HostChanges
  BY <1>22, <1>0, AnotherName DEF HostChanges
<1>23. ASSUME NEW l \in OtherLabels, Claim(l) PROVE NamesKept'
  BY <1>23, <1>0, AnotherName DEF Claim
<1>24. ASSUME NEW i \in Instances, Establish(i) PROVE NamesKept'
  BY <1>24, <1>0, AnotherName DEF Establish
<1>25. ASSUME NEW i \in Instances, Collide(i) PROVE NamesKept'
  BY <1>25, <1>0, AnotherName DEF Collide, Withdraw
<1>26. ASSUME NEW i \in Instances, RegisterFails(i) PROVE NamesKept'
  BY <1>26, <1>0, AnotherName DEF RegisterFails, Withdraw
<1>27. CASE UNCHANGED vars
  BY <1>27 DEF vars, NamesKept
<1>28. QED
  BY <1>1, <1>2, <1>3, <1>4, <1>5, <1>6, <1>7, <1>8, <1>9, <1>10, <1>11,
     <1>12, <1>13, <1>14, <1>15, <1>16, <1>17, <1>18, <1>19, <1>20, <1>21,
     <1>22, <1>23, <1>24, <1>25, <1>26, <1>27 DEF Next, Instance, Open,
     CreateServices, Work, Cleanup, Environment

(* What is published is the port the instance listens on, under a form of  *)
(* its name, as long as dsvdc_discovery_work can copy that name.           *)
THEOREM AdvertisedFaithfully ==
  ASSUME "strdup" \notin MayFail
  PROVE  Spec => []WhatIsAdvertised
<1>1. Init => NamesKept
  BY DEF Init, NamesKept, Nothing
<1>2. TypeOK /\ SocketsInPlace /\ EntriesInPlace /\ NamesKept => WhatIsAdvertised
  <2>1. SUFFICES ASSUME TypeOK, SocketsInPlace, EntriesInPlace, NamesKept,
                        NEW i \in Instances, Published(i)
                 PROVE  /\ listen_fd[i] = "listening" /\ entry[i].port = port[i]
                        /\ entry[i].label[1] = FirstLabel(wanted[i].name)[1]
    BY DEF WhatIsAdvertised
  <2>2. /\ conn[i] = "up"
        /\ entry[i].port = port[i] /\ entry[i].label[1] = label[i][1]
    BY <2>1 DEF EntriesInPlace, Published, NoEntry
  <2>3. pc[i] \in {"services", "commit", "loop"} /\ listen_fd[i] = "listening"
    BY <2>1, <2>2 DEF EntriesInPlace, SocketsInPlace
  <2>4. QED
    BY <2>1, <2>2, <2>3 DEF NamesKept
<1>3. TypeOK /\ NamesKept /\ [Next]_vars => NamesKept'
  BY NextNamesKept
<1>4. QED
  BY <1>1, <1>2, <1>3, InPlace, InitTypeOK, NextTypeOK, PTL DEF Spec

-----------------------------------------------------------------------------
(* The failures of Avahi that the code survives: those other than of       *)
(* dsvdc_discovery_init when the worker calls it, which needs a daemon     *)
(* that is back by then, and of avahi_alternative_service_name.            *)
Survivable == MayFail \cap {"reinit", "outage", "alternative"} = {}

(* No pointer is left to what was freed, and the worker has what it needs. *)
PointersGood ==
  /\ \A i \in Instances :
       /\ ~UsesReleased(i) /\ pc[i] # "crashed"
       /\ pc[i] \in {"services", "commit", "loop"}
            => avahi_poll[i] = "live" /\ avahi_name[i] = "live"
  /\ daemon = "down" =>
       \A i \in Instances : pc[i] \in {"none", "bind", "listen", "setup"}

LEMMA InitPointers == Init => PointersGood
  BY DEF Init, PointersGood, UsesReleased

LEMMA NextPointers ==
  ASSUME Survivable, TypeOK, EntriesInPlace, PointersGood, [Next]_vars
  PROVE  PointersGood'
<1> USE DEF PointersGood, UsesReleased, Set, Goto, pointers, outside, Survivable
<1>0. /\ pc \in [Instances -> Phases]
      /\ avahi_poll \in [Instances -> Pointer] /\ avahi_client \in [Instances -> Pointer]
      /\ avahi_group \in [Instances -> Pointer] /\ avahi_name \in [Instances -> Pointer]
      /\ conn \in [Instances -> {"none", "up", "lost"}]
  BY DEF TypeOK
<1>1. ASSUME NEW i \in Instances, New(i) PROVE PointersGood'
  BY <1>1, <1>0 DEF New
<1>2. ASSUME NEW i \in Instances, Bind(i) PROVE PointersGood'
  BY <1>2, <1>0 DEF Bind, Release
<1>3. ASSUME NEW i \in Instances, Listen(i) PROVE PointersGood'
  BY <1>3, <1>0 DEF Listen, Release
<1>4. ASSUME NEW i \in Instances, SetupFails(i) PROVE PointersGood'
  BY <1>4, <1>0 DEF SetupFails
<1>5. ASSUME NEW i \in Instances, DiscoveryInit(i) PROVE PointersGood'
  BY <1>5, <1>0 DEF DiscoveryInit, InitSucceeds, ReinitFails, InitCannot,
     Fault
<1>6. ASSUME NEW i \in Instances, GroupFails(i) PROVE PointersGood'
  BY <1>6, <1>0 DEF GroupFails, GiveUp, Return
<1>7. ASSUME NEW i \in Instances, AlreadyAdded(i) PROVE PointersGood'
  BY <1>7, <1>0 DEF AlreadyAdded, HasGroup, Return
<1>8. ASSUME NEW i \in Instances, AddFails(i) PROVE PointersGood'
  BY <1>8, <1>0 DEF AddFails, HasGroup, GiveUp, Return, EntriesInPlace
<1>9. ASSUME NEW i \in Instances, LocalCollision(i) PROVE PointersGood'
  BY <1>9, <1>0 DEF LocalCollision, Rename, HasGroup, Fault
<1>10. ASSUME NEW i \in Instances, Add(i) PROVE PointersGood'
  BY <1>10, <1>0 DEF Add, HasGroup
<1>11. ASSUME NEW i \in Instances, Commit(i) PROVE PointersGood'
  BY <1>11, <1>0 DEF Commit, GiveUp, Return
<1>12. ASSUME NEW i \in Instances, HostRunning(i) PROVE PointersGood'
  BY <1>12, <1>0 DEF HostRunning, Dispatches, Polls
<1>13. ASSUME NEW i \in Instances, HostUnsettled(i) PROVE PointersGood'
  BY <1>13, <1>0 DEF HostUnsettled
<1>14. ASSUME NEW i \in Instances, Failure(i) PROVE PointersGood'
  BY <1>14, <1>0 DEF Failure
<1>15. ASSUME NEW i \in Instances, NameCollision(i) PROVE PointersGood'
  BY <1>15, <1>0 DEF NameCollision, Dispatches, Polls, Rename, Fault
<1>16. ASSUME NEW i \in Instances, Restart(i) PROVE PointersGood'
  BY <1>16, <1>0 DEF Restart, DiscoveryCleanup, NoPointers
<1>17. ASSUME NEW i \in Instances, CleanupDiscovery(i) PROVE PointersGood'
  BY <1>17, <1>0 DEF CleanupDiscovery, DiscoveryCleanup, NoPointers
<1>18. ASSUME NEW i \in Instances, CleanupHandle(i) PROVE PointersGood'
  BY <1>18, <1>0 DEF CleanupHandle, Release
<1>19. CASE DaemonStops
  BY <1>19, <1>0 DEF DaemonStops
<1>20. CASE DaemonStarts
  BY <1>20, <1>0 DEF DaemonStarts
<1>21. CASE HostSettles
  BY <1>21, <1>0 DEF HostSettles
<1>22. CASE HostChanges
  BY <1>22, <1>0 DEF HostChanges
<1>23. ASSUME NEW l \in OtherLabels, Claim(l) PROVE PointersGood'
  BY <1>23, <1>0 DEF Claim
<1>24. ASSUME NEW i \in Instances, Establish(i) PROVE PointersGood'
  BY <1>24, <1>0 DEF Establish
<1>25. ASSUME NEW i \in Instances, Collide(i) PROVE PointersGood'
  BY <1>25, <1>0 DEF Collide, Withdraw
<1>26. ASSUME NEW i \in Instances, RegisterFails(i) PROVE PointersGood'
  BY <1>26, <1>0 DEF RegisterFails, Withdraw
<1>27. CASE UNCHANGED vars
  BY <1>27 DEF vars, pointers
<1>28. QED
  BY <1>1, <1>2, <1>3, <1>4, <1>5, <1>6, <1>7, <1>8, <1>9, <1>10, <1>11,
     <1>12, <1>13, <1>14, <1>15, <1>16, <1>17, <1>18, <1>19, <1>20, <1>21,
     <1>22, <1>23, <1>24, <1>25, <1>26, <1>27 DEF Next, Instance, Open,
     CreateServices, Work, Cleanup, Environment

(* No released or null pointer is used, if Avahi fails survivably only. *)
THEOREM PointersNeverDangle ==
  ASSUME Survivable PROVE Spec => []ReleasedNeverUsed
<1>1. PointersGood => ReleasedNeverUsed
  BY DEF PointersGood, ReleasedNeverUsed
<1>2. TypeOK /\ EntriesInPlace /\ PointersGood /\ [Next]_vars => PointersGood'
  BY NextPointers
<1>3. QED
  BY <1>1, <1>2, InPlace, InitPointers, PTL DEF Spec

-----------------------------------------------------------------------------
(* Every step is a step of ServiceContract or changes nothing of it. *)
ContractStep == [Contract!Next]_<<listener, service>>

LEMMA Unlisted ==
  ASSUME NEW i \in Instances, entry[i] = NoEntry
  PROVE  ~Published(i) /\ service[i] = <<>>
  BY DEF Published, service, NoEntry

(* Services that go away are a withdrawal. *)
LEMMA Withdrawn ==
  ASSUME UNCHANGED <<port, listen_fd>>,
         \A i \in Instances : entry'[i] = entry[i] \/ entry'[i] = NoEntry
  PROVE  ContractStep
<1> DEFINE gone == {i \in Instances : entry'[i] = NoEntry}
<1>1. \A i \in Instances : service'[i] = IF i \in gone THEN <<>> ELSE service[i]
  BY DEF service, Published, NoEntry
<1>2. service' = [i \in Instances |-> IF i \in gone THEN <<>> ELSE service[i]]
  BY <1>1 DEF service
<1>3. UNCHANGED listener
  BY DEF listener
<1>4. Contract!Withdraw
  BY <1>2, <1>3 DEF Contract!Withdraw
<1>5. QED
  BY <1>4 DEF ContractStep, Contract!Next

LEMMA Unaffected ==
  ASSUME UNCHANGED <<port, listen_fd, entry>> PROVE ContractStep
  BY DEF ContractStep, listener, service, Published

(* A socket that goes away is a port given up. *)
LEMMA Closed ==
  ASSUME TypeOK, EntriesInPlace, NEW i \in Instances, Free(i), UNCHANGED entry,
         pc[i] \notin {"services", "commit", "loop"}
  PROVE  ContractStep
<1>1. service[i] = <<>>
  BY Unlisted DEF EntriesInPlace
<1>2. UNCHANGED service
  BY DEF service, Published
<1>3. listener' = [listener EXCEPT ![i] = 0]
  BY DEF listener, Free, Set, TypeOK
<1>4. Contract!Close(i)
  BY <1>1, <1>2, <1>3 DEF Contract!Close
<1>5. QED
  BY <1>4 DEF ContractStep, Contract!Next

LEMMA NextContract ==
  ASSUME Survivable, TypeOK, SocketsInPlace, EntriesInPlace, PointersGood,
         [Next]_vars
  PROVE  ContractStep
<1> USE DEF Set, Goto, sockets, client
<1>0. /\ pc \in [Instances -> Phases] /\ port \in [Instances -> Ports]
      /\ listen_fd \in [Instances -> {"none", "open", "bound", "listening"}]
      /\ entry \in [Instances ->
              [state : {"none", "added", "registering", "established"},
               label : Labels, port : Ports]]
  BY DEF TypeOK
<1>a. \A i \in Instances : ~Crash(i)
  BY <1>0, NextPointers DEF Crash, PointersGood
<1>1. ASSUME NEW i \in Instances, New(i) PROVE ContractStep
  <2>1. /\ listen_fd[i] = "none" /\ listen_fd'[i] = "open"
        /\ \A j \in Instances \ {i} : port'[j] = port[j] /\ listen_fd'[j] = listen_fd[j]
    BY <1>1, <1>0 DEF New, SocketsInPlace
  <2>2. UNCHANGED listener
    BY <2>1 DEF listener
  <2>3. UNCHANGED service
    BY <1>1 DEF New, service, Published
  <2>4. QED
    BY <2>2, <2>3 DEF ContractStep
<1>2. ASSUME NEW i \in Instances, Bind(i) PROVE ContractStep
  <2>1. /\ listen_fd[i] = "open" /\ listen_fd'[i] # "listening"
        /\ \A j \in Instances \ {i} : port'[j] = port[j] /\ listen_fd'[j] = listen_fd[j]
    BY <1>2, <1>0 DEF Bind, SocketsInPlace, Release, Free
  <2>2. UNCHANGED listener
    BY <2>1 DEF listener
  <2>3. UNCHANGED service
    BY <1>2 DEF Bind, service, Published
  <2>4. QED
    BY <2>2, <2>3 DEF ContractStep
<1>3. ASSUME NEW i \in Instances, Listen(i) PROVE ContractStep
  <2>1. CASE Release(i)
    BY <1>3, <2>1, Closed DEF Listen, Release
  <2>2. CASE /\ ~Listening(port[i]) /\ listen_fd' = Set(listen_fd, i, "listening")
             /\ UNCHANGED port
    <3>1. listener[i] = 0 /\ listener'[i] = port[i] /\ port[i] \in Nat \ {0}
      BY <1>3, <2>2, <1>0, BoundsAssumption
         DEF Listen, SocketsInPlace, listener, Ports
    <3>2. \A j \in Instances : listener[j] # port[i]
      BY <2>2, <3>1 DEF Listening, listener
    <3>3. listener' = [listener EXCEPT ![i] = listener'[i]]
      BY <2>2, <1>0 DEF listener
    <3>4. UNCHANGED service
      BY <1>3 DEF Listen, service, Published
    <3>5. Contract!Listen(i)
      BY <3>1, <3>2, <3>3, <3>4 DEF Contract!Listen
    <3>6. QED
      BY <3>5 DEF ContractStep, Contract!Next
  <2>3. QED
    BY <1>3, <2>1, <2>2 DEF Listen
<1>4. ASSUME NEW i \in Instances, SetupFails(i) PROVE ContractStep
  BY <1>4, Closed DEF SetupFails
<1>5. ASSUME NEW i \in Instances, DiscoveryInit(i) PROVE ContractStep
  BY <1>5, Unaffected DEF DiscoveryInit
<1>6. ASSUME NEW i \in Instances, GroupFails(i) PROVE ContractStep
  BY <1>6, Unaffected DEF GroupFails
<1>7. ASSUME NEW i \in Instances, AlreadyAdded(i) PROVE ContractStep
  BY <1>7, Unaffected DEF AlreadyAdded
<1>8. ASSUME NEW i \in Instances, AddFails(i) PROVE ContractStep
  BY <1>8, <1>a, Unaffected DEF AddFails
<1>9. ASSUME NEW i \in Instances, LocalCollision(i) PROVE ContractStep
  <2>1. \A j \in Instances : entry'[j] = entry[j] \/ entry'[j] = NoEntry
    BY <1>9, <1>0, <1>a DEF LocalCollision, Rename, HasGroup
  <2>2. QED
    BY <1>9, <1>a, <2>1, Withdrawn DEF LocalCollision
<1>10. ASSUME NEW i \in Instances, Add(i) PROVE ContractStep
  <2>1. /\ ~Published(i) /\ entry'[i].state = "added"
        /\ \A j \in Instances \ {i} : entry'[j] = entry[j]
    BY <1>10, <1>0 DEF Add, InGroup, Entry, Published
  <2>2. UNCHANGED service
    BY <2>1 DEF service, Published
  <2>3. UNCHANGED listener
    BY <1>10 DEF Add, listener
  <2>4. QED
    BY <2>2, <2>3 DEF ContractStep
<1>11. ASSUME NEW i \in Instances, Commit(i) PROVE ContractStep
  <2>1. CASE UNCHANGED entry
    BY <1>11, <2>1, Unaffected DEF Commit
  <2>2. CASE /\ conn[i] = "up"
             /\ entry' = Set(entry, i, Entry("registering", entry[i].label, entry[i].port))
    <3>1. /\ entry[i].state = "added" /\ entry[i].port = port[i]
          /\ listener[i] = port[i] /\ port[i] # 0 /\ entry[i].label \in Labels
      BY <1>11, <2>2, <1>0
         DEF Commit, EntriesInPlace, SocketsInPlace, NoEntry, listener
    <3>2. service[i] = <<>>
      BY <3>1 DEF service, Published
    <3>3. service'[i] = <<entry[i].label, entry[i].port>>
      BY <2>2, <1>0 DEF service, Published, Entry
    <3>4. service' = [service EXCEPT ![i] = service'[i]]
      BY <2>2, <1>0 DEF service, Published
    <3>5. UNCHANGED listener
      BY <1>11 DEF Commit, listener
    <3>6. Contract!Publish(i)
      BY <3>1, <3>2, <3>3, <3>4, <3>5 DEF Contract!Publish
    <3>7. QED
      BY <3>6 DEF ContractStep, Contract!Next
  <2>3. QED
    BY <1>11, <2>1, <2>2 DEF Commit
<1>12. ASSUME NEW i \in Instances, HostRunning(i) PROVE ContractStep
  BY <1>12, Unaffected DEF HostRunning
<1>13. ASSUME NEW i \in Instances, HostUnsettled(i) PROVE ContractStep
  <2>1. \A j \in Instances : entry'[j] = entry[j] \/ entry'[j] = NoEntry
    BY <1>13, <1>0, <1>a DEF HostUnsettled, Dispatches, Polls
  <2>2. QED
    BY <1>13, <1>a, <2>1, Withdrawn DEF HostUnsettled
<1>14. ASSUME NEW i \in Instances, Failure(i) PROVE ContractStep
  BY <1>14, Unaffected DEF Failure
<1>15. ASSUME NEW i \in Instances, NameCollision(i) PROVE ContractStep
  BY <1>15, Unaffected DEF NameCollision
<1>16. ASSUME NEW i \in Instances, Restart(i) PROVE ContractStep
  <2>1. \A j \in Instances : entry'[j] = entry[j] \/ entry'[j] = NoEntry
    BY <1>16, <1>0, <1>a DEF Restart, TempName, DiscoveryCleanup, Disconnect, Crash, Free
  <2>2. QED
    BY <1>16, <1>a, <2>1, Withdrawn DEF Restart
<1>17. ASSUME NEW i \in Instances, CleanupDiscovery(i) PROVE ContractStep
  <2>1. \A j \in Instances : entry'[j] = entry[j] \/ entry'[j] = NoEntry
    BY <1>17, <1>0, <1>a DEF CleanupDiscovery, DiscoveryCleanup, Disconnect, Crash, Free
  <2>2. QED
    BY <1>17, <1>a, <2>1, Withdrawn DEF CleanupDiscovery
<1>18. ASSUME NEW i \in Instances, CleanupHandle(i) PROVE ContractStep
  BY <1>18, Closed DEF CleanupHandle, Release
<1>19. CASE DaemonStops
  <2>1. \A j \in Instances : entry'[j] = entry[j] \/ entry'[j] = NoEntry
    BY <1>19, <1>0, <1>a DEF DaemonStops, Tell
  <2>2. QED
    BY <1>19, <1>a, <2>1, Withdrawn DEF DaemonStops
<1>20. CASE DaemonStarts
  BY <1>20, Unaffected DEF DaemonStarts
<1>21. CASE HostSettles
  BY <1>21, Unaffected DEF HostSettles
<1>22. CASE HostChanges
  BY <1>22, Unaffected DEF HostChanges
<1>23. ASSUME NEW l \in OtherLabels, Claim(l) PROVE ContractStep
  BY <1>23, Unaffected DEF Claim
<1>24. ASSUME NEW i \in Instances, Establish(i) PROVE ContractStep
  <2>1. \A j \in Instances : /\ Published(j)' <=> Published(j)
                             /\ entry'[j].label = entry[j].label
                             /\ entry'[j].port = entry[j].port
    BY <1>24, <1>0 DEF Establish, Entry, Published
  <2>2. UNCHANGED service
    BY <2>1 DEF service
  <2>3. UNCHANGED listener
    BY <1>24 DEF Establish, listener
  <2>4. QED
    BY <2>2, <2>3 DEF ContractStep
<1>25. ASSUME NEW i \in Instances, Collide(i) PROVE ContractStep
  <2>1. \A j \in Instances : entry'[j] = entry[j] \/ entry'[j] = NoEntry
    BY <1>25, <1>0, <1>a DEF Collide, Withdraw
  <2>2. QED
    BY <1>25, <1>a, <2>1, Withdrawn DEF Collide, Withdraw
<1>26. ASSUME NEW i \in Instances, RegisterFails(i) PROVE ContractStep
  <2>1. \A j \in Instances : entry'[j] = entry[j] \/ entry'[j] = NoEntry
    BY <1>26, <1>0, <1>a DEF RegisterFails, Withdraw
  <2>2. QED
    BY <1>26, <1>a, <2>1, Withdrawn DEF RegisterFails, Withdraw
<1>27. CASE UNCHANGED vars
  BY <1>27, Unaffected DEF vars
<1>28. QED
  BY <1>1, <1>2, <1>3, <1>4, <1>5, <1>6, <1>7, <1>8, <1>9, <1>10, <1>11,
     <1>12, <1>13, <1>14, <1>15, <1>16, <1>17, <1>18, <1>19, <1>20, <1>21,
     <1>22, <1>23, <1>24, <1>25, <1>26, <1>27 DEF Next, Instance, Open,
     CreateServices, Work, Cleanup, Environment

(* Set-up, discovery and dsvdc_cleanup implement ServiceContract. *)
THEOREM ImplementsServiceContract ==
  ASSUME Survivable PROVE Spec => ServiceContractHolds
<1>1. Init => Contract!Init
  BY DEF Init, Contract!Init, listener, service, Published, NoEntry
<1>2. TypeOK /\ SocketsInPlace /\ EntriesInPlace /\ PointersGood /\ [Next]_vars
        => ContractStep
  BY NextContract
<1>3. TypeOK /\ EntriesInPlace /\ PointersGood /\ [Next]_vars => PointersGood'
  BY NextPointers
<1>4. QED
  BY <1>1, <1>2, <1>3, InPlace, InitPointers, PTL
     DEF Spec, ServiceContractHolds, Contract!Spec, ContractStep
=============================================================================
