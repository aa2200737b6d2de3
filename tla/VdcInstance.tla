----------------------------- MODULE VdcInstance -----------------------------
(***************************************************************************)
(* The life of library instances on one machine: dsvdc_new with its port   *)
(* search, the announcement of the port through the Avahi daemon, the      *)
(* worker's share in it (dsvdc_discovery_work), and dsvdc_cleanup.         *)
(*                                                                         *)
(* The instances belong to different processes; what they share is the     *)
(* machine's ports and the Avahi daemon.  Every call that reaches the      *)
(* kernel or the daemon is a step, so that the steps of two processes      *)
(* interleave.  The Avahi callbacks run inside the call that dispatches    *)
(* them: from avahi_client_new in dsvdc_discovery_init, or from            *)
(* avahi_simple_poll_iterate in dsvdc_discovery_work.                      *)
(*                                                                         *)
(* The daemon and the kernel are external: they are modelled by the calls  *)
(* and callbacks discovery.c and dsvdc.c are written against.              *)
(***************************************************************************)
EXTENDS Integers, Sequences, FiniteSets

CONSTANTS
  Instances,       \* one per process
  DefaultPort,     \* DEFAULT_VDC_PORT
  MaxPort,         \* USHRT_MAX
  FixedPorts,      \* the ports applications ask for, besides 0
  ForeignPorts,    \* ports other programs listen on
  Names,           \* the name arguments applications give; may hold NULL
  DefaultName,     \* DEFAULT_AVAHI_SERVICE_NAME
  NULL,            \* the null pointer as a name argument
  OtherLabels,     \* bound: the names other hosts may claim
  MayFail,         \* bound: the calls that may fail
  MaxFaults,       \* bound: failing calls in a behaviour
  MaxRestarts,     \* bound: stops of the daemon
  MaxHostChanges   \* bound: changes of the host name

Calls == {"bind", "listen", "poll", "name", "client", "group", "txt", "add",
          "commit", "register", "alternative", "strdup"}

(* "reinit": dsvdc_discovery_init may fail when dsvdc_discovery_work calls *)
(* it; "outage": the daemon may stay down until after the worker noticed.  *)
Conditions == {"reinit", "outage"}

ASSUME BoundsAssumption ==
  /\ DefaultPort \in Nat \ {0} /\ MaxPort \in Nat /\ DefaultPort < MaxPort
  /\ FixedPorts \subseteq 1 .. MaxPort
  /\ MaxFaults \in Nat /\ MaxRestarts \in Nat /\ MaxHostChanges \in Nat
  /\ MayFail \subseteq Calls \cup Conditions

ASSUME NamesAssumption == NULL # DefaultName

(* Service names: the one asked for and how often it was made different. *)
Labels == ((Names \ {NULL}) \cup {DefaultName}) \X (Nat \ {0})
FirstLabel(name) == <<IF name = NULL THEN DefaultName ELSE name, 1>>
Alternative(label) == <<label[1], label[2] + 1>>

ASSUME LabelsAssumption == OtherLabels \subseteq Labels

Ports == 0 .. MaxPort  \* 0: none yet

VARIABLES
  pc,            \* where the process of an instance is
  wanted,        \* the port and the name given to dsvdc_new
  port,          \* handle->port
  listen_fd,     \* the state of the socket in handle->listen_fd
  abandoned,     \* ports of listening sockets whose handle was freed
  avahi_poll,    \* handle->avahi_poll: "null", "live" or, freed, "dead"
  avahi_client,  \* handle->avahi_client
  avahi_group,   \* handle->avahi_group
  avahi_name,    \* handle->avahi_name, the pointer
  label,         \* and the name it points to
  quit,          \* avahi_simple_poll_quit was called on avahi_poll
  conn,          \* the client's connection: "none", "up" or "lost"
  events,        \* what the daemon told the client, not yet dispatched
  entry,         \* the service in the client's entry group, at the daemon
  daemon,        \* the state of the daemon and its host name
  claimed,       \* names other hosts have claimed
  faults, restarts, hostChanges  \* how much of each bound is used

sockets == <<port, listen_fd, abandoned>>
pointers == <<avahi_poll, avahi_client, avahi_group, avahi_name>>
client == <<quit, conn, events, entry>>
outside == <<daemon, claimed, restarts, hostChanges>>
vars == <<pc, wanted, sockets, pointers, label, client, outside, faults>>

Nothing == [port |-> 0, name |-> NULL]
NoEntry == [state |-> "none", label |-> FirstLabel(NULL), port |-> 0]
Entry(state, l, p) == [state |-> state, label |-> l, port |-> p]

Events == {"running", "unsettled", "failure", "collision", "groupfailure"}
Phases == {"none", "bind", "listen", "setup", "services", "commit", "loop",
           "reinit", "unlisted", "crashed"}
Pointer == {"null", "live", "dead"}

Init ==
  /\ pc = [i \in Instances |-> "none"]
  /\ wanted = [i \in Instances |-> Nothing]
  /\ port = [i \in Instances |-> 0]
  /\ listen_fd = [i \in Instances |-> "none"]
  /\ abandoned = [i \in Instances |-> {}]
  /\ avahi_poll = [i \in Instances |-> "null"]
  /\ avahi_client = [i \in Instances |-> "null"]
  /\ avahi_group = [i \in Instances |-> "null"]
  /\ avahi_name = [i \in Instances |-> "null"]
  /\ label = [i \in Instances |-> FirstLabel(NULL)]
  /\ quit = [i \in Instances |-> FALSE]
  /\ conn = [i \in Instances |-> "none"]
  /\ events = [i \in Instances |-> <<>>]
  /\ entry = [i \in Instances |-> NoEntry]
  /\ daemon \in {"down", "registering", "running"}
  /\ claimed = {}
  /\ faults = 0 /\ restarts = 0 /\ hostChanges = 0

-----------------------------------------------------------------------------
(* Helpers *)

(* The sockets in the way of one that wants to listen on p. *)
Listening(p) ==
  \/ p \in ForeignPorts
  \/ \E i \in Instances : \/ p \in abandoned[i]
                          \/ (listen_fd[i] = "listening" /\ port[i] = p)

Fault(call) ==
  /\ call \in MayFail /\ faults < MaxFaults
  /\ faults' = faults + 1

NoFault == UNCHANGED faults

Goto(i, phase) == pc' = [pc EXCEPT ![i] = phase]
Set(f, i, value) == [f EXCEPT ![i] = value]

(* Append an event to the queues of the clients the daemon serves. *)
Tell(event) ==
  events' = [i \in Instances |-> IF conn[i] = "up" THEN Append(events[i], event)
                                                  ELSE events[i]]

(* avahi_client_free, or the end of the process: the daemon forgets it. *)
Disconnect(i) ==
  /\ quit' = Set(quit, i, FALSE)
  /\ conn' = Set(conn, i, "none")
  /\ events' = Set(events, i, <<>>)
  /\ entry' = Set(entry, i, NoEntry)

ForgetsGroup(i) ==
  /\ avahi_poll' = Set(avahi_poll, i, "null")
  /\ avahi_client' = Set(avahi_client, i, "null")
  /\ avahi_group' = Set(avahi_group, i, IF avahi_group[i] = "null" THEN "null" ELSE "dead")
  /\ avahi_name' = Set(avahi_name, i, "null")

(* dsvdc_discovery_cleanup on the pointers, when all of them are good. *)
NoPointers(i) ==
  /\ avahi_poll' = Set(avahi_poll, i, "null")
  /\ avahi_client' = Set(avahi_client, i, "null")
  /\ avahi_group' = Set(avahi_group, i, "null")
  /\ avahi_name' = Set(avahi_name, i, "null")

(* The handle is freed. *)
Free(i) ==
  /\ wanted' = Set(wanted, i, Nothing)
  /\ port' = Set(port, i, 0)
  /\ listen_fd' = Set(listen_fd, i, "none")
  /\ label' = Set(label, i, FirstLabel(NULL))

ReleaseOpen(i) ==
  /\ Goto(i, "none")
  /\ UNCHANGED <<wanted, port, listen_fd, label, abandoned>>

(* It is freed with its socket closed. *)
Release(i) ==
  /\ Goto(i, "none")
  /\ Free(i)
  /\ UNCHANGED abandoned

(* The process uses a released or null pointer and ends. *)
Crash(i) ==
  /\ Goto(i, "crashed")
  /\ Free(i)
  /\ abandoned' = Set(abandoned, i, {})
  /\ avahi_poll' = Set(avahi_poll, i, "null")
  /\ avahi_client' = Set(avahi_client, i, "null")
  /\ avahi_group' = Set(avahi_group, i, "null")
  /\ avahi_name' = Set(avahi_name, i, "null")
  /\ Disconnect(i)
  /\ UNCHANGED outside

-----------------------------------------------------------------------------
(* dsvdc_new: the handle and its socket *)

(* dsvdc_setup_handle and the first part of dsvdc_setup_socket.  A failure *)
(* in there releases all it took and leaves the state as it was.           *)
New(i) ==
  /\ pc[i] = "none"
  /\ \E p \in {0} \cup FixedPorts, name \in Names :
       /\ wanted' = Set(wanted, i, [port |-> p, name |-> name])
       /\ port' = Set(port, i, IF p = 0 THEN DefaultPort ELSE p)
       /\ label' = Set(label, i, FirstLabel(name))
  /\ listen_fd' = Set(listen_fd, i, "open")
  /\ Goto(i, "bind")
  /\ NoFault
  /\ UNCHANGED <<abandoned, pointers, client, outside>>

(* Whether the port search goes on: port < USHRT_MAX - 1, so that the last *)
(* port is never tried.                                                    *)
SearchBeyond(i) == wanted[i].port = 0 /\ port[i] < MaxPort + 1
SearchOn(i) == wanted[i].port = 0 /\ port[i] < MaxPort - 1

(* One round of the port search.  With SO_REUSEADDR only a socket that     *)
(* listens is in the way, not one that is merely bound.                    *)
Bind(i) ==
  /\ pc[i] = "bind"
  /\ \/ /\ ~Listening(port[i])
        /\ listen_fd' = Set(listen_fd, i, "bound")
        /\ Goto(i, "listen")
        /\ NoFault
        /\ UNCHANGED <<wanted, port, abandoned, label>>
     \/ /\ Listening(port[i])
        /\ SearchOn(i)
        /\ port' = Set(port, i, port[i] + 1)
        /\ NoFault
        /\ UNCHANGED <<pc, wanted, listen_fd, abandoned, label>>
     \/ Listening(port[i]) /\ ~SearchOn(i) /\ Release(i) /\ NoFault
     \/ Fault("bind") /\ Release(i)
  /\ UNCHANGED <<pointers, client, outside>>

ListenUnchecked(i) ==
  /\ pc[i] = "listen"
  /\ listen_fd' = Set(listen_fd, i, "listening")
  /\ Goto(i, "setup")
  /\ NoFault
  /\ UNCHANGED <<wanted, port, abandoned, label, pointers, client, outside>>

(* listen() refuses a port another socket listens on by now. *)
Listen(i) ==
  /\ pc[i] = "listen"
  /\ \/ /\ ~Listening(port[i])
        /\ listen_fd' = Set(listen_fd, i, "listening")
        /\ Goto(i, "setup")
        /\ NoFault
        /\ UNCHANGED <<wanted, port, abandoned, label>>
     \/ Listening(port[i]) /\ Release(i) /\ NoFault
     \/ Fault("listen") /\ Release(i)
  /\ UNCHANGED <<pointers, client, outside>>

-----------------------------------------------------------------------------
(* dsvdc_discovery_init, from dsvdc_new ("setup") and from the worker      *)
(* ("reinit").                                                             *)

(* avahi_client_new fails without a daemon: the flag that would make it    *)
(* wait for one is not given.                                              *)
InitCannot(i, call) ==
  \/ /\ call = "client" /\ daemon = "down" /\ NoFault
  \/ /\ Fault(call)
     /\ pc[i] = "setup" \/ "reinit" \in MayFail

InitCalls == {"poll", "name", "client"}

(* avahi_client_new calls back before it returns: when the host name is    *)
(* established, dsvdc_avahi_create_services runs while handle->avahi_client*)
(* is still a null pointer.                                                *)
InitSucceeds(i) ==
  /\ daemon # "down" /\ NoFault
  /\ avahi_poll' = Set(avahi_poll, i, "live")
  /\ avahi_name' = Set(avahi_name, i, "live")
  /\ conn' = Set(conn, i, "up")
  /\ IF daemon = "running"
       THEN Goto(i, "services") /\ UNCHANGED avahi_client
       ELSE Goto(i, "loop") /\ avahi_client' = Set(avahi_client, i, "live")

(* dsvdc_discovery_work goes on as if nothing had happened; the pointers   *)
(* are left to what was released.                                          *)
ReinitFails(i, call) ==
  /\ pc[i] = "reinit"
  /\ InitCannot(i, call)
  /\ avahi_poll' = Set(avahi_poll, i, IF call = "poll" THEN "null" ELSE "dead")
  /\ avahi_name' = Set(avahi_name, i, IF call = "client" THEN "dead" ELSE "null")
  /\ Goto(i, "loop")
  /\ UNCHANGED <<avahi_client, conn>>

DiscoveryInit(i) ==
  /\ pc[i] \in {"setup", "reinit"}
  /\ InitSucceeds(i) \/ \E call \in InitCalls : ReinitFails(i, call)
  /\ UNCHANGED <<wanted, sockets, avahi_group, label, quit, events, entry, outside>>

(* dsvdc_new frees the handle when it fails, but leaves the socket open. *)
SetupFails(i) ==
  /\ pc[i] = "setup"
  /\ \E call \in InitCalls : InitCannot(i, call)
  /\ Goto(i, "none")
  /\ Free(i)
  /\ abandoned' = Set(abandoned, i, abandoned[i] \cup {port[i]})
  /\ UNCHANGED <<pointers, client, outside>>

-----------------------------------------------------------------------------
(* dsvdc_avahi_create_services *)

(* Back to the caller: avahi_client_new, whose result the handle gets now, *)
(* or dsvdc_discovery_work, which has it already.                          *)
Return(i) ==
  /\ Goto(i, "loop")
  /\ avahi_client' = Set(avahi_client, i, "live")

(* "goto fail": the next dsvdc_discovery_work starts all over. *)
GiveUp(i) ==
  /\ quit' = Set(quit, i, TRUE)
  /\ Return(i)

InGroup(i) == entry[i].state # "none"

(* No two services of one daemon share a name. *)
NameInUse(i) ==
  \E j \in Instances \ {i} : InGroup(j) /\ entry[j].label = label[i]

(* The entry group cannot be created, or the daemon is gone. *)
GroupFails(i) ==
  /\ pc[i] = "services"
  /\ avahi_group[i] = "null" /\ ((conn[i] = "lost" /\ NoFault) \/ Fault("group"))
  /\ GiveUp(i)
  /\ UNCHANGED <<wanted, sockets, avahi_poll, avahi_group, avahi_name, label,
                 conn, events, entry, outside>>

HasGroup(i) ==
  /\ pc[i] = "services"
  /\ avahi_group[i] = "live" \/ (avahi_group[i] = "null" /\ conn[i] = "up")
  /\ avahi_group' = Set(avahi_group, i, "live")

(* The service is still in the group: nothing to do. *)
AlreadyAdded(i) ==
  /\ HasGroup(i)
  /\ conn[i] = "up" /\ InGroup(i)
  /\ Return(i) /\ NoFault
  /\ UNCHANGED <<wanted, sockets, avahi_poll, avahi_name, label, client, outside>>

(* The service cannot be added.  A group that was released must not be     *)
(* used, and Avahi asserts that there is a name.                           *)
AddFails(i) ==
  /\ pc[i] = "services"
  /\ \/ /\ HasGroup(i)
        /\ ~(conn[i] = "up" /\ InGroup(i)) /\ avahi_name[i] = "live"
        /\ (conn[i] = "lost" /\ NoFault) \/ Fault("txt") \/ Fault("add")
        /\ GiveUp(i)
        /\ UNCHANGED <<wanted, sockets, avahi_poll, avahi_name, label,
                       conn, events, entry, outside>>
     \/ /\ \/ avahi_group[i] = "dead"
           \/ /\ avahi_group[i] = "live" \/ conn[i] = "up"
              /\ ~(conn[i] = "up" /\ InGroup(i)) /\ avahi_name[i] # "live"
        /\ Crash(i) /\ NoFault

(* avahi_alternative_service_name, whose result is not looked at. *)
Rename(i) ==
  \/ /\ avahi_name' = Set(avahi_name, i, "live")
     /\ label' = Set(label, i, Alternative(label[i]))
     /\ NoFault
  \/ /\ Fault("alternative")
     /\ avahi_name' = Set(avahi_name, i, "null")
     /\ UNCHANGED label

(* AVAHI_ERR_COLLISION: rename, reset the group and call itself again. *)
LocalCollision(i) ==
  /\ HasGroup(i)
  /\ conn[i] = "up" /\ ~InGroup(i) /\ avahi_name[i] = "live"
  /\ NameInUse(i)
  /\ Rename(i)
  /\ entry' = Set(entry, i, NoEntry)
  /\ UNCHANGED <<pc, wanted, sockets, avahi_poll, avahi_client, quit, conn,
                 events, outside>>

Add(i) ==
  /\ HasGroup(i)
  /\ conn[i] = "up" /\ ~InGroup(i) /\ avahi_name[i] = "live"
  /\ ~NameInUse(i)
  /\ entry' = Set(entry, i, Entry("added", label[i], port[i]))
  /\ Goto(i, "commit") /\ NoFault
  /\ UNCHANGED <<wanted, sockets, avahi_poll, avahi_client, avahi_name, label,
                 quit, conn, events, outside>>

Commit(i) ==
  /\ pc[i] = "commit"
  /\ \/ /\ conn[i] = "up" /\ NoFault
        /\ entry' = Set(entry, i, Entry("registering", entry[i].label, entry[i].port))
        /\ Return(i) /\ UNCHANGED quit
     \/ /\ (conn[i] = "lost" /\ NoFault) \/ Fault("commit")
        /\ GiveUp(i) /\ UNCHANGED entry
  /\ UNCHANGED <<wanted, sockets, avahi_poll, avahi_group, avahi_name, label,
                 conn, events, outside>>

-----------------------------------------------------------------------------
(* dsvdc_discovery_work, the first thing dsvdc_work does.  One event is    *)
(* dispatched at a time; without one it does nothing.                      *)

Polls(i) == pc[i] = "loop" /\ avahi_poll[i] = "live" /\ ~quit[i]

Dispatches(i, event) ==
  /\ Polls(i)
  /\ events[i] # <<>> /\ Head(events[i]) = event
  /\ events' = Set(events, i, Tail(events[i]))

(* AVAHI_CLIENT_S_RUNNING *)
HostRunning(i) ==
  /\ Dispatches(i, "running")
  /\ Goto(i, "services") /\ NoFault
  /\ UNCHANGED <<wanted, sockets, pointers, label, quit, conn, entry, outside>>

(* AVAHI_CLIENT_S_COLLISION, AVAHI_CLIENT_S_REGISTERING *)
HostUnsettled(i) ==
  /\ Dispatches(i, "unsettled")
  /\ entry' = IF avahi_group[i] = "live" THEN Set(entry, i, NoEntry) ELSE entry
  /\ NoFault
  /\ UNCHANGED <<pc, wanted, sockets, pointers, label, quit, conn, outside>>

FailureLogged(i) ==
  /\ Dispatches(i, "failure") \/ Dispatches(i, "groupfailure")
  /\ NoFault
  /\ UNCHANGED <<pc, wanted, sockets, pointers, label, quit, conn, entry, outside>>

(* AVAHI_CLIENT_FAILURE, AVAHI_ENTRY_GROUP_FAILURE *)
Failure(i) ==
  /\ Dispatches(i, "failure") \/ Dispatches(i, "groupfailure")
  /\ quit' = Set(quit, i, TRUE) /\ NoFault
  /\ UNCHANGED <<pc, wanted, sockets, pointers, label, conn, entry, outside>>

(* AVAHI_ENTRY_GROUP_COLLISION: rename and create the service again. *)
NameCollision(i) ==
  /\ Dispatches(i, "collision")
  /\ Rename(i) /\ Goto(i, "services")
  /\ UNCHANGED <<wanted, sockets, avahi_poll, avahi_client, avahi_group, quit,
                 conn, entry, outside>>

(* dsvdc_discovery_cleanup releases what is not a null pointer. *)
DiscoveryCleanup(i) == NoPointers(i) /\ Disconnect(i)

UsesReleased(i) ==
  "dead" \in {avahi_poll[i], avahi_client[i], avahi_group[i], avahi_name[i]}

NameLost(i) == NoFault /\ label' = Set(label, i, FirstLabel(NULL))

(* The name dsvdc_discovery_init will be given: a copy of the current one, *)
(* or a null pointer if there was no memory for it.                        *)
TempName(i) ==
  \/ NoFault /\ UNCHANGED label
  \/ Fault("strdup") /\ label' = Set(label, i, FirstLabel(NULL))

(* Avahi reports an error: dsvdc_discovery_work copies the name, releases  *)
(* everything and will call dsvdc_discovery_init.  It cannot when the poll *)
(* object or another pointer is bad, or there is no name to copy.          *)
Restart(i) ==
  /\ pc[i] = "loop"
  /\ \/ /\ avahi_poll[i] = "live" /\ quit[i]
        /\ avahi_name[i] = "live" /\ ~UsesReleased(i)
        /\ TempName(i)
        /\ DiscoveryCleanup(i)
        /\ Goto(i, "reinit")
        /\ UNCHANGED <<wanted, sockets, outside>>
     \/ /\ \/ avahi_poll[i] # "live"
           \/ quit[i] /\ (avahi_name[i] # "live" \/ UsesReleased(i))
        /\ Crash(i) /\ NoFault

-----------------------------------------------------------------------------
(* dsvdc_cleanup *)

CleanupSocket(i) ==
  /\ pc[i] = "loop" /\ NoFault
  /\ listen_fd' = Set(listen_fd, i, "none")
  /\ Goto(i, "unlisted")
  /\ UNCHANGED <<wanted, port, abandoned, pointers, label, client, outside>>

(* dsvdc_discovery_cleanup *)
CleanupDiscovery(i) ==
  /\ pc[i] = "loop" /\ NoFault
  /\ \/ /\ ~UsesReleased(i)
        /\ DiscoveryCleanup(i)
        /\ Goto(i, "unlisted")
        /\ UNCHANGED <<wanted, sockets, label, outside>>
     \/ UsesReleased(i) /\ Crash(i)

(* dsvdc_cleanup_handle, as far as the listening socket goes, and free. *)
CleanupHandle(i) ==
  /\ pc[i] = "unlisted"
  /\ Release(i) /\ NoFault
  /\ UNCHANGED <<pointers, client, outside>>

-----------------------------------------------------------------------------
(* The Avahi daemon and the other hosts of the network *)

(* The daemon ends; every client loses its connection and its service.     *)
(* Unless outages are looked at, it is back before a worker notices.       *)
DaemonStops ==
  /\ daemon # "down" /\ restarts < MaxRestarts
  /\ restarts' = restarts + 1
  /\ daemon' = IF "outage" \in MayFail THEN "down" ELSE "registering"
  /\ conn' = [i \in Instances |-> IF conn[i] = "up" THEN "lost" ELSE conn[i]]
  /\ entry' = [i \in Instances |-> NoEntry]
  /\ Tell("failure") /\ NoFault
  /\ UNCHANGED <<pc, wanted, sockets, pointers, label, quit, claimed, hostChanges>>

DaemonStarts ==
  /\ daemon = "down" /\ daemon' = "registering" /\ NoFault
  /\ UNCHANGED <<pc, wanted, sockets, pointers, label, client, claimed,
                 restarts, hostChanges>>

HostSettles ==
  /\ daemon = "registering" /\ daemon' = "running"
  /\ Tell("running") /\ NoFault
  /\ UNCHANGED <<pc, wanted, sockets, pointers, label, quit, conn, entry,
                 claimed, restarts, hostChanges>>

(* The host name collides or is changed. *)
HostChanges ==
  /\ daemon = "running" /\ daemon' = "registering"
  /\ hostChanges < MaxHostChanges /\ hostChanges' = hostChanges + 1
  /\ Tell("unsettled") /\ NoFault
  /\ UNCHANGED <<pc, wanted, sockets, pointers, label, quit, conn, entry,
                 claimed, restarts>>

Claim(l) ==
  /\ l \notin claimed
  /\ claimed' = claimed \cup {l} /\ NoFault
  /\ UNCHANGED <<pc, wanted, sockets, pointers, label, client, daemon,
                 restarts, hostChanges>>

Establish(i) ==
  /\ daemon = "running" /\ entry[i].state = "registering"
  /\ entry[i].label \notin claimed
  /\ entry' = Set(entry, i, Entry("established", entry[i].label, entry[i].port))
  /\ NoFault
  /\ UNCHANGED <<pc, wanted, sockets, pointers, label, quit, conn, events, outside>>

(* The daemon takes a service out of its group and says so. *)
Withdraw(i, event) ==
  /\ entry' = Set(entry, i, NoEntry)
  /\ events' = Set(events, i, Append(events[i], event))
  /\ UNCHANGED <<pc, wanted, sockets, pointers, label, quit, conn, outside>>

Collide(i) ==
  /\ daemon = "running" /\ entry[i].state \in {"registering", "established"}
  /\ entry[i].label \in claimed
  /\ Withdraw(i, "collision") /\ NoFault

RegisterFails(i) ==
  /\ entry[i].state = "registering" /\ Fault("register")
  /\ Withdraw(i, "groupfailure")

-----------------------------------------------------------------------------
CreateServices(i) ==
  \/ GroupFails(i) \/ AlreadyAdded(i) \/ AddFails(i) \/ LocalCollision(i)
  \/ Add(i) \/ Commit(i)

Work(i) ==
  \/ HostRunning(i) \/ HostUnsettled(i) \/ Failure(i) \/ NameCollision(i)
  \/ Restart(i)

Open(i) == New(i) \/ Bind(i) \/ Listen(i) \/ SetupFails(i)

Cleanup(i) == CleanupDiscovery(i) \/ CleanupHandle(i)

Instance(i) ==
  Open(i) \/ DiscoveryInit(i) \/ CreateServices(i) \/ Work(i) \/ Cleanup(i)

Environment ==
  \/ DaemonStops \/ DaemonStarts \/ HostSettles \/ HostChanges
  \/ \E l \in OtherLabels : Claim(l)
  \/ \E i \in Instances : Establish(i) \/ Collide(i) \/ RegisterFails(i)

Next == (\E i \in Instances : Instance(i)) \/ Environment

Spec == Init /\ [][Next]_vars

(* The application loops on dsvdc_work and lets it return; the machine     *)
(* starts its daemon, which settles on a host name and answers.            *)
FairSpec ==
  /\ Spec
  /\ \A i \in Instances :
       /\ WF_vars(DiscoveryInit(i) \/ CreateServices(i) \/ Work(i))
       /\ WF_vars(Establish(i) \/ Collide(i))
  /\ WF_vars(DaemonStarts) /\ WF_vars(HostSettles)

-----------------------------------------------------------------------------
(* Properties *)

TypeOK ==
  /\ pc \in [Instances -> Phases]
  /\ wanted \in [Instances -> [port : {0} \cup FixedPorts, name : Names \cup {NULL}]]
  /\ port \in [Instances -> Ports]
  /\ listen_fd \in [Instances -> {"none", "open", "bound", "listening"}]
  /\ abandoned \in [Instances -> SUBSET Ports]
  /\ avahi_poll \in [Instances -> Pointer]
  /\ avahi_client \in [Instances -> Pointer]
  /\ avahi_group \in [Instances -> Pointer]
  /\ avahi_name \in [Instances -> Pointer]
  /\ label \in [Instances -> Labels]
  /\ quit \in [Instances -> BOOLEAN]
  /\ conn \in [Instances -> {"none", "up", "lost"}]
  /\ events \in [Instances -> Seq(Events)]
  /\ entry \in [Instances -> [state : {"none", "added", "registering", "established"},
                              label : Labels, port : Ports]]
  /\ daemon \in {"down", "registering", "running"}
  /\ claimed \subseteq Labels
  /\ faults \in 0 .. MaxFaults
  /\ restarts \in 0 .. MaxRestarts
  /\ hostChanges \in 0 .. MaxHostChanges

Published(i) == entry[i].state \in {"registering", "established"}

(* A vdSM that follows an announcement reaches the instance that made it:  *)
(* what is published, through port search, renaming, restarts of the       *)
(* daemon and dsvdc_cleanup, is the port the instance listens on now, under*)
(* the name dsvdc_new was given, possibly made different.                  *)
WhatIsAdvertised ==
  \A i \in Instances : Published(i) =>
    /\ listen_fd[i] = "listening"
    /\ entry[i].port = port[i]
    /\ entry[i].label[1] = FirstLabel(wanted[i].name)[1]

(* No two instances serve the same port, although the port search asks     *)
(* bind() only, which two processes may pass with the same port.           *)
OwnPort ==
  \A i, j \in Instances :
    (i # j /\ listen_fd[i] = "listening" /\ listen_fd[j] = "listening")
      => port[i] # port[j]

(* Neither dsvdc_work nor dsvdc_cleanup uses a pointer that               *)
(* dsvdc_discovery_init or dsvdc_discovery_cleanup left to what was freed. *)
ReleasedNeverUsed == \A i \in Instances : pc[i] # "crashed"

(* Once dsvdc_new failed or dsvdc_cleanup returned, nothing of the handle  *)
(* is left with the kernel or the daemon, the socket of a failed           *)
(* dsvdc_discovery_init excepted.                                          *)
NothingLeftBehind ==
  \A i \in Instances : pc[i] = "none" =>
    /\ listen_fd[i] = "none"
    /\ conn[i] = "none" /\ entry[i] = NoEntry /\ events[i] = <<>>

(* What a vdSM sees of it. *)
listener == [i \in Instances |-> IF listen_fd[i] = "listening" THEN port[i] ELSE 0]
service == [i \in Instances |-> IF Published(i) THEN <<entry[i].label, entry[i].port>>
                                                ELSE <<>>]

Contract == INSTANCE ServiceContract

(* The whole of set-up, discovery and cleanup implements ServiceContract. *)
ServiceContractHolds == Contract!Spec

InUse(i) == pc[i] \in {"loop", "services", "commit", "reinit"}

(* An instance that stays in use ends up published for good, whatever      *)
(* names collided, however the daemon was restarted and whichever Avahi    *)
(* call failed in between.                                                 *)
Advertised ==
  \A i \in Instances : <>[]InUse(i) => <>[](entry[i].state = "established")
=============================================================================
