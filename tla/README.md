# TLA+ models of libdsvdc

libdsvdc connects a virtual device connector (vDC), the application, to the
digitalSTROM virtual device connector server manager (vdSM). The library opens
a listening socket and advertises it; the vdSM connects, opens a session with
HELLO, asks for properties and sends notifications; the vDC announces
containers and devices and pushes values. Messages are protobuf records behind a
16-bit length. The library has no threads of its own: the application calls
`dsvdc_work` in a loop, may call everything else from other threads, and is
called back from inside `dsvdc_work`.

This directory holds TLA+ modules that model the library's core, TLC
configurations that check them on small instances, and TLAPS proofs of what
matters most for every size.

## 1. The system

| part | state | operations | talks to |
|---|---|---|---|
| connection and session (`dsvdc.c`, `msg_processor.c`) | `connected_fd`, `session`, `listen_fd`, handle mutex | `dsvdc_work`, HELLO, BYE, `dsvdc_has_session`, `dsvdc_cleanup` | vdSM (socket), application (callbacks) |
| announcements (`msg_processor.c`, `dsvdc.c`) | `requests_list`, `request_id`, `last_list_cleanup` | `dsvdc_announce_container`, `dsvdc_announce_device`, generic response, `dsvdc_cleanup_request_list` | worker and application threads share the list |
| framing (`sockutil.c`, `dsvdc.c`, `msg_processor.c`) | none between calls | `sockread`, `sockwrite`, `dsvdc_send_message` | kernel |
| dispatch and answers (`msg_processor.c`, `properties.c`) | callback pointers, property handles | `dsvdc_process_*`, response functions, `dsvdc_set_*_callback` | vdSM, application |
| property trees (`properties.c`) | trees of elements | add, get, copy, free | application, protobuf |
| instance set-up (`dsvdc.c`) | `port`, `listen_fd` | `dsvdc_new`, port search, end of `dsvdc_cleanup` | kernel, shared with other processes |
| discovery (`discovery.c`) | `avahi_poll`, `avahi_client`, `avahi_group`, `avahi_name` | `dsvdc_discovery_init`, `_work`, `_cleanup`, two Avahi callbacks | Avahi daemon, shared with other processes |
| database (`database.c`) | an open gdbm file | open, close, load, save | application, other processes through the file |
| reference vDC (`examples/`) | `g_light_state`, `g_shutdown_flag`, scene table | main loop, signal handler, scene and output callbacks | library, database |

What is hard about it:

* **Locking in pieces.** An announcement takes the mutex three times (number,
  send, prepend) and is exposed to the worker between them; `dsvdc_work` holds
  it over `select`, drops it before it processes a message, and every handler
  takes it again. It is recursive, so that callbacks may call the library.
* **Callbacks that call back.** Confirmation, session and request callbacks run
  with the mutex held and may announce or answer.
* **Connections that come and go.** Requests, property handles and the session
  flag outlive the descriptor unless somebody clears them.
* **Time.** Requests are given up after a time-out, looked for at an interval,
  wiped without a connection; a late answer races all three.
* **TCP.** Lengths and payloads arrive in pieces, or stop in the middle.
* **Failures in the middle.** No memory after the message was sent, a write that
  breaks off, a query that cannot be copied, one of a dozen calls of set-up.
* **Other processes.** They search for ports and claim service names at the same
  time, share the scene table, and are killed; the Avahi daemon is restarted.

`PROJECT.json` lists these hazards at their lines, with the properties that
cover each, and the parts that are not modelled.

What makes each part correct: one connection at a time, and a session only on
the connection whose HELLO opened it; one confirmation for an accepted
announcement and none for any other; messages handed out and written whole;
one answer to a request at most; every lock given back; every descriptor closed;
what is advertised is where the instance listens; a scene recalls what was saved.

## 2. The modules

| module | what it is |
|---|---|
| `VdcSession` | the core: worker, application threads, vdSM, clock; connections, session, announcements |
| `SessionContract` | what an application may rely on about connections and sessions |
| `AnnounceContract` | what an announce call promises |
| `VdcSession_proofs` | theorems about `VdcSession`, for all values of its constants |
| `VdcFrames`, `VdcFrames_proofs` | how the byte stream is cut into messages (`sockread` and the reading half of `dsvdc_work`) |
| `VdcRequests`, `VdcRequests_proofs` | requests of the vdSM, their answers, and how messages are written |
| `VdcProperties` | property trees as blocks of memory: building, attaching, copying, reading, releasing, with any allocation failing |
| `PropertyTrees` | what the property functions promise: each handle is a tree of its own |
| `TreesInMemory` | the blocks of `VdcProperties` read as trees, and the refinement of `PropertyTrees` |
| `OwnedMemory` | lemmas: what `malloc`, `free` and an assignment do to memory in which every block has one owner |
| `VdcProperties_proofs` | theorems about `VdcProperties`: memory safety for any trees, handles and failures |
| `VdcInstance`, `VdcInstance_proofs` | instances in several processes: `dsvdc_new`, port search, discovery, `dsvdc_cleanup` |
| `ServiceContract` | what a vdSM that browses for services may rely on |
| `VdcReference`, `VdcReference_proofs` | processes of the reference vDC on one scene table: start, shutdown, crashes, scenes |
| `SceneTable` | what a scene table promises: each scene recalls what was saved last |
| `MCVdc...` | instances for TLC: symmetry sets, the stream of frames, messages, scenes, a view |

`VdcSession` composes the connection and the announcements, which share the
handle, and is shown to implement both contracts. `VdcFrames` refines what is
one step there (`WorkRead`, `WorkReadFails`), `VdcRequests` what is one step of
processing there (`ProcessNotify`, `ProcessIgnored`) and of sending
(`AnnounceSend`). `VdcProperties` refines what is one field in `VdcRequests`
(`property`) and is shown, in `TreesInMemory`, to implement `PropertyTrees`; it
shares no state with the other modules, since a tree belongs to one thread at a
time. `VdcInstance` is what comes before the handle `VdcSession` starts from, and the
part of `dsvdc_cleanup` after `CleanupClose`. `VdcReference` uses the library: what is one
call of `dsvdc_work` there is the worker of the other modules.

### VdcSession and the code

The variables carry the names of the fields of `struct dsvdc` where they are
such. `pc` is where the worker is: `out` (between two calls of `dsvdc_work`),
`expire` (in `dsvdc_cleanup_request_list`), `select`, `accept`, `read`,
`process` (the frame is read, the mutex released), `hello` (between the answer
and the session), `callback`. `stage` is how far an announce call is. The mutex
is `free` or the worker's: application threads and the worker's unlocked calls
take it for one step at a time, so such a step is enabled only while it is free.

* `AnnounceNumber`, `AnnounceSend`, `AnnounceSendFails`, `AnnounceStamp`,
  `AnnounceNoMemory`, `AnnouncePrepend` are the pieces of the two announce
  functions between locks. `CallbackAnnounce` and its failing variants are the
  same call from a callback, one step because the mutex is held throughout.
* `WorkEnter`, `Expire`, `ExpireDone` are the clean-up of the list at the head of
  `dsvdc_work`; `Expire` removes one request and is in its callback.
* `WorkIdle` ... `WorkReadFails` are the rest of `dsvdc_work`. `WorkReject` is the
  throw-away handle a second vdSM is answered with.
* `ProcessHello` ... `ProcessResponseUnknown` are the handlers. Frames with no
  effect on this state are `ignored`, those that only reach a callback `notify`.
* `CleanupStart` and `CleanupClose` are `dsvdc_cleanup`, during which the list is
  wiped before the socket is closed.
* `PeerConnect`, `PeerSend`, `PeerClose` are the vdSM, which may do anything,
  except that it answers only ids it was sent. `Tick` is `time()`.

`helloOn`, `answered`, `sentOn`, `fired` and `code` are history: which connection
said HELLO, which calls had an answer processed, where a message was written,
which callbacks ran.

Abstractions: the order of the list is left open; ages saturate one above the
constant they are compared with; a frame is read whole or the read fails
(`VdcFrames` has the rest); the application stops its threads before
`dsvdc_cleanup`, which destroys the mutex they would use.

### VdcFrames and the code

Bytes are known by their position in the stream the vdSM sends, so that the
module can say which bytes a payload consists of without their values. `Recv*`
are the outcomes of one turn of `sockread`'s loop, `Patience` is how long its
`select` may wait, including the rule that it does not wait once something
was read (`eod`). `Decoded` is `ntohs` of two bytes: the size of a frame if they
are a frame's header, and anything at all if they are not. A reset ends the
behaviour: nothing of the reader survives a connection.

### VdcRequests and the code

A message on the wire is two pieces, `length` and `body`. `phase` says where in
`dsvdc_send_message` each thread is, `holder` who has the mutex. A request is
`whole` if it has everything its handler requires. `property` follows the handle
a get or set request allocates: given to the application, freed by the response
functions in every case, or lost when the query cannot be copied. `Leftover` is
what the member `dsvdc_setup_handle` does not assign may contain.

### VdcProperties and the code

A block of memory is a record of what it is (`shell`, the handle; `array`;
`element`; `value`; `data`, a name, text or bytes), what it says, the length that
goes with the array it points to, and the pointers in it. `heap` has the blocks and
the variables that point to them: the handles of the application and of a callback
(`Slots`, `Query`), and those a call works with (`Message`, `Stored`, `New`).

The functions of `properties.c` call themselves, on trees of any depth. A call is
therefore a stack of tasks, `calls`, and makes one allocation, release or assignment
per step, in the order of the code: `release` is the `dsvdc_property_free_*`
functions, `build`, `adopt` and `add` are `dsvdc_property_add_*` down to
`dsvdc_property_add`, `deepCopy` to `giveUp` are `dsvdc_property_deep_copy` and what
it does when it runs out of memory, `copyTree` and `checkTree` are the functions that
make a handle for a copy, `request`, `answer` and `loaded` are what goes on after
them. Any allocation may fail at its step. Fresh memory is as `malloc` left it
(`WILD` entries of an array, or zeros) until the code assigns it. The address of a
block is put at once where the caller is going to find it, whereas the code keeps it
in a local until it returns; nobody else looks before. Calls do not overlap:
`dsvdc.h` says that the property functions are not thread-safe.

`fault` is what the program did that C leaves undefined: reading through a null
pointer, through one never assigned (`WILD`), comparing a missing name, or
touching a released block. The behaviour ends there. `lost` holds the blocks the
code leaves without an owner: the element `dsvdc_property_add_property` could not
attach, and the answer handle of a request whose query was not copied. `settled`
is history: the memory as the call under way found it.

`Request` and `CallbackReturns` are the two ends of
`dsvdc_process_get_property` and of the handler for set requests; between them
the application may do anything with its handles and read the query.
`PushProperty` is also `dsvdc_database_save_property`, and `LoadProperty` is
`dsvdc_database_load_property`. Protobuf is external: `Arrives` is unpacking, the
task `pack` is packing, which reads what it finds.

Abstractions: numbers, booleans and doubles are one kind of value, whose getters
change nothing; a value has text or bytes, not both, as no function of the library
makes one with both; `realloc` moves always; the handle for a record from the
database is made after the record is unpacked, not before.

### VdcInstance and the code

One instance per process. Every call to the kernel or the Avahi daemon is a step,
so that processes interleave where they really can: `Bind` and `Listen` are the
search loop of `dsvdc_setup_socket`, `DiscoveryInit` is `dsvdc_discovery_init` up
to `avahi_client_new`, whose callback runs inside it, and `CreateServices` is
`dsvdc_avahi_create_services` with one action per outcome (`GroupFails`,
`AlreadyAdded`, `AddFails`, `LocalCollision`, `Add`, `Commit`). `HostRunning`,
`HostUnsettled`, `Failure` and `NameCollision` dispatch one event of the daemon in
`avahi_simple_poll_iterate`; `Restart` is the rest of `dsvdc_discovery_work`, which
releases the client after a failure and calls `dsvdc_discovery_init` again.
Pointers of the handle are `null`, `live` or `dead` (freed and left in the handle);
a call that uses a dead one is `Crash`. `abandoned` holds the sockets `dsvdc_new`
leaves open when discovery fails (`dsvdc.c:371`).

The kernel and the daemon are external. `Listening` follows `SO_REUSEADDR`: two
sockets can be bound to one port, one can listen. The daemon stops, starts, settles
on a host name, establishes services, and reports collisions with `claimed` names
and failures; what it told a client waits in `events` until the worker dispatches it.

Seen in the model and not stated as a property, since no document promises the
contrary: the loser of the race for a port gets an error from `dsvdc_new` although
other ports are free, as the search continues after a failed `bind` only; port
65535 is never tried; a collision event still in the queue after a rename renames
again, so that the handle's copy of the name may run ahead of the published one.

### VdcReference and the code

`pc` is where `main` is: `open`, `new`, `loop` (at the flag), `work`, `exit`; or it
is in a callback (`handle`, `apply` between loading a record and using it, `store`
between preparing and storing one). `writer` is the lock of gdbm, `records` the
file. A record is a tree with one double in it, here a number, or `Empty` if
`dsvdc_property_add_double` failed, which `savescene_cb` does not look at. `Key` is
`snprintf` into eleven characters.

`Open` has both outcomes of `dsvdc_database_open` for writing. When gdbm fails, the
structure is released and returned with `DSVDC_OK`, while `dsvdc.h` speaks of an
error code that indicates if the operation was successful: `db` is then `dead`, and
the process ends at its first use (or gdbm finds nothing behind it, `UsesDead`), at
the latest when `dsvdc_database_close` releases it again (`Exit`). `Crash` may come
at any moment; a stored record is on the disk, because the file is opened with
`GDBM_SYNC`.

Abstractions: a call of `dsvdc_work` calls back once or not at all; the contents of
property answers and the announcements of the application are not here.

## 3. What TLC checks

| run | instance | shows |
|---|---|---|
| `session_safety` | 2 connections, 1 call by a thread, 1 by a callback, responses, HELLO, BYE | the eight invariants of `VdcSession`, `SessionContract` is implemented, `TIMEOUT` is genuine |
| `session_live` | 2 connections, 1 call by a thread, fairness | `AnnounceContract` is implemented with its liveness; a vdSM that left is noticed; `dsvdc_cleanup` leaves no request |
| `frames` | 4 frames (one empty, one too large), time-out 2, 1 signal | payloads intact, buffers not overrun, bounded wait, `dsvdc_work` returns |
| `requests` | 2 requests of every kind, 2 connections, 1 thread | messages whole, one answer, nothing for notifications, lock discipline, stable connection |
| `properties` | 2 handles, a query, messages of 3 nested elements, any allocation of a call failing | trees share no block, leak none but `lost`, use none after its release; `PropertyTrees` is implemented |
| `instance` | 2 processes that want the same port and name, a foreign listener, 1 restart of the daemon, 1 change of the host name, a name claimed elsewhere, 1 failing call | what is published is what is listened on; no shared port, nothing left behind, no released pointer used; `ServiceContract` is implemented; an instance in use ends up published |
| `reference` | 2 processes, 6 scene numbers called or saved, every failure but `add` | scenes outlive processes and are recalled as saved (`SceneTable` is implemented); the light stays in range; a signal ends the process |
| `announce_race` | violation | an answer that overtakes its request is lost and reported as TIMEOUT |
| `frames_reset` | violation | a well-formed frame in two segments resets the connection |
| `requests_wild` | violation | a set request reaches a callback pointer nobody assigned |
| `properties_unnamed` | violation | looking up a name in a tree with an unnamed element reads a null pointer |
| `instance_reinit` | violation | a released Avahi pointer is used when the daemon is still down as discovery is re-initialised |

**Bounds.** Two connections are enough to have a connection, a competitor that
is rejected, and a successor; one call in a thread and one in a callback give
every order of their pieces with the worker's, and calls do not touch each other
except through the list. `MaxInbox` is one frame: the socket is a queue, and a
longer one only delays what the vdSM could send later. `MsgTimeout` and
`CheckInterval` keep the order of 10 and 20 seconds. `MaxRequestId` is the number
of calls. In `frames` the sizes are around `MaxDataSize`, 3, and the time-out lets
pauses fall before, in and after a wait. In `requests` two requests can answer
each other wrongly, and a thread sends while the worker works; the length field
(`LengthModulus`) can hold the sizes used. The liveness run has no symmetry.
In `properties`, each allocation of each call may fail, in any state;
`MaxBlocks` is never reached. `MaxElements` lets the application attach a tree to
another one that already has an element; larger trees come from messages and the
database, with a nested element before another one, which is where a failing copy
leaves entries unassigned. `MaxLost` lets one block be lost; nothing depends on how
many are. Between calls, `View` drops the addresses, on which nothing depends, and
keeps the trees, the number of blocks and their shapes.
In `instance`, the default port is taken by a foreign program and `MaxPort` leaves
two ports that both processes may race for, and one that is never tried.
One failing call, one restart and one change of the host name can come at
every step, and in every order with each other and with the claimed name. Excluded
are the failures the code does not survive, which the theorems name as conditions:
a re-initialisation that fails (`reinit`), a daemon that is still down then
(`outage`), and no memory for a new name (`alternative`) or for the copy of the
name (`strdup`); `instance_reinit` allows `outage`.
In `reference` the scenes lie on both sides of each limit of the handlers (dimming,
128); the steps of two are larger than the distance to an end of the range. Two
processes are what the lock tells apart; each may end and start again any number
of times. `add` is excluded: without memory for the value, `savescene_cb`
overwrites a scene with a record that has none.

**Fairness.** `VdcSession` assumes that the worker keeps taking steps (the
application loops on `dsvdc_work`, its callbacks return) and that time passes;
nothing of the vdSM or of other threads. With that, `session_live` shows that an
accepted announcement is always confirmed, and that a closed connection is
noticed. It excludes announcements from callbacks of `dsvdc_cleanup`: with
`ReannounceInCleanup = TRUE`, a callback that announces again while the list is
wiped puts a request on the list of the freed handle, and `CleanupLeavesNothing`
fails. `VdcFrames` assumes that a call of `dsvdc_work`
goes on and that time passes, not that system calls fail; so
`WorkReturns` is due to the time-outs alone. `VdcInstance` assumes that an
application whose instance is set up goes on calling `dsvdc_work`, that somebody
starts the daemon (systemd does), and that the daemon settles on a host name and
either establishes or refuses a service; nothing about failures or the claims of
other hosts, which are bounded. `VdcReference` assumes that a process gets the
processor and that `dsvdc_work` returns, which its time-out of two seconds and
`WorkReturns` justify; nobody has to start or stop a process or to send anything.

**Disagreements.** The five violation runs are points where the code does
something else than the header or a comment says; each finding in `PROJECT.json`
quotes the line. One more has no run of its own: when memory for the cache entry
runs out, the announce functions return `DSVDC_ERR_OUT_OF_MEMORY` after the message
was sent (`AnnounceNoMemory`), while `dsvdc.h:384-386` says it was not; that the
call is never confirmed is part of `ExactlyOneCallback`. `TIMEOUT` and
`NOT_CONNECTED` are genuine for calls made by callbacks, which hold the mutex throughout (`GivenUpOnlyIfUnanswered`,
`TimeoutIsGenuine`); for threads they are not (`announce_race`).

## 4. What is proved

Each proof module proves theorems for all values of the constants that satisfy the
named assumptions of its module (`BoundsAssumption` and so on); TLC evaluates these
on the instances. Safety only: liveness and everything that depends on fairness
stays with TLC, as the prover has no `ENABLED`.

**`VdcSession_proofs`.** One theorem per invariant of `session_safety` and
`session_live`, the action property `TimeoutIsGenuine` (`TimeoutSafety`), and two
refinements: each step is a step of `SessionContract` or a stutter
(`SessionRefinement`), and one of `AnnounceContract` or a stutter
(`AnnounceRefinement`, the safety half of that contract). None of the invariants is inductive alone. `IInv` adds to them

* `WorkerInv`: what holds at each place of the worker: who has the mutex, that it
  is connected while it reads or processes, that `todo` is empty outside the
  clean-up. Without it a step could start in a place the code never is.
* `ListInv`, `TodoInv`, `CallInv`: a request on the list belongs to a call that
  returned OK, was sent and was not called back, and what the clean-up still has
  to remove is on the list. `ExactlyOneCallback` follows from these.
* `IdInv`: no two calls have the same id and none is above `request_id`, so that a
  response belongs to one call. It rests on ids not wrapping (the bound
  `MaxRequestId`).
* `WipeInv`: while `dsvdc_cleanup` wipes the list, what is on it is in `todo` and
  no thread is in a call; it needs callbacks that do not announce, as does
  `CleanupSafety`.

`Invariance` is proved with one step per action of `Next` and one below it per
conjunct the action can disturb; properties follow from `IInv`, action properties
from `IInv` and the step.

**`VdcFrames_proofs`.** For every stream of frames, however it is cut
(`StartIncreases`: frames follow each other in the stream): buffers are not overrun
(`BuffersHold`), what is handed out are whole payloads (`FramesAreIntact`), and a
call takes no longer than two time-outs and one more per signal (`WorkIsBounded`).
`ReadInv` relates what was read to the position in the stream, `FrameInv` says that
the buffer being filled began at a frame boundary or behind the header of a frame,
whose size is the one waited for, and `ClockInv` splits the time of a call
between its places: the first `select`, the header, the payload.

**`VdcRequests_proofs`.** For any requests, connections and threads: the mutex is
held by the one who sends and in callbacks, and by nobody else (`MutexDiscipline`);
the connection does not change under either (`ConnectionProtected`); messages are
whole, provided that their sizes fit the length field (`MessagesAreWhole`,
condition `SizesFit`); a request is answered once at most (`AnsweredOnce`), a
notification never. The core is that a length on the wire is followed by its own
body as long as the sender keeps the mutex in between (`Locked`, `Sending`), and
that the answer of a request and its `property` handle exclude each other
(`FirstAnswer`).

**`VdcInstance_proofs`.** For any number of processes, ports, names and faults: no
shared port (`NoSharedPort`), nothing left behind (`NothingLeft`). What is published
is what is listened on (`AdvertisedFaithfully`) if the copy of the name can always
be made, and no released pointer is used (`PointersNeverDangle`) if the failures of
`reinit`, `outage` and `alternative` do not occur (`Survivable`); these are the
failures the code does not survive, and `instance_reinit` shows what happens then.
`ImplementsServiceContract` has the condition `Survivable`, too. The invariants are
by place: `SocketsInPlace`, `EntriesInPlace`, `NamesKept`, `PointersGood`.

**`VdcReference_proofs`.** For any number of processes and any scenes: the light
stays in range whatever fails (`LightStaysInRange`); and the processes implement
`SceneTable` (`ScenesSurvive`) if scene keys differ, which `SmallScenesDiffer` shows
above -1000000000, and if a value can always be put into a record. The invariant
`Coherent` says why: only the process with gdbm's lock works on the file, so that
what a callback has loaded is still what the file contains when it is applied.

**`OwnedMemory` and `VdcProperties_proofs`.** For any handles, names and messages,
trees of any depth and width, and whichever allocations fail: the memory is typed
(`TypeCorrect`), no block has two owners (`BlocksUnshared`), none is left without one
but those in `lost` (`NothingLeaks`), and none is used after its release
(`DeadUnused`). The depth of the trees is the height of the stack of tasks, so that
no induction over trees is needed: the invariant says what is true of any stack.

`Sound` says of memory that every pointer leads to a block of the right kind and, if
that is an array, of the length counted beside it (`Pointed`); that no two pointers
lead to the same block (`Unique`); that every block is pointed to (`Owned`) or is in
the set of those that are owned by something else (`Roots`). `OwnedMemory` shows that
what the code does to memory preserves it: a new block is attached (`Attaching`),
pointers are given up (`Detaching`), blocks are released together with the pointer to
them (`Emptying`), a block is made for the caller (`NewRoot`), an array grows and
moves (`Growing`), an element takes over what a handle had (`Adopting`), a tree
arrives (`Placing`).

While a tree is released memory is not sound: a release has followed some of the
pointers of a block, and what they led to is gone. `IndInv` is about what
is left, `Remaining`, without the pointers that were followed (`Spent`); it says

* `MemoryOK`: what remains is sound, where blocks with a release on the stack
  (`Freeing`) and lost ones need no other owner;
* `TasksOK`: what each task relies on in memory, for each place in the code: for
  instance, that the entries of an array being copied are unassigned from the one
  under way on, so that filling it forgets no block;
* `StackOK`, `ChainOK`: which task waits for which, and that each copying task
  fills what the one below it is going to look at;
* `BorrowOK`: while something is copied, the memory the call found is as it was
  (`settled`), and what is new leads to what is new only (`Apart`). The source of a
  copy, which a task knows by its address, is therefore still there;
* `SettledOK`, `VariablesOK`: the memory at the beginning of the call, and which
  variables are in use.

`NextGood` shows that every step preserves it, one lemma per action below; the
theorems follow from `IndInv` in every state, during calls and between them. `fault`
may still become `null`, `unassigned` or `unnamed`: the code reads unassigned entries after a copy that failed, and names
that are missing (`properties_unnamed`); that is a finding, not excluded by a theorem.

Only TLC checks: liveness, with it the fairness of `AnnounceContract`; and
`TreesAreValues`, that the trees in memory implement `PropertyTrees`: what tree is
behind a pointer is recursive over data, and that a copy is equal to its source needs
an induction the prover has no means for.

## 5. What could come next

1. `VdcProperties`: values that have both text and bytes, which only a message or a
   record not made by this library could bring; `dsvdc_property_free_value` releases
   the text of such a value and forgets the bytes.
2. `VdcRequests`: a second thread in `dsvdc_work`, and the connection a late answer
   from a thread belongs to; both need a decision of the library's authors first,
   since `dsvdc.h` promises nothing about them.
3. The property answers of the reference application, of which `getprop_cb` returns
   for an unknown dSUID without an answer and without releasing the handle.

## 6. Not modelled

Contents of messages, protobuf (taken to be a faithful encoding), the inside of the
Avahi daemon and of gdbm, databases opened for reading only, logging, dSUID
generation, wrap-around of `request_id`, changes of the wall clock, two threads in
`dsvdc_work`, and how long an application thread waits for the mutex, which the code
does not bound. `sockwrite` is one step: its waits have time-outs of their own, but a
vdSM that reads slowly enough prolongs a message without limit.
