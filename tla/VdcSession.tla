----------------------------- MODULE VdcSession -----------------------------
(***************************************************************************)
(* The heart of libdsvdc: one library instance (struct dsvdc), the worker  *)
(* thread that loops on dsvdc_work(), application threads that announce    *)
(* containers and devices, and the vdSM at the other end of the socket.    *)
(*                                                                         *)
(*   - connections are accepted one at a time, a second one is rejected;   *)
(*   - a HELLO opens a session, BYE or any read failure ends it;           *)
(*   - an announcement is numbered, sent, stamped and put on requests_list *)
(*     in separate steps, only three of which hold the handle mutex;       *)
(*   - the worker takes requests off the list when the vdSM answers, when  *)
(*     they time out and when there is no connection, and calls the        *)
(*     application back with the mutex held;                               *)
(*   - callbacks may announce again (the example does, on a new session).  *)
(*                                                                         *)
(* Time is kept as ages: how long ago a request was stamped and how long   *)
(* ago the list was last cleaned, each saturating just above the constant  *)
(* it is compared with.  requests_list is a set: the order of the linked   *)
(* list only decides the order of callbacks, which is left open.           *)
(***************************************************************************)
EXTENDS Integers, Sequences, FiniteSets

CONSTANTS
  Conns,         \* connections the vdSM opens in one behaviour
  AppCalls,      \* announce calls made by application threads
  CbCalls,       \* announce calls made from inside library callbacks
  MaxRequestId,  \* bound: request_id is not advanced beyond this value
  MaxInbox,      \* bound: frames the socket buffers per connection
  FrameTypes,    \* bound: the message types the vdSM uses
  MsgTimeout,    \* DEFAULT_VDSM_MSG_TIMEOUT
  CheckInterval, \* REQLIST_CHECK_INTERVAL
  NoConn,        \* the file descriptor value -1
  ReannounceInCleanup \* may callbacks fired by dsvdc_cleanup announce?

(* What a frame can mean to the dispatcher.  "ignored" stands for every    *)
(* frame without effect on this state: undecodable, unknown type, required *)
(* field missing, HELLO of another API version, a ping for the vDC itself. *)
(* "notify" is any message that ends in an application callback.           *)
AllFrameTypes == {"hello", "bye", "notify", "ignored", "empty", "response"}

Listen == "listen"  \* listen_fd as a member of an fd_set

ASSUME BoundsAssumption ==
  /\ MaxRequestId \in Nat
  /\ MaxInbox \in Nat
  /\ MsgTimeout \in Nat
  /\ CheckInterval \in Nat
  /\ ReannounceInCleanup \in BOOLEAN
  /\ FrameTypes \subseteq AllFrameTypes

ASSUME NamesAssumption ==
  /\ NoConn \notin Conns \cup {Listen}
  /\ AppCalls \cap CbCalls = {}

Calls == AppCalls \cup CbCalls
RESERVED_REQUEST_ID == 0
Ids == 0 .. MaxRequestId

Message == [type : AllFrameTypes, id : Ids]
NoMessage == [type |-> "none", id |-> RESERVED_REQUEST_ID]

VARIABLES
  connected_fd,   \* handle->connected_fd
  session,        \* handle->session
  requests_list,  \* handle->requests_list, as the set of cached calls
  request_id,     \* handle->request_id
  sinceCleanup,   \* now - handle->last_list_cleanup, saturating
  mutex,          \* handle->dsvdc_handle_mutex: "free" or held by "worker"
  pc,             \* where the worker thread is
  todo,           \* requests dsvdc_cleanup_request_list still has to drop
  resume,         \* where the worker goes when the current callback returns
  closing,        \* the thread is inside dsvdc_cleanup, not dsvdc_work
  rfds,           \* the fd_set select() left to this dsvdc_work call
  inhand,         \* the message being processed without the lock
  stage,          \* how far each announce call got
  reqId,          \* msg.message_id of each call
  age,            \* now - request->timestamp of each call, saturating
  fired,          \* how often the call's confirmation callback ran
  code,           \* the last code that callback was given
  sentOn,         \* connection the call's message was written to
  answered,       \* calls whose answer was processed before any callback
  helloOn,        \* connection whose HELLO opened the running session
  net,            \* life cycle of each connection as the kernel sees it
  peerOpen,       \* the vdSM has not closed its end
  inbox           \* frames the vdSM wrote and the library has not read

handleVars == <<connected_fd, session, requests_list, request_id,
                sinceCleanup>>
workerVars == <<mutex, pc, todo, resume, closing, rfds, inhand>>
callVars   == <<stage, reqId, age, fired, code, sentOn, answered>>
netVars    == <<net, peerOpen, inbox>>
vars       == <<handleVars, workerVars, callVars, helloOn, netVars>>

Stages == {"idle", "numbered", "sent", "stamped", "ok", "error"}
Codes  == {"none", "vdsm", "timeout", "not_connected"}
Places == {"out", "expire", "select", "accept", "read", "process", "hello",
           "callback", "destroyed"}

TypeOK ==
  /\ connected_fd \in Conns \cup {NoConn}
  /\ session \in BOOLEAN
  /\ requests_list \subseteq Calls
  /\ request_id \in Ids
  /\ sinceCleanup \in 0 .. CheckInterval
  /\ mutex \in {"free", "worker"}
  /\ pc \in Places
  /\ todo \subseteq Calls
  /\ resume \in {"expire", "return"}
  /\ closing \in BOOLEAN
  /\ rfds \subseteq Conns \cup {Listen}
  /\ inhand \in Message \cup {NoMessage}
  /\ stage \in [Calls -> Stages]
  /\ reqId \in [Calls -> Ids]
  /\ age \in [Calls -> 0 .. MsgTimeout + 1]
  /\ fired \in [Calls -> Nat]
  /\ code \in [Calls -> Codes]
  /\ sentOn \in [Calls -> Conns \cup {NoConn}]
  /\ answered \subseteq Calls
  /\ helloOn \in Conns \cup {NoConn}
  /\ net \in [Conns -> {"unused", "backlog", "accepted", "closed"}]
  /\ peerOpen \in [Conns -> BOOLEAN]
  /\ inbox \in [Conns -> Seq(Message)]

(* dsvdc_new: no connection, no session, last_list_cleanup is now. *)
Init ==
  /\ connected_fd = NoConn
  /\ session = FALSE
  /\ requests_list = {}
  /\ request_id = 0
  /\ sinceCleanup = 0
  /\ mutex = "free"
  /\ pc = "out"
  /\ todo = {}
  /\ resume = "return"
  /\ closing = FALSE
  /\ rfds = {}
  /\ inhand = NoMessage
  /\ stage = [n \in Calls |-> "idle"]
  /\ reqId = [n \in Calls |-> 0]
  /\ age = [n \in Calls |-> 0]
  /\ fired = [n \in Calls |-> 0]
  /\ code = [n \in Calls |-> "none"]
  /\ sentOn = [n \in Calls |-> NoConn]
  /\ answered = {}
  /\ helloOn = NoConn
  /\ net = [c \in Conns |-> "unused"]
  /\ peerOpen = [c \in Conns |-> FALSE]
  /\ inbox = [c \in Conns |-> << >>]

-----------------------------------------------------------------------------
(* Shared steps of the operations below. *)

Connected == connected_fd # NoConn

(* recv() on c would not block: data is buffered or the vdSM closed its end. *)
Readable(c) == inbox[c] # << >> \/ ~peerOpen[c]

(* close(fd): unread data and the peer's end are gone with it. *)
Close(c) ==
  /\ net' = [net EXCEPT ![c] = "closed"]
  /\ peerOpen' = [peerOpen EXCEPT ![c] = FALSE]
  /\ inbox' = [inbox EXCEPT ![c] = << >>]

(* Slip: an early return that forgets to unlock. *)
LeaveWorkLocked ==
  pc' = "out" /\ resume' = "return" /\ rfds' = {} /\ UNCHANGED mutex

(* The worker leaves dsvdc_work or dsvdc_process_message and its locals. *)
LeaveWork ==
  mutex' = "free" /\ pc' = "out" /\ resume' = "return" /\ rfds' = {}

(* The worker calls the application with the mutex held. *)
EnterCallback(r) ==
  mutex' = "worker" /\ pc' = "callback" /\ resume' = r /\ rfds' = {}

(* Slip: the connection is reset but the session flag survives. *)
EndSessionKeepsFlag == UNCHANGED <<session, helloOn>> /\ LeaveWork

(* dsvdc_end_session, and the unlock and return every caller continues with. *)
EndSession ==
  IF session
    THEN session' = FALSE /\ helloOn' = NoConn /\ EnterCallback("return")
    ELSE UNCHANGED <<session, helloOn>> /\ LeaveWork

(* close(connected_fd); connected_fd = -1; dsvdc_end_session(). *)
ResetConnection ==
  /\ Close(connected_fd)
  /\ connected_fd' = NoConn
  /\ EndSession

(* Slip: the request is called back but stays on the list. *)
ConfirmNoDelete(n, c) ==
  /\ UNCHANGED requests_list
  /\ age' = [age EXCEPT ![n] = 0]
  /\ fired' = [fired EXCEPT ![n] = @ + 1]
  /\ code' = [code EXCEPT ![n] = c]

(* LL_DELETE of the request, its callback with code c, and free(). *)
Confirm(n, c) ==
  /\ requests_list' = requests_list \ {n}
  /\ age' = [age EXCEPT ![n] = 0]
  /\ fired' = [fired EXCEPT ![n] = @ + 1]
  /\ code' = [code EXCEPT ![n] = c]

(* msg.message_id = ++request_id. *)
Number(n) ==
  /\ request_id < MaxRequestId
  /\ request_id' = request_id + 1
  /\ reqId' = [reqId EXCEPT ![n] = request_id + 1]

(* LL_PREPEND(requests_list, request), after which the call returns OK. *)
Cache(n) ==
  /\ requests_list' = requests_list \cup {n}
  /\ stage' = [stage EXCEPT ![n] = "ok"]

-----------------------------------------------------------------------------
(* Application threads: dsvdc_announce_container and _device, step by step. *)

AnnounceNumber(n) ==
  /\ mutex = "free" /\ ~closing
  /\ stage[n] = "idle"
  /\ Number(n)
  /\ stage' = [stage EXCEPT ![n] = "numbered"]
  /\ UNCHANGED <<connected_fd, session, requests_list, sinceCleanup,
                 workerVars, age, fired, code, sentOn, answered, helloOn,
                 netVars>>

(* dsvdc_send_message wrote the whole frame. *)
AnnounceSend(n) ==
  /\ mutex = "free"
  /\ stage[n] = "numbered"
  /\ Connected
  /\ sentOn' = [sentOn EXCEPT ![n] = connected_fd]
  /\ stage' = [stage EXCEPT ![n] = "sent"]
  /\ UNCHANGED <<handleVars, workerVars, reqId, age, fired, code, answered,
                 helloOn, netVars>>

(* dsvdc_send_message failed: not connected, no memory for the frame, or   *)
(* the socket did not take it.                                             *)
AnnounceSendFails(n) ==
  /\ mutex = "free"
  /\ stage[n] = "numbered"
  /\ stage' = [stage EXCEPT ![n] = "error"]
  /\ UNCHANGED <<handleVars, workerVars, reqId, age, fired, code, sentOn,
                 answered, helloOn, netVars>>

(* malloc and time(), both without the mutex. *)
AnnounceStamp(n) ==
  /\ stage[n] = "sent"
  /\ stage' = [stage EXCEPT ![n] = "stamped"]
  /\ age' = [age EXCEPT ![n] = 0]
  /\ UNCHANGED <<handleVars, workerVars, reqId, fired, code, sentOn, answered,
                 helloOn, netVars>>

(* No memory for the cache entry: an error is returned after the send. *)
AnnounceNoMemory(n) ==
  /\ stage[n] = "sent"
  /\ stage' = [stage EXCEPT ![n] = "error"]
  /\ UNCHANGED <<handleVars, workerVars, reqId, age, fired, code, sentOn,
                 answered, helloOn, netVars>>

AnnouncePrepend(n) ==
  /\ mutex = "free"
  /\ stage[n] = "stamped"
  /\ Cache(n)
  /\ UNCHANGED <<connected_fd, session, request_id, sinceCleanup, workerVars,
                 reqId, age, fired, code, sentOn, answered, helloOn, netVars>>

AppStep(n) ==
  \/ AnnounceNumber(n) \/ AnnounceSend(n) \/ AnnounceSendFails(n)
  \/ AnnounceStamp(n) \/ AnnounceNoMemory(n) \/ AnnouncePrepend(n)

-----------------------------------------------------------------------------
(* Announce calls made by a callback.  The recursive mutex stays with the  *)
(* worker from before the callback until after it, so that the call is one *)
(* step for everybody else.                                                *)

CallbackCall(n) ==
  /\ pc = "callback"
  /\ closing => ReannounceInCleanup
  /\ stage[n] = "idle"
  /\ Number(n)
  /\ UNCHANGED <<connected_fd, session, sinceCleanup, workerVars, fired, code,
                 answered, helloOn, netVars>>

CallbackAnnounce(n) ==
  /\ CallbackCall(n)
  /\ Connected
  /\ sentOn' = [sentOn EXCEPT ![n] = connected_fd]
  /\ age' = [age EXCEPT ![n] = 0]
  /\ Cache(n)

CallbackAnnounceNoMemory(n) ==
  /\ CallbackCall(n)
  /\ Connected
  /\ sentOn' = [sentOn EXCEPT ![n] = connected_fd]
  /\ stage' = [stage EXCEPT ![n] = "error"]
  /\ UNCHANGED <<requests_list, age>>

CallbackAnnounceNotSent(n) ==
  /\ CallbackCall(n)
  /\ stage' = [stage EXCEPT ![n] = "error"]
  /\ UNCHANGED <<requests_list, age, sentOn>>

CallbackReturn ==
  /\ pc = "callback"
  /\ IF resume = "expire"
       THEN pc' = "expire" /\ UNCHANGED <<mutex, resume, rfds>>
       ELSE LeaveWork
  /\ UNCHANGED <<handleVars, todo, closing, inhand, callVars, helloOn,
                 netVars>>

-----------------------------------------------------------------------------
(* dsvdc_work up to the end of dsvdc_cleanup_request_list. *)

(* Slip: without a connection, too, only old requests are removed. *)
ObsoleteNoWipe == {n \in requests_list : age[n] > MsgTimeout}

(* Slip: off by one in the comparison with the time-out. *)
ObsoleteEarly ==
  IF Connected THEN {n \in requests_list : age[n] >= MsgTimeout}
               ELSE requests_list

(* Requests the clean-up removes when it starts now: all of them without a *)
(* connection, the timed out ones with one.                                *)
Obsolete ==
  IF Connected THEN {n \in requests_list : age[n] > MsgTimeout}
               ELSE requests_list

(* Slip: with a connection the list is never looked at. *)
CleanupDueOffline == ~Connected

(* With a connection the list is looked at every CheckInterval only. *)
CleanupDue == Connected => sinceCleanup >= CheckInterval

WorkEnter ==
  /\ pc = "out" /\ mutex = "free" /\ ~closing
  /\ mutex' = "worker"
  /\ IF CleanupDue THEN pc' = "expire" /\ todo' = Obsolete
                   ELSE pc' = "select" /\ UNCHANGED todo
  /\ UNCHANGED <<handleVars, resume, closing, rfds, inhand, callVars, helloOn,
                 netVars>>

(* Slip: the code of the connected branch is not assigned. *)
LocalCodeUnset == IF closing \/ ~Connected THEN "not_connected" ELSE "ok"

(* What a request dropped by the library is told. *)
LocalCode ==
  IF closing \/ ~Connected THEN "not_connected" ELSE "timeout"

Expire(n) ==
  /\ pc = "expire" /\ n \in todo
  /\ todo' = todo \ {n}
  /\ Confirm(n, LocalCode)
  /\ EnterCallback("expire")
  /\ UNCHANGED <<connected_fd, session, request_id, sinceCleanup, closing,
                 inhand, stage, reqId, sentOn, answered, helloOn, netVars>>

ExpireDone ==
  /\ pc = "expire" /\ todo = {} /\ ~closing
  /\ sinceCleanup' = 0
  /\ pc' = "select"
  /\ UNCHANGED <<connected_fd, session, requests_list, request_id, mutex, todo,
                 resume, closing, rfds, inhand, callVars, helloOn, netVars>>

-----------------------------------------------------------------------------
(* dsvdc_work from select() on; the mutex is held all the way. *)

Backlog == {c \in Conns : net[c] = "backlog"}

(* Slip: the open connection is not put into the set. *)
ReadyListenOnly == IF Backlog # {} THEN {Listen} ELSE {}

ReadyFds ==
  {c \in Conns : c = connected_fd /\ Readable(c)}
    \cup (IF Backlog # {} THEN {Listen} ELSE {})

(* select() timed out or was interrupted. *)
WorkIdle ==
  /\ pc = "select" /\ ReadyFds = {}
  /\ LeaveWork
  /\ UNCHANGED <<handleVars, todo, closing, inhand, callVars, helloOn,
                 netVars>>

WorkReady ==
  /\ pc = "select" /\ ReadyFds # {}
  /\ rfds' = ReadyFds
  /\ pc' = "accept"
  /\ UNCHANGED <<handleVars, mutex, todo, resume, closing, inhand, callVars,
                 helloOn, netVars>>

(* Slip: a new connection replaces the current one. *)
WorkAcceptTakesOver(c) ==
  /\ pc = "accept" /\ Listen \in rfds
  /\ net[c] = "backlog"
  /\ connected_fd' = c
  /\ net' = [net EXCEPT ![c] = "accepted"]
  /\ pc' = "read"
  /\ UNCHANGED <<session, requests_list, request_id, sinceCleanup, mutex, todo,
                 resume, closing, rfds, inhand, callVars, helloOn, peerOpen,
                 inbox>>

WorkAccept(c) ==
  /\ pc = "accept" /\ Listen \in rfds
  /\ net[c] = "backlog"
  /\ ~Connected
  /\ connected_fd' = c
  /\ net' = [net EXCEPT ![c] = "accepted"]
  /\ pc' = "read"
  /\ UNCHANGED <<session, requests_list, request_id, sinceCleanup, mutex, todo,
                 resume, closing, rfds, inhand, callVars, helloOn, peerOpen,
                 inbox>>

(* Slip: the rejected descriptor is not closed. *)
WorkRejectLeaks(c) ==
  /\ pc = "accept" /\ Listen \in rfds
  /\ net[c] = "backlog"
  /\ Connected
  /\ net' = [net EXCEPT ![c] = "accepted"]
  /\ pc' = "read"
  /\ UNCHANGED <<handleVars, mutex, todo, resume, closing, rfds, inhand,
                 callVars, helloOn, peerOpen, inbox>>

(* A second vdSM is told SERVICE_NOT_AVAILABLE through a throw-away handle *)
(* and its connection is closed.                                           *)
WorkReject(c) ==
  /\ pc = "accept" /\ Listen \in rfds
  /\ net[c] = "backlog"
  /\ Connected
  /\ Close(c)
  /\ pc' = "read"
  /\ UNCHANGED <<handleVars, mutex, todo, resume, closing, rfds, inhand,
                 callVars, helloOn>>

(* Nothing to accept, or accept() failed. *)
WorkAcceptNone ==
  /\ pc = "accept"
  /\ pc' = "read"
  /\ UNCHANGED <<handleVars, mutex, todo, resume, closing, rfds, inhand,
                 callVars, helloOn, netVars>>

WorkReadNone ==
  /\ pc = "read" /\ connected_fd \notin rfds
  /\ LeaveWork
  /\ UNCHANGED <<handleVars, todo, closing, inhand, callVars, helloOn,
                 netVars>>

(* A whole frame was read; the lock is dropped before it is processed.  A  *)
(* frame of length zero is skipped.                                        *)
WorkRead ==
  /\ pc = "read" /\ connected_fd \in rfds
  /\ inbox[connected_fd] # << >>
  /\ inbox' = [inbox EXCEPT ![connected_fd] = Tail(@)]
  /\ LET m == Head(inbox[connected_fd])
     IN IF m.type = "empty"
          THEN pc' = "out" /\ UNCHANGED inhand
          ELSE pc' = "process" /\ inhand' = m
  /\ mutex' = "free" /\ rfds' = {}
  /\ UNCHANGED <<handleVars, todo, resume, closing, callVars, helloOn, net,
                 peerOpen>>

(* Closed by the vdSM, oversized length, incomplete frame, no memory. *)
WorkReadFails ==
  /\ pc = "read" /\ connected_fd \in rfds
  /\ ResetConnection
  /\ UNCHANGED <<requests_list, request_id, sinceCleanup, todo, closing, inhand,
                 callVars>>

-----------------------------------------------------------------------------
(* dsvdc_process_message: entered without the mutex, each handler locks.   *)

Processing(type) == pc = "process" /\ inhand.type = type /\ mutex = "free"

ProcessIgnored ==
  /\ Processing("ignored")
  /\ pc' = "out" /\ inhand' = NoMessage
  /\ UNCHANGED <<handleVars, mutex, todo, resume, closing, rfds, callVars,
                 helloOn, netVars>>

(* All message types whose handler only calls the application. *)
ProcessNotify ==
  /\ Processing("notify")
  /\ EnterCallback("return") /\ inhand' = NoMessage
  /\ UNCHANGED <<handleVars, todo, closing, callVars, helloOn, netVars>>

(* The response is sent before the session starts; whether it could be     *)
(* sent makes no difference.                                               *)
ProcessHello ==
  /\ Processing("hello")
  /\ pc' = "hello" /\ inhand' = NoMessage
  /\ UNCHANGED <<handleVars, mutex, todo, resume, closing, rfds, callVars,
                 helloOn, netVars>>

ProcessHelloSession ==
  /\ pc = "hello" /\ mutex = "free"
  /\ IF session
       THEN LeaveWork /\ UNCHANGED <<session, helloOn>>
       ELSE /\ session' = TRUE
            /\ helloOn' = connected_fd
            /\ EnterCallback("return")
  /\ UNCHANGED <<connected_fd, requests_list, request_id, sinceCleanup, todo,
                 closing, inhand, callVars, netVars>>

ProcessBye ==
  /\ Processing("bye")
  /\ inhand' = NoMessage
  /\ IF Connected THEN ResetConnection
                  ELSE EndSession /\ UNCHANGED <<connected_fd, netVars>>
  /\ UNCHANGED <<requests_list, request_id, sinceCleanup, todo, closing,
                 callVars>>

(* Slip: the id of the response is not compared. *)
CachedAny(id) == requests_list

(* Slip: a request past its time-out is skipped although still listed. *)
CachedRecent(id) ==
  {n \in requests_list : reqId[n] = id /\ age[n] <= MsgTimeout}

(* dsvdc_get_cached_request: the cached request a response id belongs to. *)
Cached(id) == {n \in requests_list : reqId[n] = id}

(* Calls sent and not yet called back that this id answers. *)
Answers(id) ==
  {n \in Calls : reqId[n] = id /\ sentOn[n] # NoConn /\ code[n] = "none"}

ProcessResponse ==
  /\ Processing("response")
  /\ inhand.id # RESERVED_REQUEST_ID
  /\ \E n \in Cached(inhand.id) : Confirm(n, "vdsm")
  /\ answered' = answered \cup Answers(inhand.id)
  /\ EnterCallback("return") /\ inhand' = NoMessage
  /\ UNCHANGED <<connected_fd, session, request_id, sinceCleanup, todo,
                 closing, stage, reqId, sentOn, helloOn, netVars>>

(* The reserved id, or an id nothing is cached for: dropped. *)
ProcessResponseUnknown ==
  /\ Processing("response")
  /\ inhand.id = RESERVED_REQUEST_ID \/ Cached(inhand.id) = {}
  /\ answered' = answered \cup Answers(inhand.id)
  /\ pc' = "out" /\ inhand' = NoMessage
  /\ UNCHANGED <<handleVars, mutex, todo, resume, closing, rfds, stage, reqId,
                 age, fired, code, sentOn, helloOn, netVars>>

-----------------------------------------------------------------------------
(* dsvdc_cleanup: called once the application has stopped its threads and  *)
(* left the work loop.  The list is wiped while the connection is still    *)
(* open; then the descriptors are closed and the handle is gone.           *)

InCall(n) == stage[n] \in {"numbered", "sent", "stamped"}

(* Slip: dsvdc_cleanup does not wipe the list. *)
CleanupStartNoWipe ==
  /\ pc = "out" /\ mutex = "free" /\ ~closing
  /\ \A n \in AppCalls : ~InCall(n)
  /\ closing' = TRUE
  /\ mutex' = "worker"
  /\ pc' = "expire"
  /\ todo' = {}
  /\ UNCHANGED <<handleVars, resume, rfds, inhand, callVars, helloOn, netVars>>

CleanupStart ==
  /\ pc = "out" /\ mutex = "free" /\ ~closing
  /\ \A n \in AppCalls : ~InCall(n)
  /\ closing' = TRUE
  /\ mutex' = "worker"
  /\ pc' = "expire"
  /\ todo' = requests_list
  /\ UNCHANGED <<handleVars, resume, rfds, inhand, callVars, helloOn, netVars>>

CleanupClose ==
  /\ pc = "expire" /\ todo = {} /\ closing
  /\ connected_fd' = NoConn
  /\ net' = [c \in Conns |-> IF net[c] = "unused" THEN "unused" ELSE "closed"]
  /\ peerOpen' = [c \in Conns |-> FALSE]
  /\ inbox' = [c \in Conns |-> << >>]
  /\ pc' = "destroyed" /\ mutex' = "free"
  /\ UNCHANGED <<session, requests_list, request_id, sinceCleanup, todo, resume,
                 closing, rfds, inhand, callVars, helloOn>>

Terminated == pc = "destroyed" /\ UNCHANGED vars

-----------------------------------------------------------------------------
(* The vdSM and the clock. *)

PeerConnect(c) ==
  /\ pc # "destroyed" /\ net[c] = "unused"
  /\ net' = [net EXCEPT ![c] = "backlog"]
  /\ peerOpen' = [peerOpen EXCEPT ![c] = TRUE]
  /\ UNCHANGED <<handleVars, workerVars, callVars, helloOn, inbox>>

(* Response ids the vdSM knows of: those it was sent, and the reserved one. *)
KnownIds ==
  {RESERVED_REQUEST_ID}
    \cup {reqId[n] : n \in {k \in Calls : sentOn[k] # NoConn}}

PeerMessages ==
  {m \in Message : /\ m.type \in FrameTypes
                   /\ m.id = RESERVED_REQUEST_ID \/ m.type = "response"}

PeerSend(c, m) ==
  /\ peerOpen[c] /\ Len(inbox[c]) < MaxInbox
  /\ m.id \in KnownIds
  /\ inbox' = [inbox EXCEPT ![c] = Append(@, m)]
  /\ UNCHANGED <<handleVars, workerVars, callVars, helloOn, net, peerOpen>>

PeerClose(c) ==
  /\ peerOpen[c]
  /\ peerOpen' = [peerOpen EXCEPT ![c] = FALSE]
  /\ UNCHANGED <<handleVars, workerVars, callVars, helloOn, net, inbox>>

(* Calls whose timestamp has been taken and may still be compared. *)
Ageing == requests_list \cup {n \in Calls : stage[n] = "stamped"}

(* One unit of time; ages saturate, and a tick that changes nothing is none. *)
Tick ==
  /\ pc # "destroyed"
  /\ sinceCleanup < CheckInterval \/ \E n \in Ageing : age[n] <= MsgTimeout
  /\ sinceCleanup' = IF sinceCleanup < CheckInterval THEN sinceCleanup + 1
                                                     ELSE CheckInterval
  /\ age' = [n \in Calls |-> IF n \in Ageing /\ age[n] <= MsgTimeout
                               THEN age[n] + 1 ELSE age[n]]
  /\ UNCHANGED <<connected_fd, session, requests_list, request_id, workerVars,
                 stage, reqId, fired, code, sentOn, answered, helloOn, netVars>>

-----------------------------------------------------------------------------
WorkerStep ==
  \/ WorkEnter \/ (\E n \in Calls : Expire(n)) \/ ExpireDone
  \/ WorkIdle \/ WorkReady
  \/ (\E c \in Conns : WorkAccept(c) \/ WorkReject(c)) \/ WorkAcceptNone
  \/ WorkReadNone \/ WorkRead \/ WorkReadFails
  \/ ProcessIgnored \/ ProcessNotify \/ ProcessHello \/ ProcessHelloSession
  \/ ProcessBye \/ ProcessResponse \/ ProcessResponseUnknown
  \/ CallbackReturn \/ CleanupClose

CallbackStep(n) ==
  \/ CallbackAnnounce(n)
  \/ CallbackAnnounceNoMemory(n)
  \/ CallbackAnnounceNotSent(n)

PeerStep(c) ==
  \/ PeerConnect(c) \/ PeerClose(c)
  \/ \E m \in PeerMessages : PeerSend(c, m)

Next ==
  \/ WorkerStep
  \/ \E n \in AppCalls : AppStep(n)
  \/ \E n \in CbCalls : CallbackStep(n)
  \/ \E c \in Conns : PeerStep(c)
  \/ CleanupStart \/ Tick \/ Terminated

Spec == Init /\ [][Next]_vars

(* The application keeps calling dsvdc_work and its callbacks return, and  *)
(* time passes.  Nothing is assumed of the vdSM or of other threads.       *)
Fairness == WF_vars(WorkerStep) /\ WF_vars(Tick)

FairSpec == Spec /\ Fairness

-----------------------------------------------------------------------------
(* Properties. *)

(* What dsvdc_has_session reports. *)
HasSession == Connected /\ session

(* A session only exists on the connection whose HELLO opened it: no path  *)
(* that closes the socket (BYE, read failures in dsvdc_work) leaves the    *)
(* flag behind for the next connection to inherit.                         *)
SessionOfItsConnection ==
  session /\ pc # "destroyed" => Connected /\ helloOn = connected_fd

(* Whenever the worker is outside a locked section the mutex is free: every *)
(* early return of dsvdc_work and of the handlers unlocks.                  *)
MutexReleased ==
  pc \in {"out", "process", "hello", "destroyed"} => mutex = "free"

(* Every accepted descriptor is the current one or has been closed: neither *)
(* a rejected nor a reset connection leaks its descriptor.                  *)
NoLeakedConnection ==
  \A c \in Conns : net[c] = "accepted" <=> c = connected_fd

(* A confirmation callback runs exactly once for a call that returned OK   *)
(* and left the cache, and never for a call that returned an error or has  *)
(* not returned, whichever of answer, time-out and wipe comes first.       *)
ExactlyOneCallback ==
  \A n \in Calls :
    fired[n] = IF stage[n] = "ok" /\ n \notin requests_list THEN 1 ELSE 0

(* The vdSM's code reaches a call only if the call's message was written   *)
(* and a response with its id was processed.                               *)
AnswerBelongsToCall ==
  \A n \in Calls :
    code[n] = "vdsm" => sentOn[n] # NoConn /\ n \in answered

(* Requests announced from callbacks never survive their connection: what  *)
(* is cached while a connection is open was sent on that connection, since *)
(* dsvdc_work wipes the list before it can accept the next one.            *)
RequestsOfThisConnection ==
  \A n \in requests_list \cap CbCalls :
    Connected => sentOn[n] = connected_fd

(* A request announced from a callback is given up (TIMEOUT or             *)
(* NOT_CONNECTED) only if no answer to it had been processed.              *)
GivenUpOnlyIfUnanswered ==
  \A n \in CbCalls :
    code[n] \in {"timeout", "not_connected"} => n \notin answered

(* TIMEOUT is reported for requests older than the time-out only, and for  *)
(* those of callbacks only while the connection they were sent on is open. *)
TimeoutIsGenuine ==
  [][\A n \in Calls :
       code[n] # "timeout" /\ code'[n] = "timeout"
         => /\ age[n] > MsgTimeout
            /\ n \in CbCalls => sentOn[n] = connected_fd]_vars

(* A connection the vdSM has closed is noticed: has_session cannot stay    *)
(* true for ever, and a new connection can be accepted.                    *)
DepartureNoticed ==
  \A c \in Conns :
    connected_fd = c /\ ~peerOpen[c] ~> connected_fd # c

(* dsvdc.h on DSVDC_ERR_TIMEOUT: "vdSM did not response in time".          *)
TimeoutMeansNoAnswer ==
  \A n \in Calls : code[n] = "timeout" => n \notin answered

(* dsvdc.h on dsvdc_cleanup: "Free library instance and all associated     *)
(* resources": no request is left on the list of the freed handle.  It     *)
(* holds unless a callback of dsvdc_cleanup announces again, which is      *)
(* possible since the connection is still open.                            *)
CleanupLeavesNothing ==
  pc = "destroyed" => requests_list = {}

(* The session contract, with the link as the open connection.             *)
Session == INSTANCE SessionContract WITH link <- connected_fd,
                                         up <- HasSession
SessionContractHolds == Session!Spec

(* The announce contract.  A call that was called back twice maps to a     *)
(* state the contract does not have.                                       *)
Promise(n) ==
  IF stage[n] = "error" THEN "failed"
  ELSE IF stage[n] # "ok" THEN "pending"
  ELSE IF fired[n] = 0 THEN "accepted"
  ELSE IF fired[n] = 1 THEN "confirmed" ELSE "twice"

promises == [n \in Calls |-> Promise(n)]

Announce == INSTANCE AnnounceContract WITH promise <- promises
AnnounceContractHolds == Announce!FairSpec
=============================================================================
