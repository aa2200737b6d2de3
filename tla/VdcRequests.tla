----------------------------- MODULE VdcRequests -----------------------------
(***************************************************************************)
(* The other direction of libdsvdc: what the vdSM asks, what the library   *)
(* or the application answers, and how every message gets onto the socket  *)
(* (dsvdc_process_message and its handlers, dsvdc_send_message).           *)
(*                                                                         *)
(*   - one worker thread reads requests and runs their handlers; handlers  *)
(*     lock the handle, call the application back and may answer;          *)
(*   - get and set requests give the application a property handle, which  *)
(*     it answers with from the callback or later from a thread of its own;*)
(*   - a message is a length and a body, written by two sockwrite() calls  *)
(*     under the handle mutex; each can fail or write a part only.         *)
(*                                                                         *)
(* Announcements and their confirmations are the subject of VdcSession.    *)
(***************************************************************************)
EXTENDS Integers, Sequences, FiniteSets

CONSTANTS
  Conns,         \* connections the vdSM opens in one behaviour
  NoConn,        \* the file descriptor value -1
  Requests,      \* messages the vdSM sends in one behaviour
  NoRequest,     \* no message
  Kinds,         \* bound: the kinds of messages the vdSM sends
  Settable,      \* bound: callbacks the application sets and unsets while
                 \* the worker runs; the others are set from the start
  Threads,       \* application threads
  MaxSends,      \* bound: messages the application sends of its own accord
  Sizes,         \* sizes of packed messages
  LengthModulus, \* 2^16: the length field is a uint16_t
  Leftover       \* what malloc() can leave in a callback pointer

Worker == "worker"
Nobody == "nobody"

(* A "selfping" carries the dSUID of the vDC, a "ping" any other.  "notify" *)
(* stands for the nine notification types, whose handlers differ in the    *)
(* fields they require and hand over.                                      *)
CallbackKinds == {"get", "set", "remove", "ping", "notify"}
AllKinds == CallbackKinds \cup {"hello", "selfping", "bye"}
PropertyKinds == {"get", "set"}

ASSUME RequestsAssumption ==
  /\ NoConn \notin Conns
  /\ NoRequest \notin Requests
  /\ Kinds \subseteq AllKinds
  /\ Settable \subseteq CallbackKinds
  /\ {Worker, Nobody} \cap Threads = {}
  /\ Sizes \subseteq Nat
  /\ LengthModulus \in Nat \ {0}
  /\ MaxSends \in Nat
  /\ Leftover \subseteq {"null", "wild"}

Everyone == Threads \cup {Worker}

(* What the frame in hand contains: whether everything its handler requires *)
(* is there, and whether it has a message id.                              *)
Fields == [whole : BOOLEAN, id : BOOLEAN]
NoFields == [whole |-> FALSE, id |-> FALSE]

Message == [type : {"answer", "error", "hello", "own"},
            re : Requests \cup {NoRequest}, size : Sizes]
NoMessage == [type |-> "none", re |-> NoRequest, size |-> 0]

VARIABLES
  connected_fd,  \* handle->connected_fd
  session,       \* handle->session
  callbacks,     \* the callback pointers of the handle
  holder,        \* who holds handle->dsvdc_handle_mutex
  pc,            \* where the worker is
  cur,           \* the request the worker is processing
  has,           \* what that request contains
  kind,          \* the kind of each request read so far
  property,      \* the property handle of each get or set request
  phase,         \* progress of each thread inside dsvdc_send_message
  out,           \* the message each thread is sending
  wire,          \* what was written to each connection
  torn,          \* connections on which a message was written in part
  sends,         \* messages the application sent of its own accord
  used           \* connections accepted so far

connVars == <<connected_fd, session, used>>
workVars == <<pc, cur, has, kind>>
sendVars == <<phase, out, wire, torn>>
vars == <<connVars, callbacks, holder, workVars, property, sendVars, sends>>

Piece == [part : {"length", "body"}, msg : Message, bytes : Nat]

TypeOK ==
  /\ connected_fd \in Conns \cup {NoConn}
  /\ session \in BOOLEAN
  /\ callbacks \in [CallbackKinds -> {"null", "app", "wild"}]
  /\ holder \in Everyone \cup {Nobody}
  /\ pc \in {"out", "process", "callback", "answer", "hello", "crashed"}
  /\ cur \in Requests \cup {NoRequest}
  /\ has \in Fields
  /\ kind \in [Requests -> AllKinds \cup {"none"}]
  /\ property \in [Requests -> {"none", "app", "freed", "leaked"}]
  /\ phase \in [Everyone -> {"idle", "length", "body"}]
  /\ out \in [Everyone -> Message \cup {NoMessage}]
  /\ wire \in [Conns -> Seq(Piece)]
  /\ torn \subseteq Conns
  /\ sends \in 0 .. MaxSends
  /\ used \subseteq Conns

(* dsvdc_setup_handle assigns all callbacks but vdsm_request_set_property. *)
Init ==
  /\ connected_fd = NoConn /\ session = FALSE /\ used = {}
  /\ callbacks \in [CallbackKinds -> {"null", "app", "wild"}]
  /\ \A k \in CallbackKinds :
       IF k \notin Settable THEN callbacks[k] = "app"
       ELSE IF k = "set" THEN callbacks[k] \in Leftover
       ELSE callbacks[k] = "null"
  /\ holder = Nobody
  /\ pc = "out" /\ cur = NoRequest /\ has = NoFields
  /\ kind = [r \in Requests |-> "none"]
  /\ property = [r \in Requests |-> "none"]
  /\ phase = [t \in Everyone |-> "idle"]
  /\ out = [t \in Everyone |-> NoMessage]
  /\ wire = [c \in Conns |-> << >>]
  /\ torn = {}
  /\ sends = 0

-----------------------------------------------------------------------------
(* dsvdc_send_message.  The mutex is recursive: the worker may hold it     *)
(* already.                                                                *)

Connected == connected_fd # NoConn

MayLock(t) == holder \in {Nobody, t}

(* The worker leaves the handler and returns to the loop of dsvdc_work. *)
LeaveHandler ==
  pc' = "out" /\ cur' = NoRequest /\ has' = NoFields /\ holder' = Nobody

(* Slip: the connection is not looked at. *)
StartSendUnchecked(t, m) ==
  /\ MayLock(t)
  /\ holder' = t
  /\ phase' = [phase EXCEPT ![t] = "length"]
  /\ out' = [out EXCEPT ![t] = m]
  /\ UNCHANGED <<wire, torn>>

(* Locked, connected, packed: the length comes next. *)
StartSend(t, m) ==
  /\ MayLock(t) /\ Connected
  /\ holder' = t
  /\ phase' = [phase EXCEPT ![t] = "length"]
  /\ out' = [out EXCEPT ![t] = m]
  /\ UNCHANGED <<wire, torn>>

Write(t, p) ==
  LET m == out[t]
      bytes == IF p = "length" THEN m.size % LengthModulus ELSE m.size
  IN wire' = [wire EXCEPT ![connected_fd] =
                Append(@, [part |-> p, msg |-> m, bytes |-> bytes])]

(* Slip: the mutex is released between length and body. *)
SendLengthUnlocks(t) ==
  /\ phase[t] = "length"
  /\ Write(t, "length")
  /\ phase' = [phase EXCEPT ![t] = "body"]
  /\ holder' = IF t = Worker THEN holder ELSE Nobody
  /\ UNCHANGED <<connVars, callbacks, workVars, property, out, torn, sends>>

SendLength(t) ==
  /\ phase[t] = "length"
  /\ Write(t, "length")
  /\ phase' = [phase EXCEPT ![t] = "body"]
  /\ UNCHANGED <<connVars, callbacks, holder, workVars, property, out, torn,
                 sends>>

(* What the caller does when dsvdc_send_message has returned: unlock, and  *)
(* the response functions free the property handle in any case.            *)
AfterSend(t) ==
  /\ phase' = [phase EXCEPT ![t] = "idle"]
  /\ out' = [out EXCEPT ![t] = NoMessage]
  /\ property' = IF out[t].type = "answer"
                   THEN [property EXCEPT ![out[t].re] = "freed"] ELSE property
  /\ IF t # Worker THEN holder' = Nobody /\ UNCHANGED <<pc, cur, has>>
     ELSE IF pc = "callback" THEN UNCHANGED <<holder, pc, cur, has>>
     ELSE IF out[t].type = "hello"
       THEN pc' = "hello" /\ holder' = Nobody /\ UNCHANGED <<cur, has>>
     ELSE LeaveHandler

SendBody(t) ==
  /\ phase[t] = "body"
  /\ Write(t, "body")
  /\ AfterSend(t)
  /\ UNCHANGED <<connVars, callbacks, kind, torn, sends>>

(* sockwrite() timed out or failed.  Before the first byte nothing is lost; *)
(* later the connection has seen a part of a message, and stays open.      *)
SendFails(t) ==
  /\ phase[t] # "idle"
  /\ \/ phase[t] = "length" /\ UNCHANGED torn
     \/ torn' = torn \cup {connected_fd}
  /\ AfterSend(t)
  /\ UNCHANGED <<connVars, callbacks, kind, wire, sends>>

-----------------------------------------------------------------------------
(* dsvdc_work: connections and requests. *)

WorkAccept(c) ==
  /\ pc = "out" /\ holder = Nobody
  /\ ~Connected /\ c \notin used
  /\ connected_fd' = c /\ used' = used \cup {c}
  /\ UNCHANGED <<session, callbacks, holder, workVars, property, sendVars,
                 sends>>

(* close, connected_fd = -1, and the end_session callback of a session. *)
CloseConnection ==
  /\ connected_fd' = NoConn /\ session' = FALSE
  /\ IF session
       THEN pc' = "callback" /\ holder' = Worker
              /\ cur' = NoRequest /\ has' = NoFields
       ELSE LeaveHandler

WorkReset ==
  /\ pc = "out" /\ holder = Nobody /\ Connected
  /\ CloseConnection
  /\ UNCHANGED <<used, callbacks, kind, property, sendVars, sends>>

(* A frame was read and unpacked, and the mutex released. *)
WorkRead(r, k, h) ==
  /\ pc = "out" /\ holder = Nobody /\ Connected
  /\ kind[r] = "none"
  /\ kind' = [kind EXCEPT ![r] = k]
  /\ pc' = "process" /\ cur' = r /\ has' = h
  /\ UNCHANGED <<connVars, callbacks, holder, property, sendVars, sends>>

-----------------------------------------------------------------------------
(* dsvdc_process_message and the handlers. *)

Kind == kind[cur]

Processing == pc = "process" /\ holder = Nobody

EnterCallback ==
  pc' = "callback" /\ holder' = Worker /\ UNCHANGED <<cur, has>>

(* The worker sends m, after which the handler is left. *)
AnswerWith(type) ==
  \E s \in Sizes :
    /\ StartSend(Worker, [type |-> type, re |-> cur, size |-> s])
    /\ pc' = "answer" /\ UNCHANGED <<cur, has>>

(* Slip: the empty message is answered, too, whatever its type. *)
RejectedAll == ~has.whole /\ has.id

(* Only a remove request is told what is missing. *)
Rejected == Kind = "remove" /\ ~has.whole /\ has.id

ProcessDropped ==
  /\ Processing /\ ~Rejected
  /\ \/ ~has.whole
     \/ Kind \in CallbackKinds /\ callbacks[Kind] = "null"
  /\ LeaveHandler
  /\ UNCHANGED <<connVars, callbacks, kind, property, sendVars, sends>>

ProcessRejected ==
  /\ Processing /\ Rejected
  /\ AnswerWith("error")
  /\ UNCHANGED <<connVars, callbacks, kind, property, sends>>

(* Calling through a pointer that was never assigned. *)
ProcessWild ==
  /\ Processing /\ has.whole
  /\ Kind \in CallbackKinds /\ callbacks[Kind] = "wild"
  /\ pc' = "crashed"
  /\ UNCHANGED <<connVars, callbacks, holder, cur, has, kind, property,
                 sendVars, sends>>

Accepted ==
  /\ Processing /\ has.whole
  /\ Kind \in CallbackKinds /\ callbacks[Kind] = "app"

(* Notifications, pings of devices, and remove requests. *)
ProcessCallback ==
  /\ Accepted /\ Kind \notin PropertyKinds
  /\ EnterCallback
  /\ UNCHANGED <<connVars, callbacks, kind, property, sendVars, sends>>

(* get and set: the application becomes the owner of a property handle. *)
ProcessProperty ==
  /\ Accepted /\ Kind \in PropertyKinds
  /\ property' = [property EXCEPT ![cur] = "app"]
  /\ EnterCallback
  /\ UNCHANGED <<connVars, callbacks, kind, sendVars, sends>>

(* Slip: the application is called although the error was sent. *)
ProcessPropertyFailsOn ==
  /\ Accepted /\ Kind \in PropertyKinds
  /\ property' = [property EXCEPT ![cur] = "app"]
  /\ \E s \in Sizes :
       StartSend(Worker, [type |-> "error", re |-> cur, size |-> s])
  /\ pc' = "callback" /\ UNCHANGED <<cur, has>>
  /\ UNCHANGED <<connVars, callbacks, kind, sends>>

(* No memory for the handle, or for the copy of the query: then the handle *)
(* is lost.                                                                *)
ProcessPropertyFails ==
  /\ Accepted /\ Kind \in PropertyKinds
  /\ property' \in {property, [property EXCEPT ![cur] = "leaked"]}
  /\ AnswerWith("error")
  /\ UNCHANGED <<connVars, callbacks, kind, sends>>

(* A ping of the vDC itself; the pong has no message id. *)
ProcessSelfPing ==
  /\ Processing /\ has.whole /\ Kind = "selfping"
  /\ \E s \in Sizes :
       StartSend(Worker, [type |-> "own", re |-> NoRequest, size |-> s])
  /\ pc' = "answer"
  /\ UNCHANGED <<connVars, callbacks, cur, has, kind, property, sends>>

ProcessHello ==
  /\ Processing /\ has.whole /\ Kind = "hello"
  /\ AnswerWith("hello")
  /\ UNCHANGED <<connVars, callbacks, kind, property, sends>>

(* No memory for the packed message: the handler goes on as if it was sent. *)
ProcessNoMemory ==
  /\ Processing
  /\ \/ /\ Rejected \/ (has.whole /\ Kind = "selfping")
        /\ LeaveHandler /\ UNCHANGED property
     \/ /\ has.whole /\ Kind = "hello"
        /\ pc' = "hello" /\ UNCHANGED <<cur, has, holder, property>>
     \/ /\ Accepted /\ Kind \in PropertyKinds
        /\ property' \in {property, [property EXCEPT ![cur] = "leaked"]}
        /\ LeaveHandler
  /\ UNCHANGED <<connVars, callbacks, kind, sendVars, sends>>

HelloSession ==
  /\ pc = "hello" /\ holder = Nobody
  /\ IF session THEN LeaveHandler /\ UNCHANGED session
     ELSE session' = TRUE /\ EnterCallback
  /\ UNCHANGED <<connected_fd, used, callbacks, kind, property, sendVars,
                 sends>>

(* Slip: the connection is closed without the mutex. *)
ProcessByeUnlocked ==
  /\ pc = "process" /\ has.whole /\ Kind = "bye"
  /\ CloseConnection
  /\ UNCHANGED <<used, callbacks, kind, property, sendVars, sends>>

ProcessBye ==
  /\ Processing /\ has.whole /\ Kind = "bye"
  /\ CloseConnection
  /\ UNCHANGED <<used, callbacks, kind, property, sendVars, sends>>

(* Slip: the handler of a remove request without id returns locked. *)
CallbackReturnLocked ==
  /\ pc = "callback" /\ phase[Worker] = "idle"
  /\ IF cur # NoRequest /\ Kind = "remove"
       THEN IF has.id THEN AnswerWith("error")
            ELSE pc' = "out" /\ cur' = NoRequest /\ has' = NoFields
                   /\ UNCHANGED <<holder, sendVars>>
       ELSE LeaveHandler /\ UNCHANGED sendVars
  /\ UNCHANGED <<connVars, callbacks, kind, property, sends>>

(* The callback returns; a remove request is told its result. *)
CallbackReturn ==
  /\ pc = "callback" /\ phase[Worker] = "idle"
  /\ IF cur # NoRequest /\ Kind = "remove" /\ has.id
       THEN \/ AnswerWith("error")
            \/ LeaveHandler /\ UNCHANGED sendVars
       ELSE LeaveHandler /\ UNCHANGED sendVars
  /\ UNCHANGED <<connVars, callbacks, kind, property, sends>>

-----------------------------------------------------------------------------
(* The application: in its threads when the mutex is free, or in a callback *)
(* on the worker's stack.                                                  *)

MayCall(t) ==
  phase[t] = "idle"
    /\ IF t = Worker THEN pc = "callback" ELSE holder = Nobody

(* dsvdc_send_get_property_response, and dsvdc_send_set_property_response  *)
(* with a code it accepts; with another one it returns and does nothing.   *)
SendResponse(t, r) ==
  /\ MayCall(t) /\ property[r] = "app"
  /\ \E s \in Sizes :
       StartSend(t, [type |-> "answer", re |-> r, size |-> s])
  /\ UNCHANGED <<connVars, callbacks, workVars, property, sends>>

(* Not connected, or no memory: nothing is sent, the handle is freed. *)
SendResponseRefused(t, r) ==
  /\ MayCall(t) /\ property[r] = "app"
  /\ property' = [property EXCEPT ![r] = "freed"]
  /\ UNCHANGED <<connVars, callbacks, holder, workVars, sendVars, sends>>

(* Pong, vanish, identify, push. *)
SendOwn(t) ==
  /\ MayCall(t) /\ sends < MaxSends
  /\ \E s \in Sizes :
       StartSend(t, [type |-> "own", re |-> NoRequest, size |-> s])
  /\ sends' = sends + 1
  /\ UNCHANGED <<connVars, callbacks, workVars, property>>

(* dsvdc_set_..._callback *)
SetCallback(t, k, v) ==
  /\ MayCall(t)
  /\ callbacks[k] # v
  /\ callbacks' = [callbacks EXCEPT ![k] = v]
  /\ UNCHANGED <<connVars, holder, workVars, property, sendVars, sends>>

-----------------------------------------------------------------------------
Crashed == pc = "crashed" /\ UNCHANGED vars

WorkerStep ==
  \/ (\E c \in Conns : WorkAccept(c)) \/ WorkReset
  \/ \E r \in Requests, k \in Kinds, h \in Fields : WorkRead(r, k, h)
  \/ ProcessDropped \/ ProcessRejected \/ ProcessWild \/ ProcessCallback
  \/ ProcessProperty \/ ProcessPropertyFails \/ ProcessSelfPing
  \/ ProcessHello \/ ProcessNoMemory \/ HelloSession \/ ProcessBye
  \/ CallbackReturn

SendStep(t) == SendLength(t) \/ SendBody(t) \/ SendFails(t)

AppStep(t) ==
  \/ \E r \in Requests : SendResponse(t, r) \/ SendResponseRefused(t, r)
  \/ SendOwn(t)
  \/ \E k \in Settable, v \in {"null", "app"} : SetCallback(t, k, v)

Next ==
  \/ WorkerStep
  \/ \E t \in Everyone : SendStep(t) \/ AppStep(t)
  \/ Crashed

Spec == Init /\ [][Next]_vars

-----------------------------------------------------------------------------
(* Properties. *)

(* What the vdSM receives on a connection is a sequence of whole messages, *)
(* each behind its own length, whichever threads sent them, unless a write *)
(* broke off in the middle.                                                *)
FramesWhole ==
  \A c \in Conns \ torn :
    /\ \A i \in 1 .. Len(wire[c]) :
         IF i % 2 = 1 THEN wire[c][i].part = "length"
         ELSE /\ wire[c][i].part = "body"
              /\ wire[c][i].msg = wire[c][i - 1].msg
              /\ wire[c][i].bytes = wire[c][i - 1].bytes
    /\ Len(wire[c]) % 2 = 1 =>
         connected_fd = c /\ \E t \in Everyone : phase[t] = "body"

(* The i-th piece written to connection c is the body of an answer to r. *)
Answers(c, i, r) == wire[c][i].part = "body" /\ wire[c][i].msg.re = r

(* The connections and positions at which r is answered. *)
AnswersTo(r) ==
  {p \in Conns \X (1 .. 2 * (Cardinality(Requests) + MaxSends)) :
     p[2] <= Len(wire[p[1]]) /\ Answers(p[1], p[2], r)}

(* No request is answered twice: not by the library and the application,   *)
(* not by a callback and a thread, not on two connections.                 *)
SingleAnswer == \A r \in Requests : Cardinality(AnswersTo(r)) <= 1

(* messages.proto: "notifications do not expect any response, not even     *)
(* error responses".  Pings and BYE have no answer either: a pong does not *)
(* carry the message id of its ping.                                       *)
NotificationsUnanswered ==
  \A r \in Requests :
    kind[r] \in {"notify", "ping", "selfping", "bye"} => AnswersTo(r) = {}

(* The connection is not closed and not replaced under a thread that is    *)
(* sending on it or under a callback.                                      *)
ConnectionStable ==
  [][(\E t \in Everyone : phase[t] # "idle") \/ pc = "callback"
       => connected_fd' = connected_fd]_vars

(* The handle mutex is held by whoever is sending and by the worker during *)
(* a callback or an answer, and by nobody else: no path of a handler, of a *)
(* response function or of dsvdc_send_message returns with it locked, and  *)
(* none gives it up in between.                                            *)
LockDiscipline ==
  /\ \A t \in Everyone : phase[t] # "idle" => holder = t
  /\ pc = "callback" => holder = Worker
  /\ holder = Worker => pc \in {"callback", "answer"}
  /\ \A t \in Threads : holder = t => phase[t] # "idle"

(* dsvdc.h on the callback setters: "Pass NULL for the callback function to *)
(* unregister", and dsvdc_setup_handle's "init members": a handler only    *)
(* calls what was registered.                                              *)
NoWildCall == pc # "crashed"
=============================================================================
