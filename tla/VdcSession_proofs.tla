------------------------ MODULE VdcSession_proofs ------------------------
(***************************************************************************)
(* Machine-checked proofs about VdcSession, for every set of connections   *)
(* and calls and every value of the bounds.                                *)
(***************************************************************************)
EXTENDS VdcSession, SequenceTheorems, TLAPS

(* Facts about empty buffers, kept apart from the large typing goals. *)
LEMMA EmptyInbox == << >> \in Seq(Message)
  BY EmptySeq

LEMMA InitTypeOK == Init => TypeOK
<1> SUFFICES ASSUME Init PROVE TypeOK
  OBVIOUS
<1>1. inbox \in [Conns -> Seq(Message)]
  BY EmptyInbox DEF Init
<1>2. /\ sinceCleanup \in 0 .. CheckInterval /\ request_id \in Ids
      /\ age \in [Calls -> 0 .. MsgTimeout + 1]
      /\ reqId \in [Calls -> Ids] /\ fired \in [Calls -> Nat]
  BY BoundsAssumption DEF Init, Ids
<1>3. QED
  BY <1>1, <1>2 DEF Init, TypeOK, Stages, Codes, Places

(* Closing a connection keeps the types of the kernel's state. *)
LEMMA CloseTypeOK ==
  ASSUME TypeOK, NEW c \in Conns \cup {NoConn}, Close(c)
  PROVE  /\ net' \in [Conns -> {"unused", "backlog", "accepted", "closed"}]
         /\ peerOpen' \in [Conns -> BOOLEAN]
         /\ inbox' \in [Conns -> Seq(Message)]
<1>1. net' \in [Conns -> {"unused", "backlog", "accepted", "closed"}]
  BY DEF TypeOK, Close
<1>2. peerOpen' \in [Conns -> BOOLEAN]
  BY DEF TypeOK, Close
<1>3. inbox' \in [Conns -> Seq(Message)]
  <2>1. inbox' = [inbox EXCEPT ![c] = << >>]
    BY DEF Close
  <2>2. inbox \in [Conns -> Seq(Message)]
    BY DEF TypeOK
  <2>3. QED
    BY <2>1, <2>2, EmptyInbox
<1>4. QED
  BY <1>1, <1>2, <1>3

(* Ending the session keeps the types of what it changes. *)
LEMMA EndSessionTypeOK ==
  ASSUME TypeOK, EndSession
  PROVE  /\ session' \in BOOLEAN
         /\ helloOn' \in Conns \cup {NoConn}
         /\ mutex' \in {"free", "worker"}
         /\ pc' \in Places
         /\ resume' \in {"expire", "return"}
         /\ rfds' \subseteq Conns \cup {Listen}
  BY DEF TypeOK, EndSession, EnterCallback, LeaveWork, Places

LEMMA NextTypeOK == TypeOK /\ [Next]_vars => TypeOK'
<1> SUFFICES ASSUME TypeOK, [Next]_vars PROVE TypeOK'
  OBVIOUS
<1> USE BoundsAssumption, NamesAssumption
        DEF Calls, Ids, Stages, Codes, Places
<1>1. ASSUME NEW n \in AppCalls, AnnounceNumber(n) PROVE TypeOK'
  BY <1>1 DEF AnnounceNumber, Number, workerVars, netVars, TypeOK
<1>2. ASSUME NEW n \in AppCalls, AnnounceSend(n) PROVE TypeOK'
  BY <1>2 DEF AnnounceSend, Connected, handleVars, workerVars, netVars,
     TypeOK
<1>3. ASSUME NEW n \in AppCalls, AnnounceSendFails(n) PROVE TypeOK'
  BY <1>3 DEF AnnounceSendFails, handleVars, workerVars, netVars, TypeOK
<1>4. ASSUME NEW n \in AppCalls, AnnounceStamp(n) PROVE TypeOK'
  BY <1>4 DEF AnnounceStamp, handleVars, workerVars, netVars, TypeOK
<1>5. ASSUME NEW n \in AppCalls, AnnounceNoMemory(n) PROVE TypeOK'
  BY <1>5 DEF AnnounceNoMemory, handleVars, workerVars, netVars, TypeOK
<1>6. ASSUME NEW n \in AppCalls, AnnouncePrepend(n) PROVE TypeOK'
  BY <1>6 DEF AnnouncePrepend, Cache, workerVars, netVars, TypeOK
<1>7. ASSUME NEW n \in CbCalls, CallbackAnnounce(n) PROVE TypeOK'
  BY <1>7 DEF CallbackAnnounce, CallbackCall, Number, Cache, Connected,
     workerVars, netVars, TypeOK
<1>8. ASSUME NEW n \in CbCalls, CallbackAnnounceNoMemory(n) PROVE TypeOK'
  BY <1>8 DEF CallbackAnnounceNoMemory, CallbackCall, Number, Connected,
     workerVars, netVars, TypeOK
<1>9. ASSUME NEW n \in CbCalls, CallbackAnnounceNotSent(n) PROVE TypeOK'
  BY <1>9 DEF CallbackAnnounceNotSent, CallbackCall, Number, workerVars,
     netVars, TypeOK
<1>10. CASE CallbackReturn
  BY <1>10 DEF CallbackReturn, LeaveWork, handleVars, callVars, netVars,
     TypeOK
<1>11. CASE WorkEnter
  BY <1>11 DEF WorkEnter, CleanupDue, Obsolete, Connected, handleVars,
     callVars, netVars, TypeOK
<1>12. ASSUME NEW n \in Calls, Expire(n) PROVE TypeOK'
  BY <1>12 DEF Expire, Confirm, EnterCallback, LocalCode, Connected,
     netVars, TypeOK
<1>13. CASE ExpireDone
  BY <1>13 DEF ExpireDone, callVars, netVars, TypeOK
<1>14. CASE WorkIdle
  BY <1>14 DEF WorkIdle, LeaveWork, handleVars, callVars, netVars, TypeOK
<1>15. CASE WorkReady
  BY <1>15 DEF WorkReady, ReadyFds, handleVars, callVars, netVars, TypeOK
<1>16. ASSUME NEW c \in Conns, WorkAccept(c) PROVE TypeOK'
  BY <1>16 DEF WorkAccept, Connected, callVars, TypeOK
<1>17. ASSUME NEW c \in Conns, WorkReject(c) PROVE TypeOK'
  BY <1>17 DEF WorkReject, Close, Connected, handleVars, callVars, TypeOK
<1>18. CASE WorkAcceptNone
  BY <1>18 DEF WorkAcceptNone, handleVars, callVars, netVars, TypeOK
<1>19. CASE WorkReadNone
  BY <1>19 DEF WorkReadNone, LeaveWork, handleVars, callVars, netVars,
     TypeOK
<1>20. CASE WorkRead
  BY <1>20 DEF WorkRead, handleVars, callVars, TypeOK
<1>21. CASE WorkReadFails
  BY <1>21, CloseTypeOK, EndSessionTypeOK
     DEF WorkReadFails, ResetConnection, callVars, TypeOK
<1>22. CASE ProcessIgnored
  BY <1>22 DEF ProcessIgnored, Processing, handleVars, callVars, netVars,
     TypeOK
<1>23. CASE ProcessNotify
  BY <1>23 DEF ProcessNotify, Processing, EnterCallback, handleVars,
     callVars, netVars, TypeOK
<1>24. CASE ProcessHello
  BY <1>24 DEF ProcessHello, Processing, handleVars, callVars, netVars,
     TypeOK
<1>25. CASE ProcessHelloSession
  BY <1>25 DEF ProcessHelloSession, EnterCallback, LeaveWork, callVars,
     netVars, TypeOK
<1>26. CASE ProcessBye
  BY <1>26, CloseTypeOK, EndSessionTypeOK
     DEF ProcessBye, ResetConnection, callVars, netVars, TypeOK
<1>27. CASE ProcessResponse
  BY <1>27 DEF ProcessResponse, Processing, Cached, Answers, Confirm,
     EnterCallback, netVars, TypeOK
<1>28. CASE ProcessResponseUnknown
  BY <1>28 DEF ProcessResponseUnknown, Processing, Cached, Answers,
     handleVars, netVars, TypeOK
<1>29. CASE CleanupStart
  BY <1>29 DEF CleanupStart, handleVars, callVars, netVars, TypeOK
<1>30. CASE CleanupClose
  BY <1>30 DEF CleanupClose, callVars, TypeOK
<1>31. ASSUME NEW c \in Conns, PeerConnect(c) PROVE TypeOK'
  BY <1>31 DEF PeerConnect, handleVars, workerVars, callVars, TypeOK
<1>32. ASSUME NEW c \in Conns, PeerClose(c) PROVE TypeOK'
  BY <1>32 DEF PeerClose, handleVars, workerVars, callVars, TypeOK
<1>33. ASSUME NEW c \in Conns, NEW m \in PeerMessages, PeerSend(c, m) PROVE TypeOK'
  BY <1>33 DEF PeerSend, PeerMessages, handleVars, workerVars, callVars,
     TypeOK
<1>34. CASE Tick
  BY <1>34 DEF Tick, Ageing, workerVars, netVars, TypeOK
<1>35. CASE UNCHANGED vars
  BY <1>35 DEF TypeOK, vars, handleVars, workerVars, callVars, netVars
<1>36. QED
  BY <1>1, <1>2, <1>3, <1>4, <1>5, <1>6, <1>7, <1>8, <1>9, <1>10, <1>11, <1>12, <1>13, <1>14, <1>15, <1>16, <1>17, <1>18, <1>19, <1>20, <1>21, <1>22, <1>23, <1>24, <1>25, <1>26, <1>27, <1>28, <1>29, <1>30, <1>31, <1>32, <1>33, <1>34, <1>35
     DEF Next, WorkerStep, AppStep, CallbackStep, PeerStep, Terminated

-----------------------------------------------------------------------------
(* The inductive invariant.  Each part is one idea about the code. *)

Locked == {"expire", "select", "accept", "read", "callback"}

(* The worker is walking requests_list, or in a callback of that walk. *)
Cleaning == pc = "expire" \/ (pc = "callback" /\ resume = "expire")

(* The mutex is held in exactly the locked sections, a message is in hand  *)
(* only while its connection is open, and dsvdc_cleanup never goes back to *)
(* dsvdc_work.                                                             *)
WorkerInv ==
  /\ mutex = IF pc \in Locked THEN "worker" ELSE "free"
  /\ pc \in {"process", "hello"} => Connected
  /\ closing => pc \in {"expire", "callback", "destroyed"}
  /\ closing /\ pc = "callback" => resume = "expire"
  /\ pc = "destroyed" => closing /\ ~Connected

(* Requests to drop are on the list, everything on the list was returned   *)
(* as OK, and without a connection the walk drops all a callback announced. *)
ListInv ==
  /\ todo \subseteq requests_list
  /\ ~Cleaning => todo = {}
  /\ \A n \in requests_list : stage[n] = "ok"
  /\ ~Connected /\ (Cleaning \/ pc \in {"select", "accept"})
       => requests_list \cap CbCalls \subseteq todo

(* With a connection dsvdc_work only drops requests that are too old. *)
TodoInv ==
  ~closing /\ Connected => \A n \in todo : age[n] > MsgTimeout

(* What stage, cache, connection and callback of a call have to do with    *)
(* each other.                                                             *)
CallInv ==
  \A n \in Calls :
    /\ code[n] = "none" <=> fired[n] = 0
    /\ stage[n] \in {"sent", "stamped", "ok"} => sentOn[n] # NoConn
    /\ stage[n] = "idle" => sentOn[n] = NoConn
    /\ n \in answered => sentOn[n] # NoConn
    /\ n \in requests_list \cap CbCalls => n \notin answered

(* Message ids are assigned once and never the reserved one. *)
IdInv ==
  \A n \in Calls : stage[n] # "idle" =>
    /\ reqId[n] \in 1 .. request_id
    /\ \A m \in Calls : stage[m] # "idle" /\ reqId[m] = reqId[n] => m = n

-----------------------------------------------------------------------------
(* Preservation, part by part. *)

(* The locked sections are entered and left as the code writes them. *)
LEMMA NextWorkerInv ==
  ASSUME TypeOK, WorkerInv, [Next]_vars
  PROVE  WorkerInv'
<1> USE BoundsAssumption, NamesAssumption
<1>1. ASSUME NEW n \in AppCalls, AppStep(n) PROVE WorkerInv'
  BY <1>1
     DEF AppStep, AnnounceNumber, Number, workerVars, netVars, AnnounceSend,
         Connected, handleVars, AnnounceSendFails, AnnounceStamp,
         AnnounceNoMemory, AnnouncePrepend, Cache, TypeOK, WorkerInv, Locked
<1>2. ASSUME NEW n \in CbCalls, CallbackStep(n) PROVE WorkerInv'
  BY <1>2
     DEF CallbackStep, CallbackAnnounce, CallbackCall, Number, Cache,
         Connected, workerVars, netVars, CallbackAnnounceNoMemory,
         CallbackAnnounceNotSent, TypeOK, WorkerInv, Locked
<1>3. CASE CallbackReturn
  BY <1>3
     DEF CallbackReturn, LeaveWork, handleVars, callVars, netVars, TypeOK,
         WorkerInv, Locked, Connected
<1>4. CASE WorkEnter
  BY <1>4
     DEF WorkEnter, CleanupDue, Obsolete, Connected, handleVars, callVars,
         netVars, TypeOK, WorkerInv, Locked
<1>5. ASSUME NEW n \in Calls, Expire(n) PROVE WorkerInv'
  BY <1>5
     DEF Expire, Confirm, EnterCallback, LocalCode, Connected, netVars,
         TypeOK, WorkerInv, Locked
<1>6. CASE ExpireDone
  BY <1>6
     DEF ExpireDone, callVars, netVars, TypeOK, WorkerInv, Locked, Connected
<1>7. CASE WorkIdle
  BY <1>7
     DEF WorkIdle, LeaveWork, handleVars, callVars, netVars, TypeOK,
         WorkerInv, Locked, Connected
<1>8. CASE WorkReady
  BY <1>8
     DEF WorkReady, ReadyFds, handleVars, callVars, netVars, TypeOK,
         WorkerInv, Locked, Connected
<1>9. ASSUME NEW c \in Conns, WorkAccept(c) PROVE WorkerInv'
  BY <1>9 DEF WorkAccept, Connected, callVars, TypeOK, WorkerInv, Locked
<1>10. ASSUME NEW c \in Conns, WorkReject(c) PROVE WorkerInv'
  BY <1>10
     DEF WorkReject, Close, Connected, handleVars, callVars, TypeOK,
         WorkerInv, Locked
<1>11. CASE WorkAcceptNone
  BY <1>11
     DEF WorkAcceptNone, handleVars, callVars, netVars, TypeOK, WorkerInv,
         Locked, Connected
<1>12. CASE WorkReadNone
  BY <1>12
     DEF WorkReadNone, LeaveWork, handleVars, callVars, netVars, TypeOK,
         WorkerInv, Locked, Connected
<1>13. CASE WorkRead
  BY <1>13
     DEF WorkRead, handleVars, callVars, TypeOK, WorkerInv, Locked,
         Connected
<1>14. CASE WorkReadFails
  BY <1>14
     DEF WorkReadFails, ResetConnection, Close, EndSession, EnterCallback,
         LeaveWork, callVars, TypeOK, WorkerInv, Locked, Connected
<1>15. CASE ProcessIgnored
  BY <1>15
     DEF ProcessIgnored, Processing, handleVars, callVars, netVars, TypeOK,
         WorkerInv, Locked, Connected
<1>16. CASE ProcessNotify
  BY <1>16
     DEF ProcessNotify, Processing, EnterCallback, handleVars, callVars,
         netVars, TypeOK, WorkerInv, Locked, Connected
<1>17. CASE ProcessHello
  BY <1>17
     DEF ProcessHello, Processing, handleVars, callVars, netVars, TypeOK,
         WorkerInv, Locked, Connected
<1>18. CASE ProcessHelloSession
  BY <1>18
     DEF ProcessHelloSession, EnterCallback, LeaveWork, callVars, netVars,
         TypeOK, WorkerInv, Locked, Connected
<1>19. CASE ProcessBye
  BY <1>19
     DEF ProcessBye, Processing, ResetConnection, Close, EndSession,
         EnterCallback, LeaveWork, Connected, callVars, netVars, TypeOK,
         WorkerInv, Locked
<1>20. CASE ProcessResponse
  BY <1>20
     DEF ProcessResponse, Processing, Cached, Answers, Confirm,
         EnterCallback, netVars, TypeOK, WorkerInv, Locked, Connected
<1>21. CASE ProcessResponseUnknown
  BY <1>21
     DEF ProcessResponseUnknown, Processing, Cached, Answers, handleVars,
         netVars, TypeOK, WorkerInv, Locked, Connected
<1>22. CASE CleanupStart
  BY <1>22
     DEF CleanupStart, handleVars, callVars, netVars, TypeOK, WorkerInv,
         Locked, Connected
<1>23. CASE CleanupClose
  BY <1>23 DEF CleanupClose, callVars, TypeOK, WorkerInv, Locked, Connected
<1>24. ASSUME NEW c \in Conns, PeerStep(c) PROVE WorkerInv'
  BY <1>24
     DEF PeerStep, PeerConnect, handleVars, workerVars, callVars, PeerClose,
         PeerSend, PeerMessages, TypeOK, WorkerInv, Locked, Connected
<1>25. CASE Tick
  BY <1>25
     DEF Tick, Ageing, workerVars, netVars, TypeOK, WorkerInv, Locked,
         Connected
<1>26. CASE UNCHANGED vars
  BY <1>26
     DEF TypeOK, WorkerInv, Locked, Connected, vars, handleVars, workerVars,
         callVars, netVars
<1>27. QED
  BY <1>1, <1>2, <1>3, <1>4, <1>5, <1>6, <1>7, <1>8, <1>9, <1>10, <1>11,
     <1>12, <1>13, <1>14, <1>15, <1>16, <1>17, <1>18, <1>19, <1>20, <1>21,
     <1>22, <1>23, <1>24, <1>25, <1>26
     DEF Next, WorkerStep, Terminated

(* Only the walk of dsvdc_cleanup_request_list has requests to drop.  *)
LEMMA NextListInv ==
  ASSUME TypeOK, WorkerInv, ListInv, [Next]_vars
  PROVE  ListInv'
<1> USE BoundsAssumption, NamesAssumption
<1>1. ASSUME NEW n \in AppCalls, AppStep(n) PROVE ListInv'
  BY <1>1
     DEF AppStep, AnnounceNumber, Number, workerVars, netVars, AnnounceSend,
         Connected, handleVars, AnnounceSendFails, AnnounceStamp,
         AnnounceNoMemory, AnnouncePrepend, Cache, TypeOK, WorkerInv,
         ListInv, Cleaning, Locked, Calls
<1>2. ASSUME NEW n \in CbCalls, CallbackStep(n) PROVE ListInv'
  BY <1>2
     DEF CallbackStep, CallbackAnnounce, CallbackCall, Number, Cache,
         Connected, workerVars, netVars, CallbackAnnounceNoMemory,
         CallbackAnnounceNotSent, TypeOK, WorkerInv, ListInv, Cleaning,
         Locked, Calls
<1>3. CASE CallbackReturn
  BY <1>3
     DEF CallbackReturn, LeaveWork, handleVars, callVars, netVars, TypeOK,
         WorkerInv, ListInv, Cleaning, Locked, Connected, Calls
<1>4. CASE WorkEnter
  BY <1>4
     DEF WorkEnter, CleanupDue, Obsolete, Connected, handleVars, callVars,
         netVars, TypeOK, WorkerInv, ListInv, Cleaning, Locked, Calls
<1>5. ASSUME NEW n \in Calls, Expire(n) PROVE ListInv'
  BY <1>5
     DEF Expire, Confirm, EnterCallback, LocalCode, Connected, netVars,
         TypeOK, WorkerInv, ListInv, Cleaning, Locked, Calls
<1>6. CASE ExpireDone
  BY <1>6
     DEF ExpireDone, callVars, netVars, TypeOK, WorkerInv, ListInv,
         Cleaning, Locked, Connected, Calls
<1>7. CASE WorkIdle
  BY <1>7
     DEF WorkIdle, LeaveWork, handleVars, callVars, netVars, TypeOK,
         WorkerInv, ListInv, Cleaning, Locked, Connected, Calls
<1>8. CASE WorkReady
  BY <1>8
     DEF WorkReady, ReadyFds, handleVars, callVars, netVars, TypeOK,
         WorkerInv, ListInv, Cleaning, Locked, Connected, Calls
<1>9. ASSUME NEW c \in Conns, WorkAccept(c) PROVE ListInv'
  BY <1>9
     DEF WorkAccept, Connected, callVars, TypeOK, WorkerInv, ListInv,
         Cleaning, Locked, Calls
<1>10. ASSUME NEW c \in Conns, WorkReject(c) PROVE ListInv'
  BY <1>10
     DEF WorkReject, Close, Connected, handleVars, callVars, TypeOK,
         WorkerInv, ListInv, Cleaning, Locked, Calls
<1>11. CASE WorkAcceptNone
  BY <1>11
     DEF WorkAcceptNone, handleVars, callVars, netVars, TypeOK, WorkerInv,
         ListInv, Cleaning, Locked, Connected, Calls
<1>12. CASE WorkReadNone
  BY <1>12
     DEF WorkReadNone, LeaveWork, handleVars, callVars, netVars, TypeOK,
         WorkerInv, ListInv, Cleaning, Locked, Connected, Calls
<1>13. CASE WorkRead
  BY <1>13
     DEF WorkRead, handleVars, callVars, TypeOK, WorkerInv, ListInv,
         Cleaning, Locked, Connected, Calls
<1>14. CASE WorkReadFails
  BY <1>14
     DEF WorkReadFails, ResetConnection, Close, EndSession, EnterCallback,
         LeaveWork, callVars, TypeOK, WorkerInv, ListInv, Cleaning, Locked,
         Connected, Calls
<1>15. CASE ProcessIgnored
  BY <1>15
     DEF ProcessIgnored, Processing, handleVars, callVars, netVars, TypeOK,
         WorkerInv, ListInv, Cleaning, Locked, Connected, Calls
<1>16. CASE ProcessNotify
  BY <1>16
     DEF ProcessNotify, Processing, EnterCallback, handleVars, callVars,
         netVars, TypeOK, WorkerInv, ListInv, Cleaning, Locked, Connected,
         Calls
<1>17. CASE ProcessHello
  BY <1>17
     DEF ProcessHello, Processing, handleVars, callVars, netVars, TypeOK,
         WorkerInv, ListInv, Cleaning, Locked, Connected, Calls
<1>18. CASE ProcessHelloSession
  BY <1>18
     DEF ProcessHelloSession, EnterCallback, LeaveWork, callVars, netVars,
         TypeOK, WorkerInv, ListInv, Cleaning, Locked, Connected, Calls
<1>19. CASE ProcessBye
  BY <1>19
     DEF ProcessBye, Processing, ResetConnection, Close, EndSession,
         EnterCallback, LeaveWork, Connected, callVars, netVars, TypeOK,
         WorkerInv, ListInv, Cleaning, Locked, Calls
<1>20. CASE ProcessResponse
  BY <1>20
     DEF ProcessResponse, Processing, Cached, Answers, Confirm,
         EnterCallback, netVars, TypeOK, WorkerInv, ListInv, Cleaning,
         Locked, Connected, Calls
<1>21. CASE ProcessResponseUnknown
  BY <1>21
     DEF ProcessResponseUnknown, Processing, Cached, Answers, handleVars,
         netVars, TypeOK, WorkerInv, ListInv, Cleaning, Locked, Connected,
         Calls
<1>22. CASE CleanupStart
  BY <1>22
     DEF CleanupStart, handleVars, callVars, netVars, TypeOK, WorkerInv,
         ListInv, Cleaning, Locked, Connected, Calls
<1>23. CASE CleanupClose
  BY <1>23
     DEF CleanupClose, callVars, TypeOK, WorkerInv, ListInv, Cleaning,
         Locked, Connected, Calls
<1>24. ASSUME NEW c \in Conns, PeerStep(c) PROVE ListInv'
  BY <1>24
     DEF PeerStep, PeerConnect, handleVars, workerVars, callVars, PeerClose,
         PeerSend, PeerMessages, TypeOK, WorkerInv, ListInv, Cleaning,
         Locked, Connected, Calls
<1>25. CASE Tick
  BY <1>25
     DEF Tick, Ageing, workerVars, netVars, TypeOK, WorkerInv, ListInv,
         Cleaning, Locked, Connected, Calls
<1>26. CASE UNCHANGED vars
  BY <1>26
     DEF TypeOK, WorkerInv, ListInv, Cleaning, Locked, Connected, Calls,
         vars, handleVars, workerVars, callVars, netVars
<1>27. QED
  BY <1>1, <1>2, <1>3, <1>4, <1>5, <1>6, <1>7, <1>8, <1>9, <1>10, <1>11,
     <1>12, <1>13, <1>14, <1>15, <1>16, <1>17, <1>18, <1>19, <1>20, <1>21,
     <1>22, <1>23, <1>24, <1>25, <1>26
     DEF Next, WorkerStep, Terminated

(* Ages only grow while the walk is under way. *)
LEMMA NextTodoInv ==
  ASSUME TypeOK, WorkerInv, ListInv, TodoInv, [Next]_vars
  PROVE  TodoInv'
<1> USE BoundsAssumption, NamesAssumption
<1>1. ASSUME NEW n \in AppCalls, AppStep(n) PROVE TodoInv'
  BY <1>1
     DEF AppStep, AnnounceNumber, Number, workerVars, netVars, AnnounceSend,
         Connected, handleVars, AnnounceSendFails, AnnounceStamp,
         AnnounceNoMemory, AnnouncePrepend, Cache, TypeOK, WorkerInv,
         ListInv, TodoInv, Cleaning, Locked, Calls
<1>2. ASSUME NEW n \in CbCalls, CallbackStep(n) PROVE TodoInv'
  BY <1>2
     DEF CallbackStep, CallbackAnnounce, CallbackCall, Number, Cache,
         Connected, workerVars, netVars, CallbackAnnounceNoMemory,
         CallbackAnnounceNotSent, TypeOK, WorkerInv, ListInv, TodoInv,
         Cleaning, Locked, Calls
<1>3. CASE CallbackReturn
  BY <1>3
     DEF CallbackReturn, LeaveWork, handleVars, callVars, netVars, TypeOK,
         WorkerInv, ListInv, TodoInv, Cleaning, Locked, Connected, Calls
<1>4. CASE WorkEnter
  BY <1>4
     DEF WorkEnter, CleanupDue, Obsolete, Connected, handleVars, callVars,
         netVars, TypeOK, WorkerInv, ListInv, TodoInv, Cleaning, Locked,
         Calls
<1>5. ASSUME NEW n \in Calls, Expire(n) PROVE TodoInv'
  BY <1>5
     DEF Expire, Confirm, EnterCallback, LocalCode, Connected, netVars,
         TypeOK, WorkerInv, ListInv, TodoInv, Cleaning, Locked, Calls
<1>6. CASE ExpireDone
  BY <1>6
     DEF ExpireDone, callVars, netVars, TypeOK, WorkerInv, ListInv, TodoInv,
         Cleaning, Locked, Connected, Calls
<1>7. CASE WorkIdle
  BY <1>7
     DEF WorkIdle, LeaveWork, handleVars, callVars, netVars, TypeOK,
         WorkerInv, ListInv, TodoInv, Cleaning, Locked, Connected, Calls
<1>8. CASE WorkReady
  BY <1>8
     DEF WorkReady, ReadyFds, handleVars, callVars, netVars, TypeOK,
         WorkerInv, ListInv, TodoInv, Cleaning, Locked, Connected, Calls
<1>9. ASSUME NEW c \in Conns, WorkAccept(c) PROVE TodoInv'
  BY <1>9
     DEF WorkAccept, Connected, callVars, TypeOK, WorkerInv, ListInv,
         TodoInv, Cleaning, Locked, Calls
<1>10. ASSUME NEW c \in Conns, WorkReject(c) PROVE TodoInv'
  BY <1>10
     DEF WorkReject, Close, Connected, handleVars, callVars, TypeOK,
         WorkerInv, ListInv, TodoInv, Cleaning, Locked, Calls
<1>11. CASE WorkAcceptNone
  BY <1>11
     DEF WorkAcceptNone, handleVars, callVars, netVars, TypeOK, WorkerInv,
         ListInv, TodoInv, Cleaning, Locked, Connected, Calls
<1>12. CASE WorkReadNone
  BY <1>12
     DEF WorkReadNone, LeaveWork, handleVars, callVars, netVars, TypeOK,
         WorkerInv, ListInv, TodoInv, Cleaning, Locked, Connected, Calls
<1>13. CASE WorkRead
  BY <1>13
     DEF WorkRead, handleVars, callVars, TypeOK, WorkerInv, ListInv,
         TodoInv, Cleaning, Locked, Connected, Calls
<1>14. CASE WorkReadFails
  BY <1>14
     DEF WorkReadFails, ResetConnection, Close, EndSession, EnterCallback,
         LeaveWork, callVars, TypeOK, WorkerInv, ListInv, TodoInv, Cleaning,
         Locked, Connected, Calls
<1>15. CASE ProcessIgnored
  BY <1>15
     DEF ProcessIgnored, Processing, handleVars, callVars, netVars, TypeOK,
         WorkerInv, ListInv, TodoInv, Cleaning, Locked, Connected, Calls
<1>16. CASE ProcessNotify
  BY <1>16
     DEF ProcessNotify, Processing, EnterCallback, handleVars, callVars,
         netVars, TypeOK, WorkerInv, ListInv, TodoInv, Cleaning, Locked,
         Connected, Calls
<1>17. CASE ProcessHello
  BY <1>17
     DEF ProcessHello, Processing, handleVars, callVars, netVars, TypeOK,
         WorkerInv, ListInv, TodoInv, Cleaning, Locked, Connected, Calls
<1>18. CASE ProcessHelloSession
  BY <1>18
     DEF ProcessHelloSession, EnterCallback, LeaveWork, callVars, netVars,
         TypeOK, WorkerInv, ListInv, TodoInv, Cleaning, Locked, Connected,
         Calls
<1>19. CASE ProcessBye
  BY <1>19
     DEF ProcessBye, Processing, ResetConnection, Close, EndSession,
         EnterCallback, LeaveWork, Connected, callVars, netVars, TypeOK,
         WorkerInv, ListInv, TodoInv, Cleaning, Locked, Calls
<1>20. CASE ProcessResponse
  BY <1>20
     DEF ProcessResponse, Processing, Cached, Answers, Confirm,
         EnterCallback, netVars, TypeOK, WorkerInv, ListInv, TodoInv,
         Cleaning, Locked, Connected, Calls
<1>21. CASE ProcessResponseUnknown
  BY <1>21
     DEF ProcessResponseUnknown, Processing, Cached, Answers, handleVars,
         netVars, TypeOK, WorkerInv, ListInv, TodoInv, Cleaning, Locked,
         Connected, Calls
<1>22. CASE CleanupStart
  BY <1>22
     DEF CleanupStart, handleVars, callVars, netVars, TypeOK, WorkerInv,
         ListInv, TodoInv, Cleaning, Locked, Connected, Calls
<1>23. CASE CleanupClose
  BY <1>23
     DEF CleanupClose, callVars, TypeOK, WorkerInv, ListInv, TodoInv,
         Cleaning, Locked, Connected, Calls
<1>24. ASSUME NEW c \in Conns, PeerStep(c) PROVE TodoInv'
  BY <1>24
     DEF PeerStep, PeerConnect, handleVars, workerVars, callVars, PeerClose,
         PeerSend, PeerMessages, TypeOK, WorkerInv, ListInv, TodoInv,
         Cleaning, Locked, Connected, Calls
<1>25. CASE Tick
  BY <1>25
     DEF Tick, Ageing, workerVars, netVars, TypeOK, WorkerInv, ListInv,
         TodoInv, Cleaning, Locked, Connected, Calls
<1>26. CASE UNCHANGED vars
  BY <1>26
     DEF TypeOK, WorkerInv, ListInv, TodoInv, Cleaning, Locked, Connected,
         Calls, vars, handleVars, workerVars, callVars, netVars
<1>27. QED
  BY <1>1, <1>2, <1>3, <1>4, <1>5, <1>6, <1>7, <1>8, <1>9, <1>10, <1>11,
     <1>12, <1>13, <1>14, <1>15, <1>16, <1>17, <1>18, <1>19, <1>20, <1>21,
     <1>22, <1>23, <1>24, <1>25, <1>26
     DEF Next, WorkerStep, Terminated

(* A connection is accepted only after the walk that emptied the list. *)
LEMMA NextRequestsOfThisConnection ==
  ASSUME TypeOK, WorkerInv, ListInv, RequestsOfThisConnection, [Next]_vars
  PROVE  RequestsOfThisConnection'
<1> USE BoundsAssumption, NamesAssumption
<1>1. ASSUME NEW n \in AppCalls, AppStep(n) PROVE RequestsOfThisConnection'
  BY <1>1
     DEF AppStep, AnnounceNumber, Number, workerVars, netVars, AnnounceSend,
         Connected, handleVars, AnnounceSendFails, AnnounceStamp,
         AnnounceNoMemory, AnnouncePrepend, Cache, TypeOK, WorkerInv,
         ListInv, RequestsOfThisConnection, Cleaning, Calls
<1>2. ASSUME NEW n \in CbCalls, CallbackStep(n) PROVE RequestsOfThisConnection'
  BY <1>2
     DEF CallbackStep, CallbackAnnounce, CallbackCall, Number, Cache,
         Connected, workerVars, netVars, CallbackAnnounceNoMemory,
         CallbackAnnounceNotSent, TypeOK, WorkerInv, ListInv,
         RequestsOfThisConnection, Cleaning, Calls
<1>3. CASE CallbackReturn
  BY <1>3
     DEF CallbackReturn, LeaveWork, handleVars, callVars, netVars, TypeOK,
         WorkerInv, ListInv, RequestsOfThisConnection, Cleaning, Connected,
         Calls
<1>4. CASE WorkEnter
  BY <1>4
     DEF WorkEnter, CleanupDue, Obsolete, Connected, handleVars, callVars,
         netVars, TypeOK, WorkerInv, ListInv, RequestsOfThisConnection,
         Cleaning, Calls
<1>5. ASSUME NEW n \in Calls, Expire(n) PROVE RequestsOfThisConnection'
  BY <1>5
     DEF Expire, Confirm, EnterCallback, LocalCode, Connected, netVars,
         TypeOK, WorkerInv, ListInv, RequestsOfThisConnection, Cleaning,
         Calls
<1>6. CASE ExpireDone
  BY <1>6
     DEF ExpireDone, callVars, netVars, TypeOK, WorkerInv, ListInv,
         RequestsOfThisConnection, Cleaning, Connected, Calls
<1>7. CASE WorkIdle
  BY <1>7
     DEF WorkIdle, LeaveWork, handleVars, callVars, netVars, TypeOK,
         WorkerInv, ListInv, RequestsOfThisConnection, Cleaning, Connected,
         Calls
<1>8. CASE WorkReady
  BY <1>8
     DEF WorkReady, ReadyFds, handleVars, callVars, netVars, TypeOK,
         WorkerInv, ListInv, RequestsOfThisConnection, Cleaning, Connected,
         Calls
<1>9. ASSUME NEW c \in Conns, WorkAccept(c) PROVE RequestsOfThisConnection'
  BY <1>9
     DEF WorkAccept, Connected, callVars, TypeOK, WorkerInv, ListInv,
         RequestsOfThisConnection, Cleaning, Calls
<1>10. ASSUME NEW c \in Conns, WorkReject(c) PROVE RequestsOfThisConnection'
  BY <1>10
     DEF WorkReject, Close, Connected, handleVars, callVars, TypeOK,
         WorkerInv, ListInv, RequestsOfThisConnection, Cleaning, Calls
<1>11. CASE WorkAcceptNone
  BY <1>11
     DEF WorkAcceptNone, handleVars, callVars, netVars, TypeOK, WorkerInv,
         ListInv, RequestsOfThisConnection, Cleaning, Connected, Calls
<1>12. CASE WorkReadNone
  BY <1>12
     DEF WorkReadNone, LeaveWork, handleVars, callVars, netVars, TypeOK,
         WorkerInv, ListInv, RequestsOfThisConnection, Cleaning, Connected,
         Calls
<1>13. CASE WorkRead
  BY <1>13
     DEF WorkRead, handleVars, callVars, TypeOK, WorkerInv, ListInv,
         RequestsOfThisConnection, Cleaning, Connected, Calls
<1>14. CASE WorkReadFails
  BY <1>14
     DEF WorkReadFails, ResetConnection, Close, EndSession, EnterCallback,
         LeaveWork, callVars, TypeOK, WorkerInv, ListInv,
         RequestsOfThisConnection, Cleaning, Connected, Calls
<1>15. CASE ProcessIgnored
  BY <1>15
     DEF ProcessIgnored, Processing, handleVars, callVars, netVars, TypeOK,
         WorkerInv, ListInv, RequestsOfThisConnection, Cleaning, Connected,
         Calls
<1>16. CASE ProcessNotify
  BY <1>16
     DEF ProcessNotify, Processing, EnterCallback, handleVars, callVars,
         netVars, TypeOK, WorkerInv, ListInv, RequestsOfThisConnection,
         Cleaning, Connected, Calls
<1>17. CASE ProcessHello
  BY <1>17
     DEF ProcessHello, Processing, handleVars, callVars, netVars, TypeOK,
         WorkerInv, ListInv, RequestsOfThisConnection, Cleaning, Connected,
         Calls
<1>18. CASE ProcessHelloSession
  BY <1>18
     DEF ProcessHelloSession, EnterCallback, LeaveWork, callVars, netVars,
         TypeOK, WorkerInv, ListInv, RequestsOfThisConnection, Cleaning,
         Connected, Calls
<1>19. CASE ProcessBye
  BY <1>19
     DEF ProcessBye, Processing, ResetConnection, Close, EndSession,
         EnterCallback, LeaveWork, Connected, callVars, netVars, TypeOK,
         WorkerInv, ListInv, RequestsOfThisConnection, Cleaning, Calls
<1>20. CASE ProcessResponse
  BY <1>20
     DEF ProcessResponse, Processing, Cached, Answers, Confirm,
         EnterCallback, netVars, TypeOK, WorkerInv, ListInv,
         RequestsOfThisConnection, Cleaning, Connected, Calls
<1>21. CASE ProcessResponseUnknown
  BY <1>21
     DEF ProcessResponseUnknown, Processing, Cached, Answers, handleVars,
         netVars, TypeOK, WorkerInv, ListInv, RequestsOfThisConnection,
         Cleaning, Connected, Calls
<1>22. CASE CleanupStart
  BY <1>22
     DEF CleanupStart, handleVars, callVars, netVars, TypeOK, WorkerInv,
         ListInv, RequestsOfThisConnection, Cleaning, Connected, Calls
<1>23. CASE CleanupClose
  BY <1>23
     DEF CleanupClose, callVars, TypeOK, WorkerInv, ListInv,
         RequestsOfThisConnection, Cleaning, Connected, Calls
<1>24. ASSUME NEW c \in Conns, PeerStep(c) PROVE RequestsOfThisConnection'
  BY <1>24
     DEF PeerStep, PeerConnect, handleVars, workerVars, callVars, PeerClose,
         PeerSend, PeerMessages, TypeOK, WorkerInv, ListInv,
         RequestsOfThisConnection, Cleaning, Connected, Calls
<1>25. CASE Tick
  BY <1>25
     DEF Tick, Ageing, workerVars, netVars, TypeOK, WorkerInv, ListInv,
         RequestsOfThisConnection, Cleaning, Connected, Calls
<1>26. CASE UNCHANGED vars
  BY <1>26
     DEF TypeOK, WorkerInv, ListInv, RequestsOfThisConnection, Cleaning,
         Connected, Calls, vars, handleVars, workerVars, callVars, netVars
<1>27. QED
  BY <1>1, <1>2, <1>3, <1>4, <1>5, <1>6, <1>7, <1>8, <1>9, <1>10, <1>11,
     <1>12, <1>13, <1>14, <1>15, <1>16, <1>17, <1>18, <1>19, <1>20, <1>21,
     <1>22, <1>23, <1>24, <1>25, <1>26
     DEF Next, WorkerStep, Terminated

(* Announcements, answers and clean-up are all that moves a call.          *)
LEMMA CallFrame ==
  ASSUME [Next]_vars
  PROVE  \/ UNCHANGED <<requests_list, request_id, stage, reqId, fired, code,
                        sentOn, answered>>
         \/ \E n \in AppCalls : AppStep(n)
         \/ \E n \in CbCalls : CallbackStep(n)
         \/ \E n \in Calls : Expire(n)
         \/ ProcessResponse \/ ProcessResponseUnknown
  BY
     DEF Next, WorkerStep, Terminated, CallbackReturn, LeaveWork,
         handleVars, callVars, netVars, WorkEnter, CleanupDue, Obsolete,
         Connected, ExpireDone, WorkIdle, WorkReady, ReadyFds, WorkAccept,
         WorkReject, Close, WorkAcceptNone, WorkReadNone, WorkRead,
         WorkReadFails, ResetConnection, EndSession, EnterCallback,
         ProcessIgnored, Processing, ProcessNotify, ProcessHello,
         ProcessHelloSession, ProcessBye, CleanupStart, CleanupClose,
         PeerConnect, workerVars, PeerClose, PeerSend, PeerMessages,
         PeerStep, Tick, Ageing, vars

(* Only these steps touch the connection, the session or the handle's life. *)
LEMMA ConnectionFrame ==
  ASSUME [Next]_vars, WorkerInv
  PROVE  \/ /\ UNCHANGED <<connected_fd, session, helloOn, net>>
            /\ pc = "destroyed" <=> pc' = "destroyed"
         \/ \E c \in Conns : WorkAccept(c) \/ WorkReject(c) \/ PeerConnect(c)
         \/ WorkReadFails \/ ProcessHelloSession \/ ProcessBye \/ CleanupClose
  BY
     DEF Next, WorkerStep, Terminated, PeerStep, PeerClose, PeerSend,
         AnnounceNumber, Number, workerVars, netVars, AnnounceSend,
         Connected, handleVars, AnnounceSendFails, AnnounceStamp,
         AnnounceNoMemory, AnnouncePrepend, Cache, AppStep,
         CallbackAnnounce, CallbackCall, CallbackAnnounceNoMemory,
         CallbackAnnounceNotSent, CallbackStep, CallbackReturn, LeaveWork,
         callVars, WorkEnter, CleanupDue, Obsolete, Expire, Confirm,
         EnterCallback, LocalCode, ExpireDone, WorkIdle, WorkReady,
         ReadyFds, WorkAcceptNone, WorkReadNone, WorkRead, ProcessIgnored,
         Processing, ProcessNotify, ProcessHello, ProcessResponse, Cached,
         Answers, ProcessResponseUnknown, CleanupStart, Tick, Ageing, vars
(* Numbering an idle call gives it an id no other call has.                *)
LEMMA FreshId ==
  ASSUME TypeOK, IdInv, NEW n \in Calls, Number(n), stage[n] = "idle",
         \A m \in Calls \ {n} : stage'[m] = stage[m]
  PROVE  IdInv'
<1> USE DEF TypeOK, Ids, Number
<1>1. request_id \in Nat /\ request_id' = request_id + 1
  BY BoundsAssumption
<1>2. reqId'[n] = request_id'
  BY <1>1
<1>3. ASSUME NEW m \in Calls \ {n}, stage'[m] # "idle"
      PROVE  reqId'[m] = reqId[m] /\ reqId[m] \in 1 .. request_id
  BY <1>3 DEF IdInv
<1>4. ASSUME NEW m \in Calls, stage'[m] # "idle"
      PROVE  reqId'[m] \in 1 .. request_id'
  BY <1>1, <1>2, <1>3, <1>4
<1>5. ASSUME NEW m \in Calls, stage'[m] # "idle",
             NEW k \in Calls, stage'[k] # "idle", reqId'[k] = reqId'[m]
      PROVE  k = m
  <2>1. CASE k # n /\ m # n
    BY <1>3, <1>5, <2>1 DEF IdInv
  <2>2. CASE k = n \/ m = n
    BY <1>1, <1>2, <1>3, <1>5, <2>2
  <2>3. QED
    BY <2>1, <2>2
<1>6. QED
  BY <1>4, <1>5 DEF IdInv

(* A step that numbers no call keeps the ids.                              *)
LEMMA SameIds ==
  ASSUME IdInv, UNCHANGED <<reqId, request_id>>,
         \A m \in Calls : stage'[m] = "idle" <=> stage[m] = "idle"
  PROVE  IdInv'
  BY DEF IdInv

(* request_id only grows and each call takes its next value. *)
LEMMA NextIdInv ==
  ASSUME TypeOK, ListInv, IdInv, [Next]_vars
  PROVE  IdInv'
<1> USE BoundsAssumption, NamesAssumption
<1>1. CASE UNCHANGED <<requests_list, request_id, stage, reqId, fired, code,
                       sentOn, answered>>
  BY <1>1 DEF TypeOK, ListInv, IdInv, Calls, Ids
<1>2. ASSUME NEW n \in AppCalls, AppStep(n) PROVE IdInv'
  <2>1. n \in Calls
    BY DEF Calls
  <2>2. CASE AnnounceNumber(n)
    BY <2>1, <2>2, FreshId DEF AnnounceNumber, TypeOK
  <2>3. CASE AnnounceSend(n)
    BY <2>1, <2>3, SameIds DEF AnnounceSend, handleVars, TypeOK
  <2>4. CASE AnnounceSendFails(n)
    BY <2>1, <2>4, SameIds DEF AnnounceSendFails, handleVars, TypeOK
  <2>5. CASE AnnounceStamp(n)
    BY <2>1, <2>5, SameIds DEF AnnounceStamp, handleVars, TypeOK
  <2>6. CASE AnnounceNoMemory(n)
    BY <2>1, <2>6, SameIds DEF AnnounceNoMemory, handleVars, TypeOK
  <2>7. CASE AnnouncePrepend(n)
    BY <2>1, <2>7, SameIds DEF AnnouncePrepend, Cache, TypeOK
  <2>8. QED
    BY <1>2, <2>2, <2>3, <2>4, <2>5, <2>6, <2>7 DEF AppStep
<1>3. ASSUME NEW n \in CbCalls, CallbackStep(n) PROVE IdInv'
  <2>1. n \in Calls
    BY DEF Calls
  <2>2. CASE CallbackAnnounce(n)
    BY <2>1, <2>2, FreshId DEF CallbackAnnounce, CallbackCall, Cache, TypeOK
  <2>3. CASE CallbackAnnounceNoMemory(n)
    BY <2>1, <2>3, FreshId DEF CallbackAnnounceNoMemory, CallbackCall, TypeOK
  <2>4. CASE CallbackAnnounceNotSent(n)
    BY <2>1, <2>4, FreshId DEF CallbackAnnounceNotSent, CallbackCall, TypeOK
  <2>5. QED
    BY <1>3, <2>2, <2>3, <2>4 DEF CallbackStep
<1>4. ASSUME NEW n \in Calls, Expire(n) PROVE IdInv'
  BY <1>4
     DEF Expire, Confirm, EnterCallback, LocalCode, Connected, netVars,
         TypeOK, ListInv, IdInv, Calls, Ids
<1>5. CASE ProcessResponse
  BY <1>5
     DEF ProcessResponse, Processing, Cached, Answers, Confirm,
         EnterCallback, netVars, TypeOK, ListInv, IdInv, Calls, Ids
<1>6. CASE ProcessResponseUnknown
  BY <1>6
     DEF ProcessResponseUnknown, Processing, Cached, Answers, handleVars,
         netVars, TypeOK, ListInv, IdInv, Calls, Ids
<1>7. QED
  BY <1>1, <1>2, <1>3, <1>4, <1>5, <1>6, CallFrame

(* A request leaves the list only together with its callback. *)
LEMMA NextExactlyOneCallback ==
  ASSUME TypeOK, ListInv, ExactlyOneCallback, [Next]_vars
  PROVE  ExactlyOneCallback'
<1> USE BoundsAssumption, NamesAssumption
<1>1. CASE UNCHANGED <<requests_list, request_id, stage, reqId, fired, code,
                       sentOn, answered>>
  BY <1>1 DEF TypeOK, ListInv, ExactlyOneCallback, Calls
<1>2. ASSUME NEW n \in AppCalls, AppStep(n) PROVE ExactlyOneCallback'
  BY <1>2
     DEF AppStep, AnnounceNumber, Number, workerVars, netVars, AnnounceSend,
         Connected, handleVars, AnnounceSendFails, AnnounceStamp,
         AnnounceNoMemory, AnnouncePrepend, Cache, TypeOK, ListInv,
         ExactlyOneCallback, Calls
<1>3. ASSUME NEW n \in CbCalls, CallbackStep(n) PROVE ExactlyOneCallback'
  BY <1>3
     DEF CallbackStep, CallbackAnnounce, CallbackCall, Number, Cache,
         Connected, workerVars, netVars, CallbackAnnounceNoMemory,
         CallbackAnnounceNotSent, TypeOK, ListInv, ExactlyOneCallback, Calls
<1>4. ASSUME NEW n \in Calls, Expire(n) PROVE ExactlyOneCallback'
  BY <1>4
     DEF Expire, Confirm, EnterCallback, LocalCode, Connected, netVars,
         TypeOK, ListInv, ExactlyOneCallback, Calls
<1>5. CASE ProcessResponse
  BY <1>5
     DEF ProcessResponse, Processing, Cached, Answers, Confirm,
         EnterCallback, netVars, TypeOK, ListInv, ExactlyOneCallback, Calls
<1>6. CASE ProcessResponseUnknown
  BY <1>6
     DEF ProcessResponseUnknown, Processing, Cached, Answers, handleVars,
         netVars, TypeOK, ListInv, ExactlyOneCallback, Calls
<1>7. QED
  BY <1>1, <1>2, <1>3, <1>4, <1>5, <1>6, CallFrame

(* An answered request of a callback is off the list in the same step.   *)
LEMMA NextCallInv ==
  ASSUME TypeOK, ListInv, ExactlyOneCallback, CallInv, IdInv, [Next]_vars
  PROVE  CallInv'
<1> USE BoundsAssumption, NamesAssumption
<1>1. CASE UNCHANGED <<requests_list, request_id, stage, reqId, fired, code,
                       sentOn, answered>>
  BY <1>1 DEF TypeOK, ListInv, ExactlyOneCallback, CallInv, IdInv, Calls
<1>2. ASSUME NEW n \in AppCalls, AppStep(n) PROVE CallInv'
  BY <1>2
     DEF AppStep, AnnounceNumber, Number, workerVars, netVars, AnnounceSend,
         Connected, handleVars, AnnounceSendFails, AnnounceStamp,
         AnnounceNoMemory, AnnouncePrepend, Cache, TypeOK, ListInv,
         ExactlyOneCallback, CallInv, IdInv, Calls
<1>3. ASSUME NEW n \in CbCalls, CallbackStep(n) PROVE CallInv'
  BY <1>3
     DEF CallbackStep, CallbackAnnounce, CallbackCall, Number, Cache,
         Connected, workerVars, netVars, CallbackAnnounceNoMemory,
         CallbackAnnounceNotSent, TypeOK, ListInv, ExactlyOneCallback,
         CallInv, IdInv, Calls
<1>4. ASSUME NEW n \in Calls, Expire(n) PROVE CallInv'
  BY <1>4
     DEF Expire, Confirm, EnterCallback, LocalCode, Connected, netVars,
         TypeOK, ListInv, ExactlyOneCallback, CallInv, IdInv, Calls
<1>5. CASE ProcessResponse
  BY <1>5
     DEF ProcessResponse, Processing, Cached, Answers, Confirm,
         EnterCallback, netVars, TypeOK, ListInv, ExactlyOneCallback,
         CallInv, IdInv, Calls
<1>6. CASE ProcessResponseUnknown
  <2>1. UNCHANGED <<requests_list, stage, fired, code, sentOn>>
    BY <1>6 DEF ProcessResponseUnknown, handleVars
  <2>2. answered' = answered \cup Answers(inhand.id)
    BY <1>6 DEF ProcessResponseUnknown
  <2>3. ASSUME NEW n \in requests_list \cap CbCalls PROVE n \notin Answers(inhand.id)
    <3>1. n \in Calls /\ stage[n] # "idle" /\ reqId[n] # RESERVED_REQUEST_ID
      BY DEF TypeOK, ListInv, IdInv, Ids, Calls, RESERVED_REQUEST_ID
    <3>2. CASE inhand.id = RESERVED_REQUEST_ID
      BY <3>1, <3>2 DEF Answers
    <3>3. CASE Cached(inhand.id) = {}
      BY <3>3 DEF Answers, Cached
    <3>4. QED
      BY <1>6, <3>2, <3>3 DEF ProcessResponseUnknown
  <2>4. \A n \in Answers(inhand.id) : sentOn[n] # NoConn
    BY DEF Answers
  <2>5. QED
    BY <2>1, <2>2, <2>3, <2>4 DEF CallInv
<1>7. QED
  BY <1>1, <1>2, <1>3, <1>4, <1>5, <1>6, CallFrame

(* The vdSM's code is handed out for a cached, hence sent, request only.  *)
LEMMA NextAnswerBelongsToCall ==
  ASSUME TypeOK, ListInv, ExactlyOneCallback, CallInv, AnswerBelongsToCall, [Next]_vars
  PROVE  AnswerBelongsToCall'
<1> USE BoundsAssumption, NamesAssumption
<1>1. CASE UNCHANGED <<requests_list, request_id, stage, reqId, fired, code,
                       sentOn, answered>>
  BY <1>1
     DEF TypeOK, ListInv, ExactlyOneCallback, CallInv, AnswerBelongsToCall,
         Calls
<1>2. ASSUME NEW n \in AppCalls, AppStep(n) PROVE AnswerBelongsToCall'
  BY <1>2
     DEF AppStep, AnnounceNumber, Number, workerVars, netVars, AnnounceSend,
         Connected, handleVars, AnnounceSendFails, AnnounceStamp,
         AnnounceNoMemory, AnnouncePrepend, Cache, TypeOK, ListInv,
         ExactlyOneCallback, CallInv, AnswerBelongsToCall, Calls
<1>3. ASSUME NEW n \in CbCalls, CallbackStep(n) PROVE AnswerBelongsToCall'
  BY <1>3
     DEF CallbackStep, CallbackAnnounce, CallbackCall, Number, Cache,
         Connected, workerVars, netVars, CallbackAnnounceNoMemory,
         CallbackAnnounceNotSent, TypeOK, ListInv, ExactlyOneCallback,
         CallInv, AnswerBelongsToCall, Calls
<1>4. ASSUME NEW n \in Calls, Expire(n) PROVE AnswerBelongsToCall'
  BY <1>4
     DEF Expire, Confirm, EnterCallback, LocalCode, Connected, netVars,
         TypeOK, ListInv, ExactlyOneCallback, CallInv, AnswerBelongsToCall,
         Calls
<1>5. CASE ProcessResponse
  BY <1>5
     DEF ProcessResponse, Processing, Cached, Answers, Confirm,
         EnterCallback, netVars, TypeOK, ListInv, ExactlyOneCallback,
         CallInv, AnswerBelongsToCall, Calls
<1>6. CASE ProcessResponseUnknown
  BY <1>6
     DEF ProcessResponseUnknown, Processing, Cached, Answers, handleVars,
         netVars, TypeOK, ListInv, ExactlyOneCallback, CallInv,
         AnswerBelongsToCall, Calls
<1>7. QED
  BY <1>1, <1>2, <1>3, <1>4, <1>5, <1>6, CallFrame

(* What the walk drops was on the list, so no answer to it was processed. *)
LEMMA NextGivenUpOnlyIfUnanswered ==
  ASSUME TypeOK, ListInv, ExactlyOneCallback, CallInv, GivenUpOnlyIfUnanswered, [Next]_vars
  PROVE  GivenUpOnlyIfUnanswered'
<1> USE BoundsAssumption, NamesAssumption
<1>1. CASE UNCHANGED <<requests_list, request_id, stage, reqId, fired, code,
                       sentOn, answered>>
  BY <1>1
     DEF TypeOK, ListInv, ExactlyOneCallback, CallInv,
         GivenUpOnlyIfUnanswered, Calls
<1>2. ASSUME NEW n \in AppCalls, AppStep(n) PROVE GivenUpOnlyIfUnanswered'
  BY <1>2
     DEF AppStep, AnnounceNumber, Number, workerVars, netVars, AnnounceSend,
         Connected, handleVars, AnnounceSendFails, AnnounceStamp,
         AnnounceNoMemory, AnnouncePrepend, Cache, TypeOK, ListInv,
         ExactlyOneCallback, CallInv, GivenUpOnlyIfUnanswered, Calls
<1>3. ASSUME NEW n \in CbCalls, CallbackStep(n) PROVE GivenUpOnlyIfUnanswered'
  BY <1>3
     DEF CallbackStep, CallbackAnnounce, CallbackCall, Number, Cache,
         Connected, workerVars, netVars, CallbackAnnounceNoMemory,
         CallbackAnnounceNotSent, TypeOK, ListInv, ExactlyOneCallback,
         CallInv, GivenUpOnlyIfUnanswered, Calls
<1>4. ASSUME NEW n \in Calls, Expire(n) PROVE GivenUpOnlyIfUnanswered'
  BY <1>4
     DEF Expire, Confirm, EnterCallback, LocalCode, Connected, netVars,
         TypeOK, ListInv, ExactlyOneCallback, CallInv,
         GivenUpOnlyIfUnanswered, Calls
<1>5. CASE ProcessResponse
  BY <1>5
     DEF ProcessResponse, Processing, Cached, Answers, Confirm,
         EnterCallback, netVars, TypeOK, ListInv, ExactlyOneCallback,
         CallInv, GivenUpOnlyIfUnanswered, Calls
<1>6. CASE ProcessResponseUnknown
  BY <1>6
     DEF ProcessResponseUnknown, Processing, Cached, Answers, handleVars,
         netVars, TypeOK, ListInv, ExactlyOneCallback, CallInv,
         GivenUpOnlyIfUnanswered, Calls
<1>7. QED
  BY <1>1, <1>2, <1>3, <1>4, <1>5, <1>6, CallFrame

(* The flag goes down with the connection and up on an open one only. *)
LEMMA NextSessionOfItsConnection ==
  ASSUME TypeOK, WorkerInv, SessionOfItsConnection, [Next]_vars
  PROVE  SessionOfItsConnection'
<1> USE NamesAssumption
<1>1. CASE /\ UNCHANGED <<connected_fd, session, helloOn, net>>
           /\ pc = "destroyed" <=> pc' = "destroyed"
  BY <1>1 DEF TypeOK, WorkerInv, SessionOfItsConnection, Locked, Connected
<1>2. ASSUME NEW c \in Conns, WorkAccept(c) PROVE SessionOfItsConnection'
  BY <1>2
     DEF WorkAccept, Connected, callVars, TypeOK, WorkerInv,
         SessionOfItsConnection, Locked
<1>3. ASSUME NEW c \in Conns, WorkReject(c) PROVE SessionOfItsConnection'
  BY <1>3
     DEF WorkReject, Close, Connected, handleVars, callVars, TypeOK,
         WorkerInv, SessionOfItsConnection, Locked
<1>4. ASSUME NEW c \in Conns, PeerConnect(c) PROVE SessionOfItsConnection'
  BY <1>4
     DEF PeerConnect, handleVars, workerVars, callVars, TypeOK, WorkerInv,
         SessionOfItsConnection, Locked, Connected
<1>5. CASE WorkReadFails
  BY <1>5
     DEF WorkReadFails, ResetConnection, Close, EndSession, EnterCallback,
         LeaveWork, callVars, TypeOK, WorkerInv, SessionOfItsConnection,
         Locked, Connected
<1>6. CASE ProcessHelloSession
  BY <1>6
     DEF ProcessHelloSession, EnterCallback, LeaveWork, callVars, netVars,
         TypeOK, WorkerInv, SessionOfItsConnection, Locked, Connected
<1>7. CASE ProcessBye
  BY <1>7
     DEF ProcessBye, Processing, ResetConnection, Close, EndSession,
         EnterCallback, LeaveWork, Connected, callVars, netVars, TypeOK,
         WorkerInv, SessionOfItsConnection, Locked
<1>8. CASE CleanupClose
  BY <1>8
     DEF CleanupClose, callVars, TypeOK, WorkerInv, SessionOfItsConnection,
         Locked, Connected
<1>9. QED
  BY <1>1, <1>2, <1>3, <1>4, <1>5, <1>6, <1>7, <1>8, ConnectionFrame

(* connected_fd is overwritten only when the old descriptor is closed. *)
LEMMA NextNoLeakedConnection ==
  ASSUME TypeOK, WorkerInv, NoLeakedConnection, [Next]_vars
  PROVE  NoLeakedConnection'
<1> USE NamesAssumption
<1>1. CASE /\ UNCHANGED <<connected_fd, session, helloOn, net>>
           /\ pc = "destroyed" <=> pc' = "destroyed"
  BY <1>1 DEF TypeOK, NoLeakedConnection, Connected
<1>2. ASSUME NEW c \in Conns, WorkAccept(c) PROVE NoLeakedConnection'
  BY <1>2 DEF WorkAccept, Connected, callVars, TypeOK, NoLeakedConnection
<1>3. ASSUME NEW c \in Conns, WorkReject(c) PROVE NoLeakedConnection'
  BY <1>3
     DEF WorkReject, Close, Connected, handleVars, callVars, TypeOK,
         NoLeakedConnection
<1>4. ASSUME NEW c \in Conns, PeerConnect(c) PROVE NoLeakedConnection'
  BY <1>4
     DEF PeerConnect, handleVars, workerVars, callVars, TypeOK,
         NoLeakedConnection, Connected
<1>5. CASE WorkReadFails
  BY <1>5
     DEF WorkReadFails, ResetConnection, Close, EndSession, EnterCallback,
         LeaveWork, callVars, TypeOK, NoLeakedConnection, Connected
<1>6. CASE ProcessHelloSession
  BY <1>6
     DEF ProcessHelloSession, EnterCallback, LeaveWork, callVars, netVars,
         TypeOK, NoLeakedConnection, Connected
<1>7. CASE ProcessBye
  BY <1>7
     DEF ProcessBye, Processing, ResetConnection, Close, EndSession,
         EnterCallback, LeaveWork, Connected, callVars, netVars, TypeOK,
         NoLeakedConnection
<1>8. CASE CleanupClose
  BY <1>8 DEF CleanupClose, callVars, TypeOK, NoLeakedConnection, Connected
<1>9. QED
  BY <1>1, <1>2, <1>3, <1>4, <1>5, <1>6, <1>7, <1>8, ConnectionFrame

-----------------------------------------------------------------------------
(* The theorems. *)

IInv ==
  /\ TypeOK
  /\ WorkerInv
  /\ SessionOfItsConnection
  /\ NoLeakedConnection
  /\ ListInv
  /\ TodoInv
  /\ ExactlyOneCallback
  /\ CallInv
  /\ IdInv
  /\ AnswerBelongsToCall
  /\ RequestsOfThisConnection
  /\ GivenUpOnlyIfUnanswered

LEMMA InitIInv == Init => IInv
<1> SUFFICES ASSUME Init PROVE IInv
  OBVIOUS
<1> USE NamesAssumption DEF Init
<1>1. TypeOK
  BY InitTypeOK
<1>2. WorkerInv /\ SessionOfItsConnection /\ NoLeakedConnection
  BY DEF WorkerInv, Locked, SessionOfItsConnection, NoLeakedConnection
<1>3. ListInv /\ TodoInv /\ IdInv /\ RequestsOfThisConnection
  BY DEF ListInv, TodoInv, IdInv, RequestsOfThisConnection, Cleaning
<1>4. ExactlyOneCallback /\ CallInv /\ AnswerBelongsToCall
        /\ GivenUpOnlyIfUnanswered
  BY DEF ExactlyOneCallback, CallInv, AnswerBelongsToCall,
         GivenUpOnlyIfUnanswered
<1>5. QED
  BY <1>1, <1>2, <1>3, <1>4 DEF IInv

LEMMA NextIInv == IInv /\ [Next]_vars => IInv'
  BY NextTypeOK, NextWorkerInv, NextSessionOfItsConnection,
     NextNoLeakedConnection, NextListInv, NextTodoInv,
     NextExactlyOneCallback, NextCallInv, NextIdInv,
     NextAnswerBelongsToCall, NextRequestsOfThisConnection,
     NextGivenUpOnlyIfUnanswered
     DEF IInv

(* The inductive invariant holds in every reachable state. *)
THEOREM Invariance == Spec => []IInv
  BY InitIInv, NextIInv, PTL DEF Spec

(* Every variable keeps its type, in particular request_id its range. *)
THEOREM TypeCorrect == Spec => []TypeOK
  BY Invariance, PTL DEF IInv

(* No session outlives its connection or is inherited by the next one.     *)
THEOREM SessionSafety == Spec => []SessionOfItsConnection
  BY Invariance, PTL DEF IInv

(* Every descriptor dsvdc_work accepted is the current one or is closed.   *)
THEOREM DescriptorSafety == Spec => []NoLeakedConnection
  BY Invariance, PTL DEF IInv

(* The mutex is free whenever the worker is outside a locked section.      *)
THEOREM MutexSafety == Spec => []MutexReleased
<1>1. WorkerInv => MutexReleased
  BY DEF WorkerInv, MutexReleased, Locked
<1>2. QED
  BY <1>1, Invariance, PTL DEF IInv

(* Confirmation callbacks run exactly once, and never after an error.      *)
THEOREM CallbackSafety == Spec => []ExactlyOneCallback
  BY Invariance, PTL DEF IInv

(* A callback gets the vdSM's code only when the vdSM answered that call.  *)
THEOREM AnswerSafety == Spec => []AnswerBelongsToCall
  BY Invariance, PTL DEF IInv

(* Announcements made by callbacks are not carried over to another         *)
(* connection.                                                             *)
THEOREM CacheSafety == Spec => []RequestsOfThisConnection
  BY Invariance, PTL DEF IInv

(* Nor are they given up after their answer was processed.                 *)
THEOREM ExpirySafety == Spec => []GivenUpOnlyIfUnanswered
  BY Invariance, PTL DEF IInv

(* A time-out is reported for an old request whose connection is the one   *)
(* it was sent on.                                                         *)
LEMMA StepTimeout ==
  ASSUME IInv, [Next]_vars, NEW n \in Calls,
         code[n] # "timeout", code'[n] = "timeout"
  PROVE  /\ age[n] > MsgTimeout
         /\ n \in CbCalls => sentOn[n] = connected_fd
<1> USE DEF IInv, TypeOK
<1>1. ASSUME NEW m \in AppCalls, AppStep(m) PROVE code' = code
  BY <1>1
     DEF AppStep, AnnounceNumber, AnnounceSend, AnnounceSendFails,
         AnnounceStamp, AnnounceNoMemory, AnnouncePrepend
<1>2. ASSUME NEW m \in CbCalls, CallbackStep(m) PROVE code' = code
  BY <1>2
     DEF CallbackStep, CallbackAnnounce, CallbackAnnounceNoMemory,
         CallbackAnnounceNotSent, CallbackCall
<1>3. CASE ProcessResponse
  BY <1>3 DEF ProcessResponse, Confirm
<1>4. CASE ProcessResponseUnknown
  BY <1>4 DEF ProcessResponseUnknown
<1>5. ASSUME NEW m \in Calls, Expire(m)
      PROVE  /\ age[n] > MsgTimeout
             /\ n \in CbCalls => sentOn[n] = connected_fd
  <2>1. n \in todo /\ ~closing /\ Connected
    BY <1>5 DEF Expire, Confirm, LocalCode
  <2>2. n \in requests_list
    BY <2>1 DEF ListInv
  <2>3. QED
    BY <2>1, <2>2 DEF TodoInv, RequestsOfThisConnection
<1>6. QED
  BY <1>1, <1>2, <1>3, <1>4, <1>5, CallFrame

(* dsvdc_work never times a request out early or on another connection.    *)
THEOREM TimeoutSafety == Spec => TimeoutIsGenuine
<1>1. IInv /\ [Next]_vars =>
        [\A n \in Calls : code[n] # "timeout" /\ code'[n] = "timeout"
           => /\ age[n] > MsgTimeout
              /\ n \in CbCalls => sentOn[n] = connected_fd]_vars
  BY StepTimeout
<1>2. QED
  BY <1>1, Invariance, PTL DEF Spec, TimeoutIsGenuine

(* Every step is a step of the session contract or leaves it alone.        *)
LEMMA StepSession ==
  ASSUME IInv, [Next]_vars
  PROVE  [Session!Next]_<<connected_fd, HasSession>>
<1> USE NamesAssumption DEF IInv, TypeOK, HasSession, Connected
<1>1. CASE UNCHANGED <<connected_fd, session>>
  BY <1>1
<1>2. ASSUME NEW c \in Conns, WorkAccept(c) PROVE Session!Next
  <2>1. connected_fd = NoConn /\ connected_fd' = c /\ ~session' /\ c \in Conns
    BY <1>2 DEF WorkAccept, SessionOfItsConnection
  <2>2. Session!Open(c)
    BY <2>1 DEF Session!Open
  <2>3. QED
    BY <2>2 DEF Session!Next
<1>3. ASSUME NEW c \in Conns, WorkReject(c) \/ PeerConnect(c)
      PROVE  UNCHANGED <<connected_fd, session>>
  BY <1>3 DEF WorkReject, PeerConnect, handleVars
<1>4. CASE WorkReadFails
  BY <1>4
     DEF WorkReadFails, ResetConnection, EndSession, Session!Next, Session!Drop
<1>5. CASE ProcessHelloSession
  BY <1>5
     DEF ProcessHelloSession, WorkerInv, Session!Next, Session!Start
<1>6. CASE ProcessBye
  BY <1>6
     DEF ProcessBye, Processing, ResetConnection, EndSession, WorkerInv,
         Session!Next, Session!Drop
<1>7. CASE CleanupClose
  <2>1. connected_fd' = NoConn
    BY <1>7 DEF CleanupClose
  <2>2. CASE Connected
    BY <2>1, <2>2 DEF Session!Next, Session!Drop
  <2>3. CASE ~Connected
    BY <2>1, <2>3
  <2>4. QED
    BY <2>2, <2>3
<1>8. QED
  BY <1>1, <1>2, <1>3, <1>4, <1>5, <1>6, <1>7, ConnectionFrame

(* The handle implements the session contract.                             *)
THEOREM SessionRefinement == Spec => SessionContractHolds
<1>1. Init => Session!Init
  BY DEF Init, Session!Init, HasSession, Connected
<1>2. IInv /\ [Next]_vars => [Session!Next]_<<connected_fd, HasSession>>
  BY StepSession
<1>3. QED
  BY <1>1, <1>2, Invariance, PTL DEF Spec, SessionContractHolds, Session!Spec

-----------------------------------------------------------------------------
(* The announce contract. *)

(* A step that moves one call as the contract has it, and no other call.   *)
LEMMA OneCallMoves ==
  ASSUME NEW n \in Calls,
         \A m \in Calls : m # n => Promise(m)' = Promise(m),
         \/ Promise(n)' = Promise(n)
         \/ Promise(n) = "pending" /\ Promise(n)' \in {"failed", "accepted"}
         \/ Promise(n) = "accepted" /\ Promise(n)' = "confirmed"
  PROVE  [Announce!Next]_promises
<1>1. promises' = [promises EXCEPT ![n] = Promise(n)']
  BY DEF promises
<1>2. promises[n] = Promise(n)
  BY DEF promises
<1>3. CASE Promise(n)' = Promise(n)
  <2>1. \A m \in Calls : Promise(m)' = Promise(m)
    BY <1>3
  <2>2. QED
    BY <2>1 DEF promises
<1>4. CASE Promise(n) = "pending" /\ Promise(n)' \in {"failed", "accepted"}
  BY <1>1, <1>2, <1>4 DEF Announce!Next, Announce!Fail, Announce!Accept
<1>5. CASE Promise(n) = "accepted" /\ Promise(n)' = "confirmed"
  BY <1>1, <1>2, <1>5 DEF Announce!Next, Announce!Confirm
<1>6. QED
  BY <1>3, <1>4, <1>5

LEMMA StepAnnounce ==
  ASSUME IInv, [Next]_vars
  PROVE  [Announce!Next]_promises
<1> USE DEF IInv, TypeOK
<1>1. CASE UNCHANGED <<requests_list, request_id, stage, reqId, fired, code,
                       sentOn, answered>>
  <2>1. \A n \in Calls : Promise(n)' = Promise(n)
    BY <1>1 DEF Promise
  <2>2. QED
    BY <2>1 DEF promises
<1>2. ASSUME NEW n \in AppCalls, AppStep(n) PROVE [Announce!Next]_promises
  <2>1. /\ UNCHANGED fired
        /\ \A m \in Calls : m # n => stage'[m] = stage[m]
    BY <1>2
       DEF AppStep, AnnounceNumber, AnnounceSend, AnnounceSendFails,
           AnnounceStamp, AnnounceNoMemory, AnnouncePrepend, Cache
  <2>2. /\ n \in Calls /\ stage[n] \notin {"ok", "error"}
        /\ stage'[n] \in Stages
    BY <1>2
       DEF AppStep, AnnounceNumber, AnnounceSend, AnnounceSendFails,
           AnnounceStamp, AnnounceNoMemory, AnnouncePrepend, Cache, Calls,
           Stages
  <2>3. fired[n] = 0
    BY <2>2 DEF ExactlyOneCallback
  <2>4. QED
    BY <2>1, <2>2, <2>3, OneCallMoves DEF Promise
<1>3. ASSUME NEW n \in CbCalls, CallbackStep(n)
      PROVE  [Announce!Next]_promises
  <2>1. /\ UNCHANGED fired
        /\ \A m \in Calls : m # n => stage'[m] = stage[m]
    BY <1>3
       DEF CallbackStep, CallbackAnnounce, CallbackAnnounceNoMemory,
           CallbackAnnounceNotSent, CallbackCall, Cache
  <2>2. n \in Calls /\ stage[n] = "idle" /\ stage'[n] \in {"ok", "error"}
    BY <1>3
       DEF CallbackStep, CallbackAnnounce, CallbackAnnounceNoMemory,
           CallbackAnnounceNotSent, CallbackCall, Cache, Calls
  <2>3. fired[n] = 0
    BY <2>2 DEF ExactlyOneCallback
  <2>4. QED
    BY <2>1, <2>2, <2>3, OneCallMoves DEF Promise
<1>4. ASSUME NEW n \in requests_list, NEW c, Confirm(n, c), UNCHANGED stage
      PROVE  [Announce!Next]_promises
  <2>1. n \in Calls /\ stage[n] = "ok" /\ fired[n] = 0
    BY DEF ListInv, ExactlyOneCallback
  <2>2. fired'[n] = 1 /\ \A m \in Calls : m # n => fired'[m] = fired[m]
    BY <1>4, <2>1 DEF Confirm
  <2>3. Promise(n) = "accepted" /\ Promise(n)' = "confirmed"
    BY <1>4, <2>1, <2>2 DEF Promise
  <2>4. \A m \in Calls : m # n => Promise(m)' = Promise(m)
    BY <1>4, <2>2 DEF Promise
  <2>5. QED
    BY <2>1, <2>3, <2>4, OneCallMoves
<1>5. ASSUME NEW n \in Calls, Expire(n) PROVE [Announce!Next]_promises
  <2>1. n \in requests_list
    BY <1>5 DEF Expire, ListInv
  <2>2. QED
    BY <1>4, <1>5, <2>1 DEF Expire
<1>6. CASE ProcessResponse
  <2>1. PICK n \in Cached(inhand.id) : Confirm(n, "vdsm")
    BY <1>6 DEF ProcessResponse
  <2>2. n \in requests_list
    BY DEF Cached
  <2>3. QED
    BY <1>4, <1>6, <2>1, <2>2 DEF ProcessResponse
<1>7. CASE ProcessResponseUnknown
  <2>1. \A n \in Calls : Promise(n)' = Promise(n)
    BY <1>7 DEF ProcessResponseUnknown, Promise
  <2>2. QED
    BY <2>1 DEF promises
<1>8. QED
  BY <1>1, <1>2, <1>3, <1>5, <1>6, <1>7, CallFrame

(* Whatever threads, callbacks, the vdSM and the clock do, each announce    *)
(* call fails for good or is accepted and confirmed once: the safety half  *)
(* of the announce contract.                                               *)
THEOREM AnnounceRefinement == Spec => Announce!Spec
<1>1. Init => Announce!Init
  BY DEF Init, Announce!Init, promises, Promise
<1>2. IInv /\ [Next]_vars => [Announce!Next]_promises
  BY StepAnnounce
<1>3. QED
  BY <1>1, <1>2, Invariance, PTL DEF Spec, Announce!Spec

-----------------------------------------------------------------------------
(* dsvdc_cleanup. *)

(* Once it started, everything on the list is about to be dropped, and no  *)
(* thread is in the middle of an announcement.                             *)
WipeInv ==
  closing => /\ requests_list \subseteq todo
             /\ \A n \in AppCalls : ~InCall(n)

LEMMA NextWipeInv ==
  ASSUME ~ReannounceInCleanup, TypeOK, WorkerInv, WipeInv, [Next]_vars
  PROVE  WipeInv'
<1> USE BoundsAssumption, NamesAssumption
<1>1. ASSUME NEW n \in AppCalls, AppStep(n) PROVE WipeInv'
  <2>1. UNCHANGED closing
    BY <1>1
       DEF AppStep, AnnounceNumber, workerVars, AnnounceSend,
           AnnounceSendFails, AnnounceStamp, AnnounceNoMemory,
           AnnouncePrepend
  <2>2. InCall(n) \/ ~closing
    BY <1>1
       DEF AppStep, AnnounceNumber, AnnounceSend, AnnounceSendFails,
           AnnounceStamp, AnnounceNoMemory, AnnouncePrepend, InCall
  <2>3. QED
    BY <2>1, <2>2 DEF WipeInv
<1>2. ASSUME NEW n \in CbCalls, CallbackStep(n) PROVE WipeInv'
  BY <1>2
     DEF CallbackStep, CallbackAnnounce, CallbackCall, Number, Cache,
         Connected, workerVars, netVars, CallbackAnnounceNoMemory,
         CallbackAnnounceNotSent, TypeOK, WorkerInv, WipeInv, Cleaning,
         Locked, Calls
<1>3. CASE CallbackReturn
  <2>1. UNCHANGED <<closing, requests_list, todo, stage>>
    BY <1>3 DEF CallbackReturn, handleVars, callVars
  <2>2. QED
    BY <2>1 DEF WipeInv, InCall
<1>4. CASE WorkEnter
  BY <1>4
     DEF WorkEnter, CleanupDue, Obsolete, Connected, handleVars, callVars,
         netVars, TypeOK, WorkerInv, WipeInv, Cleaning, Locked, Calls
<1>5. ASSUME NEW n \in Calls, Expire(n) PROVE WipeInv'
  <2>1. /\ UNCHANGED <<closing, stage>>
        /\ requests_list' = requests_list \ {n}
        /\ todo' = todo \ {n}
    BY <1>5 DEF Expire, Confirm
  <2>2. QED
    BY <2>1 DEF WipeInv, InCall
<1>6. CASE ExpireDone
  BY <1>6
     DEF ExpireDone, callVars, netVars, TypeOK, WorkerInv, WipeInv,
         Cleaning, Locked, Connected, Calls
<1>7. CASE WorkIdle
  BY <1>7
     DEF WorkIdle, LeaveWork, handleVars, callVars, netVars, TypeOK,
         WorkerInv, WipeInv, Cleaning, Locked, Connected, Calls
<1>8. CASE WorkReady
  BY <1>8
     DEF WorkReady, ReadyFds, handleVars, callVars, netVars, TypeOK,
         WorkerInv, WipeInv, Cleaning, Locked, Connected, Calls
<1>9. ASSUME NEW c \in Conns, WorkAccept(c) PROVE WipeInv'
  BY <1>9
     DEF WorkAccept, Connected, callVars, TypeOK, WorkerInv, WipeInv,
         Cleaning, Locked, Calls
<1>10. ASSUME NEW c \in Conns, WorkReject(c) PROVE WipeInv'
  BY <1>10
     DEF WorkReject, Close, Connected, handleVars, callVars, TypeOK,
         WorkerInv, WipeInv, Cleaning, Locked, Calls
<1>11. CASE WorkAcceptNone
  BY <1>11
     DEF WorkAcceptNone, handleVars, callVars, netVars, TypeOK, WorkerInv,
         WipeInv, Cleaning, Locked, Connected, Calls
<1>12. CASE WorkReadNone
  BY <1>12
     DEF WorkReadNone, LeaveWork, handleVars, callVars, netVars, TypeOK,
         WorkerInv, WipeInv, Cleaning, Locked, Connected, Calls
<1>13. CASE WorkRead
  BY <1>13
     DEF WorkRead, handleVars, callVars, TypeOK, WorkerInv, WipeInv,
         Cleaning, Locked, Connected, Calls
<1>14. CASE WorkReadFails
  BY <1>14
     DEF WorkReadFails, ResetConnection, Close, EndSession, EnterCallback,
         LeaveWork, callVars, TypeOK, WorkerInv, WipeInv, Cleaning, Locked,
         Connected, Calls
<1>15. CASE ProcessIgnored
  BY <1>15
     DEF ProcessIgnored, Processing, handleVars, callVars, netVars, TypeOK,
         WorkerInv, WipeInv, Cleaning, Locked, Connected, Calls
<1>16. CASE ProcessNotify
  BY <1>16
     DEF ProcessNotify, Processing, EnterCallback, handleVars, callVars,
         netVars, TypeOK, WorkerInv, WipeInv, Cleaning, Locked, Connected,
         Calls
<1>17. CASE ProcessHello
  BY <1>17
     DEF ProcessHello, Processing, handleVars, callVars, netVars, TypeOK,
         WorkerInv, WipeInv, Cleaning, Locked, Connected, Calls
<1>18. CASE ProcessHelloSession
  BY <1>18
     DEF ProcessHelloSession, EnterCallback, LeaveWork, callVars, netVars,
         TypeOK, WorkerInv, WipeInv, Cleaning, Locked, Connected, Calls
<1>19. CASE ProcessBye
  BY <1>19
     DEF ProcessBye, Processing, ResetConnection, Close, EndSession,
         EnterCallback, LeaveWork, Connected, callVars, netVars, TypeOK,
         WorkerInv, WipeInv, Cleaning, Locked, Calls
<1>20. CASE ProcessResponse
  BY <1>20
     DEF ProcessResponse, Processing, Cached, Answers, Confirm,
         EnterCallback, netVars, TypeOK, WorkerInv, WipeInv, Cleaning,
         Locked, Connected, Calls
<1>21. CASE ProcessResponseUnknown
  BY <1>21
     DEF ProcessResponseUnknown, Processing, Cached, Answers, handleVars,
         netVars, TypeOK, WorkerInv, WipeInv, Cleaning, Locked, Connected,
         Calls
<1>22. CASE CleanupStart
  BY <1>22 DEF CleanupStart, handleVars, callVars, WipeInv, InCall
<1>23. CASE CleanupClose
  <2>1. UNCHANGED <<closing, requests_list, todo, stage>>
    BY <1>23 DEF CleanupClose, callVars
  <2>2. QED
    BY <2>1 DEF WipeInv, InCall
<1>24. ASSUME NEW c \in Conns, PeerStep(c) PROVE WipeInv'
  <2>1. UNCHANGED <<closing, requests_list, todo, stage>>
    BY <1>24 DEF PeerStep, PeerConnect, handleVars, workerVars, callVars, PeerClose,
           PeerSend
  <2>2. QED
    BY <2>1 DEF WipeInv, InCall
<1>25. CASE Tick
  <2>1. UNCHANGED <<closing, requests_list, todo, stage>>
    BY <1>25 DEF Tick, workerVars
  <2>2. QED
    BY <2>1 DEF WipeInv, InCall
<1>26. CASE UNCHANGED vars
  <2>1. UNCHANGED <<closing, requests_list, todo, stage>>
    BY <1>26 DEF vars, handleVars, workerVars, callVars
  <2>2. QED
    BY <2>1 DEF WipeInv, InCall
<1>27. QED
  BY <1>1, <1>2, <1>3, <1>4, <1>5, <1>6, <1>7, <1>8, <1>9, <1>10, <1>11,
     <1>12, <1>13, <1>14, <1>15, <1>16, <1>17, <1>18, <1>19, <1>20, <1>21,
     <1>22, <1>23, <1>24, <1>25, <1>26
     DEF Next, WorkerStep, Terminated

(* dsvdc_cleanup leaves no request behind, for every number of threads and *)
(* requests, if its callbacks do not announce.                             *)
THEOREM CleanupSafety ==
  ASSUME ~ReannounceInCleanup PROVE Spec => []CleanupLeavesNothing
<1>1. Init => WipeInv
  BY DEF Init, WipeInv
<1>2. IInv /\ WipeInv /\ [Next]_vars => WipeInv'
  BY NextWipeInv DEF IInv
<1>3. IInv /\ WipeInv => CleanupLeavesNothing
  BY DEF IInv, WorkerInv, ListInv, WipeInv, Cleaning, CleanupLeavesNothing
<1>4. QED
  BY <1>1, <1>2, <1>3, Invariance, PTL DEF Spec
=============================================================================
