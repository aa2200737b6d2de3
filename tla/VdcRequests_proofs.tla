-------------------------- MODULE VdcRequests_proofs --------------------------
(***************************************************************************)
(* Machine-checked proofs about VdcRequests, for any number of requests,   *)
(* connections and application threads.                                    *)
(***************************************************************************)
EXTENDS VdcRequests, FiniteSetTheorems, SequenceTheorems, TLAPS

(* The parts of the type invariant. *)
ConnType == connected_fd \in Conns \cup {NoConn} /\ used \subseteq Conns
SessionType == session \in BOOLEAN
CallbacksType == callbacks \in [CallbackKinds -> {"null", "app", "wild"}]
WorkType ==
  /\ holder \in Everyone \cup {Nobody}
  /\ pc \in {"out", "process", "callback", "answer", "hello", "crashed"}
  /\ cur \in Requests \cup {NoRequest}
  /\ kind \in [Requests -> AllKinds \cup {"none"}]
HasType == has \in Fields
PropertyType == property \in [Requests -> {"none", "app", "freed", "leaked"}]
PhaseType == phase \in [Everyone -> {"idle", "length", "body"}]
OutType == out \in [Everyone -> Message \cup {NoMessage}]
WireType == wire \in [Conns -> Seq(Piece)]
TornType == torn \subseteq Conns
SendsType == sends \in 0 .. MaxSends

LEMMA TypeParts ==
  TypeOK <=> /\ ConnType /\ SessionType /\ CallbacksType /\ WorkType /\ HasType
             /\ PropertyType /\ PhaseType /\ OutType /\ WireType /\ TornType
             /\ SendsType
  BY DEF TypeOK, ConnType, SessionType, CallbacksType, WorkType, HasType,
     PropertyType, PhaseType, OutType, WireType, TornType, SendsType

(* Who holds the mutex, and that whoever sends is connected. *)
Locked ==
  /\ LockDiscipline
  /\ pc = "answer" => phase[Worker] # "idle"
  /\ \A t \in Everyone : phase[t] # "idle" => connected_fd \in Conns

LEMMA Names ==
  /\ Worker \in Everyone /\ Nobody \notin Everyone /\ NoConn \notin Conns
  /\ Threads = Everyone \ {Worker} /\ NoRequest \notin Requests
  /\ Worker # Nobody
  BY RequestsAssumption DEF Everyone, Worker, Nobody

LEMMA NextLocked == TypeOK /\ Locked /\ [Next]_vars => Locked'
<1> SUFFICES ASSUME ConnType, WorkType, PhaseType, Locked, [Next]_vars
             PROVE  Locked'
  BY TypeParts
<1> USE Names DEF Locked, LockDiscipline, ConnType, WorkType, PhaseType,
        connVars, workVars, sendVars
<1>1. ASSUME NEW c \in Conns,
             WorkAccept(c)
       PROVE  Locked'
  BY <1>1 DEF WorkAccept
<1>2. CASE WorkReset
  BY <1>2 DEF WorkReset, CloseConnection, LeaveHandler
<1>3. ASSUME NEW r \in Requests, NEW k \in Kinds, NEW h \in Fields,
             WorkRead(r, k, h)
       PROVE  Locked'
  BY <1>3 DEF WorkRead
<1>4. CASE ProcessDropped
  BY <1>4 DEF ProcessDropped, Processing, LeaveHandler
<1>5. CASE ProcessRejected
  BY <1>5
     DEF ProcessRejected, Processing, Rejected, Kind, AnswerWith, StartSend,
         MayLock, Connected
<1>6. CASE ProcessWild
  BY <1>6 DEF ProcessWild, Processing
<1>7. CASE ProcessCallback
  BY <1>7 DEF ProcessCallback, Accepted, Processing, EnterCallback
<1>8. CASE ProcessProperty
  BY <1>8 DEF ProcessProperty, Accepted, Processing, EnterCallback
<1>9. CASE ProcessPropertyFails
  BY <1>9
     DEF ProcessPropertyFails, Accepted, Processing, AnswerWith, StartSend,
         MayLock, Connected
<1>10. CASE ProcessSelfPing
  BY <1>10 DEF ProcessSelfPing, Processing, StartSend, MayLock, Connected
<1>11. CASE ProcessHello
  BY <1>11
     DEF ProcessHello, Processing, AnswerWith, StartSend, MayLock, Connected
<1>12. CASE ProcessNoMemory
  BY <1>12 DEF ProcessNoMemory, Processing, Accepted, LeaveHandler
<1>13. CASE HelloSession
  BY <1>13 DEF HelloSession, LeaveHandler, EnterCallback
<1>14. CASE ProcessBye
  BY <1>14 DEF ProcessBye, Processing, CloseConnection, LeaveHandler
<1>15. CASE CallbackReturn
  BY <1>15
     DEF CallbackReturn, AnswerWith, LeaveHandler, StartSend, MayLock,
         Connected
<1>16. ASSUME NEW t \in Everyone,
             SendLength(t)
       PROVE  Locked'
  BY <1>16 DEF SendLength, Write
<1>17. ASSUME NEW t \in Everyone,
             SendBody(t)
       PROVE  Locked'
  BY <1>17 DEF SendBody, Write, AfterSend, LeaveHandler
<1>18. ASSUME NEW t \in Everyone,
             SendFails(t)
       PROVE  Locked'
  BY <1>18 DEF SendFails, AfterSend, LeaveHandler
<1>19. ASSUME NEW t \in Everyone, NEW r \in Requests,
             SendResponse(t, r)
       PROVE  Locked'
  BY <1>19 DEF SendResponse, MayCall, StartSend, MayLock, Connected
<1>20. ASSUME NEW t \in Everyone, NEW r \in Requests,
             SendResponseRefused(t, r)
       PROVE  Locked'
  BY <1>20 DEF SendResponseRefused, MayCall
<1>21. ASSUME NEW t \in Everyone,
             SendOwn(t)
       PROVE  Locked'
  BY <1>21 DEF SendOwn, MayCall, StartSend, MayLock, Connected
<1>22. ASSUME NEW t \in Everyone, NEW k \in Settable, NEW v \in {"null", "app"},
             SetCallback(t, k, v)
       PROVE  Locked'
  BY <1>22 DEF SetCallback, MayCall
<1>23. CASE Crashed \/ UNCHANGED vars
  BY <1>23 DEF Crashed, vars
<1>24. QED
  BY <1>1, <1>2, <1>3, <1>4, <1>5, <1>6, <1>7, <1>8, <1>9, <1>10, <1>11, <1>12,
     <1>13, <1>14, <1>15, <1>16, <1>17, <1>18, <1>19, <1>20, <1>21, <1>22,
     <1>23
     DEF Next, WorkerStep, SendStep, AppStep

LEMMA InitTypeOK == Init => TypeOK
<1> SUFFICES ASSUME Init PROVE TypeOK
  OBVIOUS
<1>1. ConnType /\ CallbacksType /\ PhaseType /\ OutType /\ TornType
  BY DEF Init, ConnType, CallbacksType, PhaseType, OutType, TornType
<1>2. WorkType /\ PropertyType /\ SendsType
  BY RequestsAssumption DEF Init, WorkType, PropertyType, SendsType
<1>3. SessionType /\ HasType
  BY DEF Init, SessionType, HasType, NoFields, Fields
<1>4. WireType
  BY EmptySeq DEF Init, WireType
<1>5. QED
  BY <1>1, <1>2, <1>3, <1>4, TypeParts

LEMMA MessageTypes ==
  /\ NoFields \in Fields
  /\ \A s \in Sizes, r \in Requests \cup {NoRequest},
       type \in {"answer", "error", "hello", "own"} :
       [type |-> type, re |-> r, size |-> s] \in Message
  BY DEF NoFields, Fields, Message

LEMMA WriteTypes ==
  ASSUME TypeOK, NEW t \in Everyone, NEW p \in {"length", "body"},
         out[t] \in Message, connected_fd \in Conns, Write(t, p)
  PROVE  WireType'
<1> DEFINE b == IF p = "length" THEN out[t].size % LengthModulus
                                ELSE out[t].size
           x == [part |-> p, msg |-> out[t], bytes |-> b]
<1>1. out[t].size \in Nat
  BY RequestsAssumption DEF Message
<1>2. b \in Nat
  BY <1>1, RequestsAssumption
<1>3. x \in Piece
  BY <1>2 DEF Piece
<1>4. wire[connected_fd] \in Seq(Piece)
  BY DEF TypeOK
<1>5. Append(wire[connected_fd], x) \in Seq(Piece)
  BY <1>3, <1>4, AppendProperties
<1>6. QED
  BY <1>5 DEF Write, TypeOK, WireType

(* A thread that is sending has a message to send. *)
Sending == \A t \in Everyone : phase[t] # "idle" => out[t] \in Message

LEMMA StartTypes ==
  ASSUME TypeOK, Sending, NEW t \in Everyone, NEW m \in Message,
         StartSend(t, m)
  PROVE  OutType' /\ Sending'
  BY DEF TypeOK, Sending, StartSend, OutType


LEMMA InitLocked == Init => Locked /\ Sending
  BY Names DEF Init, Locked, LockDiscipline, Sending

LEMMA NextTypeOK ==
  TypeOK /\ Locked /\ Sending /\ [Next]_vars => TypeOK' /\ Sending'
<1> SUFFICES ASSUME TypeOK, ConnType, SessionType, CallbacksType, WorkType,
                    HasType, PropertyType, PhaseType, OutType, WireType, TornType,
                    SendsType, Locked, Sending, [Next]_vars
             PROVE  /\ ConnType' /\ SessionType' /\ CallbacksType' /\ WorkType'
                    /\ HasType' /\ PropertyType' /\ PhaseType' /\ OutType'
                    /\ WireType' /\ TornType' /\ SendsType' /\ Sending'
  BY DEF TypeOK, ConnType, SessionType, CallbacksType, WorkType, HasType,
     PropertyType, PhaseType, OutType, WireType, TornType, SendsType
<1> DEFINE Goal == /\ ConnType' /\ SessionType' /\ CallbacksType' /\ WorkType'
                    /\ HasType' /\ PropertyType' /\ PhaseType' /\ OutType'
                    /\ WireType' /\ TornType' /\ SendsType' /\ Sending'
<1> USE Names, MessageTypes DEF connVars, workVars, sendVars
<1>1. ASSUME NEW c \in Conns,
             WorkAccept(c)
       PROVE  Goal
  <2>1. ConnType' /\ PhaseType' /\ TornType' /\ PropertyType'
    BY <1>1
       DEF WorkAccept, ConnType, PhaseType, TornType, PropertyType, WorkType
  <2>2. WorkType' /\ CallbacksType'
    BY <1>1 DEF WorkAccept, WorkType, CallbacksType, Everyone
  <2>3. SendsType'
    BY <1>1, RequestsAssumption DEF WorkAccept, SendsType
  <2>4. OutType' /\ Sending'
    BY <1>1 DEF WorkAccept, OutType, Sending, PhaseType, WorkType
  <2>5. WireType'
    BY <1>1 DEF WorkAccept, WireType
  <2>6. SessionType' /\ HasType'
    BY <1>1 DEF WorkAccept, SessionType, HasType
  <2>7. QED
    BY <2>1, <2>2, <2>3, <2>4, <2>5, <2>6
<1>2. CASE WorkReset
  <2>1. ConnType' /\ PhaseType' /\ TornType' /\ PropertyType'
    BY <1>2
       DEF WorkReset, CloseConnection, LeaveHandler, ConnType, PhaseType,
           TornType, PropertyType, WorkType
  <2>2. WorkType' /\ CallbacksType'
    BY <1>2
       DEF WorkReset, CloseConnection, LeaveHandler, WorkType, CallbacksType,
           Everyone
  <2>3. SendsType'
    BY <1>2, RequestsAssumption
       DEF WorkReset, CloseConnection, LeaveHandler, SendsType
  <2>4. OutType' /\ Sending'
    BY <1>2
       DEF WorkReset, CloseConnection, LeaveHandler, OutType, Sending,
           PhaseType, WorkType
  <2>5. WireType'
    BY <1>2 DEF WorkReset, CloseConnection, LeaveHandler, WireType
  <2>6. SessionType' /\ HasType'
    BY <1>2 DEF WorkReset, CloseConnection, LeaveHandler, SessionType, HasType
  <2>7. QED
    BY <2>1, <2>2, <2>3, <2>4, <2>5, <2>6
<1>3. ASSUME NEW r \in Requests, NEW k \in Kinds, NEW h \in Fields,
             WorkRead(r, k, h)
       PROVE  Goal
  <2>1. ConnType' /\ PhaseType' /\ TornType' /\ PropertyType'
    BY <1>3 DEF WorkRead, ConnType, PhaseType, TornType, PropertyType, WorkType
  <2>2. WorkType' /\ CallbacksType'
    BY <1>3, RequestsAssumption DEF WorkRead, WorkType, CallbacksType, Everyone
  <2>3. SendsType'
    BY <1>3, RequestsAssumption DEF WorkRead, SendsType
  <2>4. OutType' /\ Sending'
    BY <1>3 DEF WorkRead, OutType, Sending, PhaseType, WorkType
  <2>5. WireType'
    BY <1>3 DEF WorkRead, WireType
  <2>6. SessionType' /\ HasType'
    BY <1>3 DEF WorkRead, SessionType, HasType
  <2>7. QED
    BY <2>1, <2>2, <2>3, <2>4, <2>5, <2>6
<1>4. CASE ProcessDropped
  <2>1. ConnType' /\ PhaseType' /\ TornType' /\ PropertyType'
    BY <1>4
       DEF ProcessDropped, Processing, LeaveHandler, ConnType, PhaseType,
           TornType, PropertyType, WorkType
  <2>2. WorkType' /\ CallbacksType'
    BY <1>4
       DEF ProcessDropped, Processing, LeaveHandler, WorkType, CallbacksType,
           Everyone
  <2>3. SendsType'
    BY <1>4, RequestsAssumption
       DEF ProcessDropped, Processing, LeaveHandler, SendsType
  <2>4. OutType' /\ Sending'
    BY <1>4
       DEF ProcessDropped, Processing, LeaveHandler, OutType, Sending,
           PhaseType, WorkType
  <2>5. WireType'
    BY <1>4 DEF ProcessDropped, Processing, LeaveHandler, WireType
  <2>6. SessionType' /\ HasType'
    BY <1>4 DEF ProcessDropped, Processing, LeaveHandler, SessionType, HasType
  <2>7. QED
    BY <2>1, <2>2, <2>3, <2>4, <2>5, <2>6
<1>5. CASE ProcessRejected
  <2>1. ConnType' /\ PhaseType' /\ TornType' /\ PropertyType'
    BY <1>5
       DEF ProcessRejected, Processing, Rejected, Kind, AnswerWith, StartSend,
           MayLock, Connected, ConnType, PhaseType, TornType, PropertyType,
           WorkType
  <2>2. WorkType' /\ CallbacksType'
    BY <1>5
       DEF ProcessRejected, Processing, Rejected, Kind, AnswerWith, StartSend,
           MayLock, Connected, WorkType, CallbacksType, Everyone
  <2>3. SendsType'
    BY <1>5, RequestsAssumption
       DEF ProcessRejected, Processing, Rejected, Kind, AnswerWith, StartSend,
           MayLock, Connected, SendsType
  <2>4. OutType' /\ Sending'
    BY <1>5, StartTypes
       DEF ProcessRejected, Processing, Rejected, Kind, AnswerWith, WorkType
  <2>5. WireType'
    BY <1>5
       DEF ProcessRejected, Processing, Rejected, Kind, AnswerWith, StartSend,
           MayLock, Connected, WireType
  <2>6. SessionType' /\ HasType'
    BY <1>5
       DEF ProcessRejected, Processing, Rejected, Kind, AnswerWith, StartSend,
           MayLock, Connected, SessionType, HasType
  <2>7. QED
    BY <2>1, <2>2, <2>3, <2>4, <2>5, <2>6
<1>6. CASE ProcessWild
  <2>1. ConnType' /\ PhaseType' /\ TornType' /\ PropertyType'
    BY <1>6
       DEF ProcessWild, Processing, ConnType, PhaseType, TornType,
           PropertyType, WorkType
  <2>2. WorkType' /\ CallbacksType'
    BY <1>6 DEF ProcessWild, Processing, WorkType, CallbacksType, Everyone
  <2>3. SendsType'
    BY <1>6, RequestsAssumption DEF ProcessWild, Processing, SendsType
  <2>4. OutType' /\ Sending'
    BY <1>6 DEF ProcessWild, Processing, OutType, Sending, PhaseType, WorkType
  <2>5. WireType'
    BY <1>6 DEF ProcessWild, Processing, WireType
  <2>6. SessionType' /\ HasType'
    BY <1>6 DEF ProcessWild, Processing, SessionType, HasType
  <2>7. QED
    BY <2>1, <2>2, <2>3, <2>4, <2>5, <2>6
<1>7. CASE ProcessCallback
  <2>1. ConnType' /\ PhaseType' /\ TornType' /\ PropertyType'
    BY <1>7
       DEF ProcessCallback, Accepted, Processing, EnterCallback, ConnType,
           PhaseType, TornType, PropertyType, WorkType
  <2>2. WorkType' /\ CallbacksType'
    BY <1>7
       DEF ProcessCallback, Accepted, Processing, EnterCallback, WorkType,
           CallbacksType, Everyone
  <2>3. SendsType'
    BY <1>7, RequestsAssumption
       DEF ProcessCallback, Accepted, Processing, EnterCallback, SendsType
  <2>4. OutType' /\ Sending'
    BY <1>7
       DEF ProcessCallback, Accepted, Processing, EnterCallback, OutType,
           Sending, PhaseType, WorkType
  <2>5. WireType'
    BY <1>7 DEF ProcessCallback, Accepted, Processing, EnterCallback, WireType
  <2>6. SessionType' /\ HasType'
    BY <1>7
       DEF ProcessCallback, Accepted, Processing, EnterCallback, SessionType,
           HasType
  <2>7. QED
    BY <2>1, <2>2, <2>3, <2>4, <2>5, <2>6
<1>8. CASE ProcessProperty
  <2>1. ConnType' /\ PhaseType' /\ TornType' /\ PropertyType'
    BY <1>8
       DEF ProcessProperty, Accepted, Processing, EnterCallback, ConnType,
           PhaseType, TornType, PropertyType, WorkType
  <2>2. WorkType' /\ CallbacksType'
    BY <1>8
       DEF ProcessProperty, Accepted, Processing, EnterCallback, WorkType,
           CallbacksType, Everyone
  <2>3. SendsType'
    BY <1>8, RequestsAssumption
       DEF ProcessProperty, Accepted, Processing, EnterCallback, SendsType
  <2>4. OutType' /\ Sending'
    BY <1>8
       DEF ProcessProperty, Accepted, Processing, EnterCallback, OutType,
           Sending, PhaseType, WorkType
  <2>5. WireType'
    BY <1>8 DEF ProcessProperty, Accepted, Processing, EnterCallback, WireType
  <2>6. SessionType' /\ HasType'
    BY <1>8
       DEF ProcessProperty, Accepted, Processing, EnterCallback, SessionType,
           HasType
  <2>7. QED
    BY <2>1, <2>2, <2>3, <2>4, <2>5, <2>6
<1>9. CASE ProcessPropertyFails
  <2>1. ConnType' /\ PhaseType' /\ TornType' /\ PropertyType'
    BY <1>9
       DEF ProcessPropertyFails, Accepted, Processing, AnswerWith, StartSend,
           MayLock, Connected, ConnType, PhaseType, TornType, PropertyType,
           WorkType
  <2>2. WorkType' /\ CallbacksType'
    BY <1>9
       DEF ProcessPropertyFails, Accepted, Processing, AnswerWith, StartSend,
           MayLock, Connected, WorkType, CallbacksType, Everyone
  <2>3. SendsType'
    BY <1>9, RequestsAssumption
       DEF ProcessPropertyFails, Accepted, Processing, AnswerWith, StartSend,
           MayLock, Connected, SendsType
  <2>4. OutType' /\ Sending'
    BY <1>9, StartTypes
       DEF ProcessPropertyFails, Accepted, Processing, AnswerWith, WorkType
  <2>5. WireType'
    BY <1>9
       DEF ProcessPropertyFails, Accepted, Processing, AnswerWith, StartSend,
           MayLock, Connected, WireType
  <2>6. SessionType' /\ HasType'
    BY <1>9
       DEF ProcessPropertyFails, Accepted, Processing, AnswerWith, StartSend,
           MayLock, Connected, SessionType, HasType
  <2>7. QED
    BY <2>1, <2>2, <2>3, <2>4, <2>5, <2>6
<1>10. CASE ProcessSelfPing
  <2>1. ConnType' /\ PhaseType' /\ TornType' /\ PropertyType'
    BY <1>10
       DEF ProcessSelfPing, Processing, StartSend, MayLock, Connected,
           ConnType, PhaseType, TornType, PropertyType, WorkType
  <2>2. WorkType' /\ CallbacksType'
    BY <1>10
       DEF ProcessSelfPing, Processing, StartSend, MayLock, Connected,
           WorkType, CallbacksType, Everyone
  <2>3. SendsType'
    BY <1>10, RequestsAssumption
       DEF ProcessSelfPing, Processing, StartSend, MayLock, Connected,
           SendsType
  <2>4. OutType' /\ Sending'
    BY <1>10, StartTypes DEF ProcessSelfPing, Processing, WorkType
  <2>5. WireType'
    BY <1>10
       DEF ProcessSelfPing, Processing, StartSend, MayLock, Connected, WireType
  <2>6. SessionType' /\ HasType'
    BY <1>10
       DEF ProcessSelfPing, Processing, StartSend, MayLock, Connected,
           SessionType, HasType
  <2>7. QED
    BY <2>1, <2>2, <2>3, <2>4, <2>5, <2>6
<1>11. CASE ProcessHello
  <2>1. ConnType' /\ PhaseType' /\ TornType' /\ PropertyType'
    BY <1>11
       DEF ProcessHello, Processing, AnswerWith, StartSend, MayLock, Connected,
           ConnType, PhaseType, TornType, PropertyType, WorkType
  <2>2. WorkType' /\ CallbacksType'
    BY <1>11
       DEF ProcessHello, Processing, AnswerWith, StartSend, MayLock, Connected,
           WorkType, CallbacksType, Everyone
  <2>3. SendsType'
    BY <1>11, RequestsAssumption
       DEF ProcessHello, Processing, AnswerWith, StartSend, MayLock, Connected,
           SendsType
  <2>4. OutType' /\ Sending'
    BY <1>11, StartTypes DEF ProcessHello, Processing, AnswerWith, WorkType
  <2>5. WireType'
    BY <1>11
       DEF ProcessHello, Processing, AnswerWith, StartSend, MayLock, Connected,
           WireType
  <2>6. SessionType' /\ HasType'
    BY <1>11
       DEF ProcessHello, Processing, AnswerWith, StartSend, MayLock, Connected,
           SessionType, HasType
  <2>7. QED
    BY <2>1, <2>2, <2>3, <2>4, <2>5, <2>6
<1>12. CASE ProcessNoMemory
  <2>1. ConnType' /\ PhaseType' /\ TornType' /\ PropertyType'
    BY <1>12
       DEF ProcessNoMemory, Processing, Accepted, LeaveHandler, ConnType,
           PhaseType, TornType, PropertyType, WorkType
  <2>2. WorkType' /\ CallbacksType'
    BY <1>12
       DEF ProcessNoMemory, Processing, Accepted, LeaveHandler, WorkType,
           CallbacksType, Everyone
  <2>3. SendsType'
    BY <1>12, RequestsAssumption
       DEF ProcessNoMemory, Processing, Accepted, LeaveHandler, SendsType
  <2>4. OutType' /\ Sending'
    BY <1>12
       DEF ProcessNoMemory, Processing, Accepted, LeaveHandler, OutType,
           Sending, PhaseType, WorkType
  <2>5. WireType'
    BY <1>12 DEF ProcessNoMemory, Processing, Accepted, LeaveHandler, WireType
  <2>6. SessionType' /\ HasType'
    BY <1>12
       DEF ProcessNoMemory, Processing, Accepted, LeaveHandler, SessionType,
           HasType
  <2>7. QED
    BY <2>1, <2>2, <2>3, <2>4, <2>5, <2>6
<1>13. CASE HelloSession
  <2>1. ConnType' /\ PhaseType' /\ TornType' /\ PropertyType'
    BY <1>13
       DEF HelloSession, LeaveHandler, EnterCallback, ConnType, PhaseType,
           TornType, PropertyType, WorkType
  <2>2. WorkType' /\ CallbacksType'
    BY <1>13
       DEF HelloSession, LeaveHandler, EnterCallback, WorkType, CallbacksType,
           Everyone
  <2>3. SendsType'
    BY <1>13, RequestsAssumption
       DEF HelloSession, LeaveHandler, EnterCallback, SendsType
  <2>4. OutType' /\ Sending'
    BY <1>13
       DEF HelloSession, LeaveHandler, EnterCallback, OutType, Sending,
           PhaseType, WorkType
  <2>5. WireType'
    BY <1>13 DEF HelloSession, LeaveHandler, EnterCallback, WireType
  <2>6. SessionType' /\ HasType'
    BY <1>13
       DEF HelloSession, LeaveHandler, EnterCallback, SessionType, HasType
  <2>7. QED
    BY <2>1, <2>2, <2>3, <2>4, <2>5, <2>6
<1>14. CASE ProcessBye
  <2>1. ConnType' /\ PhaseType' /\ TornType' /\ PropertyType'
    BY <1>14
       DEF ProcessBye, Processing, CloseConnection, LeaveHandler, ConnType,
           PhaseType, TornType, PropertyType, WorkType
  <2>2. WorkType' /\ CallbacksType'
    BY <1>14
       DEF ProcessBye, Processing, CloseConnection, LeaveHandler, WorkType,
           CallbacksType, Everyone
  <2>3. SendsType'
    BY <1>14, RequestsAssumption
       DEF ProcessBye, Processing, CloseConnection, LeaveHandler, SendsType
  <2>4. OutType' /\ Sending'
    BY <1>14
       DEF ProcessBye, Processing, CloseConnection, LeaveHandler, OutType,
           Sending, PhaseType, WorkType
  <2>5. WireType'
    BY <1>14
       DEF ProcessBye, Processing, CloseConnection, LeaveHandler, WireType
  <2>6. SessionType' /\ HasType'
    BY <1>14
       DEF ProcessBye, Processing, CloseConnection, LeaveHandler, SessionType,
           HasType
  <2>7. QED
    BY <2>1, <2>2, <2>3, <2>4, <2>5, <2>6
<1>15. CASE CallbackReturn
  <2>1. ConnType' /\ PhaseType' /\ TornType' /\ PropertyType'
    BY <1>15
       DEF CallbackReturn, AnswerWith, LeaveHandler, StartSend, MayLock,
           Connected, ConnType, PhaseType, TornType, PropertyType, WorkType
  <2>2. WorkType' /\ CallbacksType'
    BY <1>15
       DEF CallbackReturn, AnswerWith, LeaveHandler, StartSend, MayLock,
           Connected, WorkType, CallbacksType, Everyone
  <2>3. SendsType'
    BY <1>15, RequestsAssumption
       DEF CallbackReturn, AnswerWith, LeaveHandler, StartSend, MayLock,
           Connected, SendsType
  <2>4. OutType' /\ Sending'
    BY <1>15, StartTypes
       DEF CallbackReturn, AnswerWith, LeaveHandler, WorkType, OutType, Sending
  <2>5. WireType'
    BY <1>15
       DEF CallbackReturn, AnswerWith, LeaveHandler, StartSend, MayLock,
           Connected, WireType
  <2>6. SessionType' /\ HasType'
    BY <1>15
       DEF CallbackReturn, AnswerWith, LeaveHandler, StartSend, MayLock,
           Connected, SessionType, HasType
  <2>7. QED
    BY <2>1, <2>2, <2>3, <2>4, <2>5, <2>6
<1>16. ASSUME NEW t \in Everyone,
             SendLength(t)
       PROVE  Goal
  <2>1. ConnType' /\ PhaseType' /\ TornType' /\ PropertyType'
    BY <1>16
       DEF SendLength, Write, ConnType, PhaseType, TornType, PropertyType,
           WorkType
  <2>2. WorkType' /\ CallbacksType'
    BY <1>16 DEF SendLength, Write, WorkType, CallbacksType, Everyone
  <2>3. SendsType'
    BY <1>16, RequestsAssumption DEF SendLength, Write, SendsType
  <2>4. OutType' /\ Sending'
    BY <1>16 DEF SendLength, Write, OutType, Sending, PhaseType, WorkType
  <2>5. WireType'
    BY <1>16, WriteTypes DEF SendLength, Locked, Sending
  <2>6. SessionType' /\ HasType'
    BY <1>16 DEF SendLength, Write, SessionType, HasType
  <2>7. QED
    BY <2>1, <2>2, <2>3, <2>4, <2>5, <2>6
<1>17. ASSUME NEW t \in Everyone,
             SendBody(t)
       PROVE  Goal
  <2>1. ConnType' /\ PhaseType' /\ TornType' /\ PropertyType'
    BY <1>17
       DEF SendBody, Write, AfterSend, LeaveHandler, ConnType, PhaseType,
           TornType, PropertyType, WorkType
  <2>2. WorkType' /\ CallbacksType'
    BY <1>17
       DEF SendBody, Write, AfterSend, LeaveHandler, WorkType, CallbacksType,
           Everyone
  <2>3. SendsType'
    BY <1>17, RequestsAssumption
       DEF SendBody, Write, AfterSend, LeaveHandler, SendsType
  <2>4. OutType' /\ Sending'
    BY <1>17
       DEF SendBody, Write, AfterSend, LeaveHandler, OutType, Sending,
           PhaseType, WorkType
  <2>5. WireType'
    BY <1>17, WriteTypes DEF SendBody, Locked, Sending
  <2>6. SessionType' /\ HasType'
    BY <1>17 DEF SendBody, Write, AfterSend, LeaveHandler, SessionType, HasType
  <2>7. QED
    BY <2>1, <2>2, <2>3, <2>4, <2>5, <2>6
<1>18. ASSUME NEW t \in Everyone,
             SendFails(t)
       PROVE  Goal
  <2>1. ConnType' /\ PhaseType' /\ TornType' /\ PropertyType'
    BY <1>18
       DEF SendFails, AfterSend, LeaveHandler, ConnType, PhaseType, TornType,
           PropertyType, WorkType, Locked
  <2>2. WorkType' /\ CallbacksType'
    BY <1>18
       DEF SendFails, AfterSend, LeaveHandler, WorkType, CallbacksType,
           Everyone
  <2>3. SendsType'
    BY <1>18, RequestsAssumption
       DEF SendFails, AfterSend, LeaveHandler, SendsType
  <2>4. OutType' /\ Sending'
    BY <1>18
       DEF SendFails, AfterSend, LeaveHandler, OutType, Sending, PhaseType,
           WorkType
  <2>5. WireType'
    BY <1>18 DEF SendFails, AfterSend, LeaveHandler, WireType
  <2>6. SessionType' /\ HasType'
    BY <1>18 DEF SendFails, AfterSend, LeaveHandler, SessionType, HasType
  <2>7. QED
    BY <2>1, <2>2, <2>3, <2>4, <2>5, <2>6
<1>19. ASSUME NEW t \in Everyone, NEW r \in Requests,
             SendResponse(t, r)
       PROVE  Goal
  <2>1. ConnType' /\ PhaseType' /\ TornType' /\ PropertyType'
    BY <1>19
       DEF SendResponse, MayCall, StartSend, MayLock, Connected, ConnType,
           PhaseType, TornType, PropertyType, WorkType
  <2>2. WorkType' /\ CallbacksType'
    BY <1>19
       DEF SendResponse, MayCall, StartSend, MayLock, Connected, WorkType,
           CallbacksType, Everyone
  <2>3. SendsType'
    BY <1>19, RequestsAssumption
       DEF SendResponse, MayCall, StartSend, MayLock, Connected, SendsType
  <2>4. OutType' /\ Sending'
    BY <1>19, StartTypes DEF SendResponse, WorkType
  <2>5. WireType'
    BY <1>19 DEF SendResponse, MayCall, StartSend, MayLock, Connected, WireType
  <2>6. SessionType' /\ HasType'
    BY <1>19
       DEF SendResponse, MayCall, StartSend, MayLock, Connected, SessionType,
           HasType
  <2>7. QED
    BY <2>1, <2>2, <2>3, <2>4, <2>5, <2>6
<1>20. ASSUME NEW t \in Everyone, NEW r \in Requests,
             SendResponseRefused(t, r)
       PROVE  Goal
  <2>1. ConnType' /\ PhaseType' /\ TornType' /\ PropertyType'
    BY <1>20
       DEF SendResponseRefused, MayCall, ConnType, PhaseType, TornType,
           PropertyType, WorkType
  <2>2. WorkType' /\ CallbacksType'
    BY <1>20
       DEF SendResponseRefused, MayCall, WorkType, CallbacksType, Everyone
  <2>3. SendsType'
    BY <1>20, RequestsAssumption DEF SendResponseRefused, MayCall, SendsType
  <2>4. OutType' /\ Sending'
    BY <1>20
       DEF SendResponseRefused, MayCall, OutType, Sending, PhaseType, WorkType
  <2>5. WireType'
    BY <1>20 DEF SendResponseRefused, MayCall, WireType
  <2>6. SessionType' /\ HasType'
    BY <1>20 DEF SendResponseRefused, MayCall, SessionType, HasType
  <2>7. QED
    BY <2>1, <2>2, <2>3, <2>4, <2>5, <2>6
<1>21. ASSUME NEW t \in Everyone,
             SendOwn(t)
       PROVE  Goal
  <2>1. ConnType' /\ PhaseType' /\ TornType' /\ PropertyType'
    BY <1>21
       DEF SendOwn, MayCall, StartSend, MayLock, Connected, ConnType,
           PhaseType, TornType, PropertyType, WorkType
  <2>2. WorkType' /\ CallbacksType'
    BY <1>21
       DEF SendOwn, MayCall, StartSend, MayLock, Connected, WorkType,
           CallbacksType, Everyone
  <2>3. SendsType'
    BY <1>21, RequestsAssumption
       DEF SendOwn, MayCall, StartSend, MayLock, Connected, SendsType
  <2>4. OutType' /\ Sending'
    BY <1>21, StartTypes DEF SendOwn, WorkType
  <2>5. WireType'
    BY <1>21 DEF SendOwn, MayCall, StartSend, MayLock, Connected, WireType
  <2>6. SessionType' /\ HasType'
    BY <1>21
       DEF SendOwn, MayCall, StartSend, MayLock, Connected, SessionType,
           HasType
  <2>7. QED
    BY <2>1, <2>2, <2>3, <2>4, <2>5, <2>6
<1>22. ASSUME NEW t \in Everyone, NEW k \in Settable, NEW v \in {"null", "app"},
             SetCallback(t, k, v)
       PROVE  Goal
  <2>1. ConnType' /\ PhaseType' /\ TornType' /\ PropertyType'
    BY <1>22
       DEF SetCallback, MayCall, ConnType, PhaseType, TornType, PropertyType,
           WorkType
  <2>2. WorkType' /\ CallbacksType'
    BY <1>22 DEF SetCallback, MayCall, WorkType, CallbacksType, Everyone
  <2>3. SendsType'
    BY <1>22, RequestsAssumption DEF SetCallback, MayCall, SendsType
  <2>4. OutType' /\ Sending'
    BY <1>22 DEF SetCallback, MayCall, OutType, Sending, PhaseType, WorkType
  <2>5. WireType'
    BY <1>22 DEF SetCallback, MayCall, WireType
  <2>6. SessionType' /\ HasType'
    BY <1>22 DEF SetCallback, MayCall, SessionType, HasType
  <2>7. QED
    BY <2>1, <2>2, <2>3, <2>4, <2>5, <2>6
<1>23. CASE Crashed \/ UNCHANGED vars
  <2>1. ConnType' /\ PhaseType' /\ TornType' /\ PropertyType'
    BY <1>23
       DEF Crashed, vars, ConnType, PhaseType, TornType, PropertyType, WorkType
  <2>2. WorkType' /\ CallbacksType'
    BY <1>23 DEF Crashed, vars, WorkType, CallbacksType, Everyone
  <2>3. SendsType'
    BY <1>23, RequestsAssumption DEF Crashed, vars, SendsType
  <2>4. OutType' /\ Sending'
    BY <1>23 DEF Crashed, vars, OutType, Sending, PhaseType, WorkType
  <2>5. WireType'
    BY <1>23 DEF Crashed, vars, WireType
  <2>6. SessionType' /\ HasType'
    BY <1>23 DEF Crashed, vars, SessionType, HasType
  <2>7. QED
    BY <2>1, <2>2, <2>3, <2>4, <2>5, <2>6
<1>24. QED
  BY <1>1, <1>2, <1>3, <1>4, <1>5, <1>6, <1>7, <1>8, <1>9, <1>10, <1>11, <1>12,
     <1>13, <1>14, <1>15, <1>16, <1>17, <1>18, <1>19, <1>20, <1>21, <1>22,
     <1>23
     DEF Next, WorkerStep, SendStep, AppStep

(* Every variable of the model keeps its type: in particular nobody sends  *)
(* on a connection that is not there.                                      *)
THEOREM RequestTypes == Spec => []TypeOK
<1>1. Init => TypeOK /\ Locked /\ Sending
  BY InitTypeOK, InitLocked
<1>2. TypeOK /\ Locked /\ Sending /\ [Next]_vars
      => TypeOK' /\ Locked' /\ Sending'
  BY NextTypeOK, NextLocked
<1>3. QED
  BY <1>1, <1>2, PTL DEF Spec

(* Every path through a handler, a response function and                   *)
(* dsvdc_send_message leaves the mutex as its caller expects.              *)
THEOREM MutexDiscipline == Spec => []LockDiscipline
<1>1. Init => TypeOK /\ Locked /\ Sending
  BY InitTypeOK, InitLocked
<1>2. TypeOK /\ Locked /\ Sending /\ [Next]_vars
      => TypeOK' /\ Locked' /\ Sending'
  BY NextTypeOK, NextLocked
<1>3. Locked => LockDiscipline
  BY DEF Locked
<1>4. QED
  BY <1>1, <1>2, <1>3, PTL DEF Spec

(* The mutex alone keeps a connection from being closed or replaced under  *)
(* a thread that sends on it, or under a callback.                         *)
THEOREM ConnectionProtected == Spec => ConnectionStable
<1>1. Init => TypeOK /\ Locked /\ Sending
  BY InitTypeOK, InitLocked
<1>2. TypeOK /\ Locked /\ Sending /\ [Next]_vars
      => TypeOK' /\ Locked' /\ Sending'
  BY NextTypeOK, NextLocked
<1>3. TypeOK /\ Locked /\ [Next]_vars
      => [(\E t \in Everyone : phase[t] # "idle") \/ pc = "callback"
            => connected_fd' = connected_fd]_vars
  <2> SUFFICES ASSUME Locked, [Next]_vars,
                      (\E t \in Everyone : phase[t] # "idle") \/ pc = "callback"
               PROVE  connected_fd' = connected_fd
    OBVIOUS
  <2>1. holder # Nobody
    BY Names DEF Locked, LockDiscipline
  <2>2. connected_fd' = connected_fd
        \/ (\E c \in Conns : WorkAccept(c)) \/ WorkReset \/ ProcessBye
    BY
       DEF CloseConnection, LeaveHandler, WorkRead, ProcessDropped, Processing,
           ProcessRejected, AnswerWith, StartSend, MayLock, Connected,
           ProcessWild, ProcessCallback, Accepted, EnterCallback,
           ProcessProperty, ProcessPropertyFails, ProcessSelfPing,
           ProcessHello, ProcessNoMemory, HelloSession, CallbackReturn,
           SendLength, Write, SendBody, AfterSend, SendFails, SendResponse,
           MayCall, SendResponseRefused, SendOwn, SetCallback, Crashed, vars,
           connVars, workVars, sendVars, Next, WorkerStep, SendStep, AppStep
  <2>3. QED
    BY <2>1, <2>2 DEF WorkAccept, WorkReset, ProcessBye, Processing
<1>4. QED
  BY <1>1, <1>2, <1>3, PTL DEF Spec, ConnectionStable

-----------------------------------------------------------------------------
(* Messages on the wire. *)

(* What was written is pairs of a length and the body it announces, with  *)
(* perhaps a length at the end.                                            *)
PairedAt(w, i) ==
  IF i % 2 = 1 THEN w[i].part = "length"
  ELSE /\ w[i].part = "body"
       /\ w[i].msg = w[i - 1].msg /\ w[i].bytes = w[i - 1].bytes

Paired(w) == \A i \in 1 .. Len(w) : PairedAt(w, i)

(* A length without its body. *)
Odd(w) == Len(w) % 2 = 1

(* A length at the end is that of the message being sent right now. *)
Whole ==
  \A c \in Conns \ torn :
    /\ Paired(wire[c])
    /\ Odd(wire[c]) =>
         connected_fd = c /\ \E t \in Everyone : phase[t] = "body"
    /\ connected_fd = c =>
         \A t \in Everyone :
           /\ phase[t] = "length" => ~Odd(wire[c])
           /\ phase[t] = "body" =>
                /\ Odd(wire[c])
                /\ wire[c][Len(wire[c])].msg = out[t]
                /\ wire[c][Len(wire[c])].bytes = out[t].size

(* No message is longer than its length field can say. *)
SizesFit == \A s \in Sizes : s < LengthModulus

LEMMA PairedLength ==
  ASSUME NEW w \in Seq(Piece), NEW x \in Piece,
         Paired(w), ~Odd(w), x.part = "length"
  PROVE  Paired(Append(w, x)) /\ Odd(Append(w, x))
<1>1. Len(Append(w, x)) = Len(w) + 1 /\ Len(w) \in Nat
  BY AppendProperties
<1>2. \A i \in 1 .. Len(w) : Append(w, x)[i] = w[i]
  BY AppendProperties
<1>3. Append(w, x)[Len(w) + 1] = x
  BY AppendProperties
<1>4. ASSUME NEW i \in 1 .. Len(w)
      PROVE  PairedAt(Append(w, x), i)
  <2>1. CASE i % 2 = 1
    BY <1>2, <2>1 DEF Paired, PairedAt
  <2>2. CASE i % 2 # 1
    <3>1. i - 1 \in 1 .. Len(w)
      BY <1>1, <2>2
    <3>2. QED
      BY <1>2, <2>2, <3>1 DEF Paired, PairedAt
  <2>3. QED
    BY <2>1, <2>2
<1>5. (Len(w) + 1) % 2 = 1
  BY <1>1 DEF Odd
<1>6. ASSUME NEW i \in 1 .. Len(w) + 1, i \notin 1 .. Len(w)
      PROVE  PairedAt(Append(w, x), i)
  BY <1>1, <1>3, <1>5, <1>6 DEF PairedAt
<1>7. Paired(Append(w, x))
  BY <1>1, <1>4, <1>6 DEF Paired
<1>8. QED
  BY <1>1, <1>5, <1>7 DEF Odd

LEMMA PairedBody ==
  ASSUME NEW w \in Seq(Piece), NEW x \in Piece,
         Paired(w), Odd(w), x.part = "body",
         x.msg = w[Len(w)].msg, x.bytes = w[Len(w)].bytes
  PROVE  Paired(Append(w, x)) /\ ~Odd(Append(w, x))
<1>1. Len(Append(w, x)) = Len(w) + 1 /\ Len(w) \in Nat
  BY AppendProperties
<1>2. \A i \in 1 .. Len(w) : Append(w, x)[i] = w[i]
  BY AppendProperties
<1>3. Append(w, x)[Len(w) + 1] = x
  BY AppendProperties
<1>4. ASSUME NEW i \in 1 .. Len(w)
      PROVE  PairedAt(Append(w, x), i)
  <2>1. CASE i % 2 = 1
    BY <1>2, <2>1 DEF Paired, PairedAt
  <2>2. CASE i % 2 # 1
    <3>1. i - 1 \in 1 .. Len(w)
      BY <1>1, <2>2
    <3>2. QED
      BY <1>2, <2>2, <3>1 DEF Paired, PairedAt
  <2>3. QED
    BY <2>1, <2>2
<1>5. (Len(w) + 1) % 2 = 0 /\ Len(w) \in 1 .. Len(w)
  BY <1>1 DEF Odd
<1>6. Append(w, x)[Len(w)] = w[Len(w)]
  BY <1>2, <1>5
<1>7. ASSUME NEW i \in 1 .. Len(w) + 1, i \notin 1 .. Len(w)
      PROVE  PairedAt(Append(w, x), i)
  <2>1. i = Len(w) + 1 /\ i - 1 = Len(w) /\ i % 2 = 0
    BY <1>1, <1>5, <1>7
  <2>2. Append(w, x)[i] = x /\ Append(w, x)[i - 1] = w[Len(w)]
    BY <1>3, <1>6, <2>1
  <2>3. ~(i % 2 = 1)
    BY <2>1
  <2>4. w[Len(w)].msg = x.msg /\ w[Len(w)].bytes = x.bytes /\ x.part = "body"
    OBVIOUS
  <2>5. QED
    BY <2>2, <2>3, <2>4 DEF PairedAt
<1>8. Paired(Append(w, x))
  BY <1>1, <1>4, <1>7 DEF Paired
<1>9. QED
  BY <1>1, <1>5, <1>8 DEF Odd

LEMMA NextWhole ==
  ASSUME SizesFit, TypeOK, Locked, Sending, Whole, [Next]_vars
  PROVE  Whole'
<1> SUFFICES ASSUME ConnType, WorkType, PhaseType, WireType
             PROVE  Whole'
  BY TypeParts
<1> USE Names DEF connVars, workVars, sendVars
<1>0. ASSUME NEW t \in Everyone, phase[t] # "idle"
      PROVE  /\ \A u \in Everyone \ {t} : phase[u] = "idle"
             /\ connected_fd \in Conns
             /\ out[t].size \in Nat /\ out[t].size % LengthModulus = out[t].size
             /\ wire[connected_fd] \in Seq(Piece)
             /\ out[t] \in Message
  <2>1. out[t] \in Message /\ connected_fd \in Conns
    BY <1>0 DEF Sending, Locked
  <2>2. out[t].size \in Nat /\ out[t].size < LengthModulus
        /\ LengthModulus \in Nat \ {0}
    BY <2>1, RequestsAssumption DEF Message, SizesFit
  <2>3. out[t].size % LengthModulus = out[t].size
    BY <2>2
  <2>4. \A u \in Everyone \ {t} : phase[u] = "idle"
    BY <1>0 DEF Locked, LockDiscipline
  <2>5. QED
    BY <2>1, <2>2, <2>3, <2>4 DEF WireType
(* Whoever starts to send finds every connection at the end of a message. *)
<1>a. ASSUME NEW t \in Everyone, NEW m, StartSend(t, m), phase[t] = "idle",
             UNCHANGED connected_fd
      PROVE  Whole'
  <2>1. \A u \in Everyone : phase[u] = "idle"
    BY <1>a DEF StartSend, MayLock, Locked, LockDiscipline
  <2>2. \A u \in Everyone : phase'[u] \in {"idle", "length"}
    BY <1>a, <2>1 DEF StartSend, PhaseType
  <2>3. \A c \in Conns \ torn : ~Odd(wire[c])
    BY <2>1 DEF Whole
  <2>4. UNCHANGED <<wire, torn>>
    BY <1>a DEF StartSend
  <2>5. QED
    BY <2>2, <2>3, <2>4 DEF Whole
(* The connection changes only while nobody is sending. *)
<1>b. ASSUME holder = Nobody, UNCHANGED <<phase, out, wire, torn>> PROVE Whole'
  <2>1. \A u \in Everyone : phase[u] = "idle"
    BY <1>b DEF Locked, LockDiscipline
  <2>2. \A c \in Conns \ torn : ~Odd(wire[c])
    BY <2>1 DEF Whole
  <2>3. QED
    BY <1>b, <2>1, <2>2 DEF Whole
<1>c. ASSUME UNCHANGED <<connected_fd, phase, out, wire, torn>> PROVE Whole'
  BY <1>c DEF Whole
<1>1. ASSUME NEW c \in Conns,
             WorkAccept(c)
       PROVE  Whole'
  BY <1>1, <1>b DEF WorkAccept
<1>2. CASE WorkReset
  BY <1>2, <1>b DEF WorkReset
<1>3. ASSUME NEW r \in Requests, NEW k \in Kinds, NEW h \in Fields,
             WorkRead(r, k, h)
       PROVE  Whole'
  BY <1>3, <1>c DEF WorkRead
<1>4. CASE ProcessDropped
  BY <1>4, <1>c DEF ProcessDropped
<1>5. CASE ProcessRejected
  <2>1. phase[Worker] = "idle"
    BY <1>5 DEF ProcessRejected, Processing, Locked, LockDiscipline
  <2>2. QED
    BY <1>5, <2>1, <1>a DEF ProcessRejected, AnswerWith
<1>6. CASE ProcessWild
  BY <1>6, <1>c DEF ProcessWild
<1>7. CASE ProcessCallback
  BY <1>7, <1>c DEF ProcessCallback
<1>8. CASE ProcessProperty
  BY <1>8, <1>c DEF ProcessProperty
<1>9. CASE ProcessPropertyFails
  <2>1. phase[Worker] = "idle"
    BY <1>9
       DEF ProcessPropertyFails, Accepted, Processing, Locked, LockDiscipline
  <2>2. QED
    BY <1>9, <2>1, <1>a DEF ProcessPropertyFails, AnswerWith
<1>10. CASE ProcessSelfPing
  <2>1. phase[Worker] = "idle"
    BY <1>10 DEF ProcessSelfPing, Processing, Locked, LockDiscipline
  <2>2. QED
    BY <1>10, <2>1, <1>a DEF ProcessSelfPing
<1>11. CASE ProcessHello
  <2>1. phase[Worker] = "idle"
    BY <1>11 DEF ProcessHello, Processing, Locked, LockDiscipline
  <2>2. QED
    BY <1>11, <2>1, <1>a DEF ProcessHello, AnswerWith
<1>12. CASE ProcessNoMemory
  BY <1>12, <1>c DEF ProcessNoMemory
<1>13. CASE HelloSession
  BY <1>13, <1>c DEF HelloSession
<1>14. CASE ProcessBye
  BY <1>14, <1>b DEF ProcessBye, Processing
<1>15. CASE CallbackReturn
  <2>1. CASE AnswerWith("error")
    BY <1>15, <2>1, <1>a DEF CallbackReturn, AnswerWith
  <2>2. CASE UNCHANGED sendVars
    BY <1>15, <2>2, <1>c DEF CallbackReturn
  <2>3. QED
    BY <1>15, <2>1, <2>2 DEF CallbackReturn
<1>16. ASSUME NEW t \in Everyone,
             SendLength(t)
       PROVE  Whole'
  <2> DEFINE f == connected_fd
             x == [part |-> "length", msg |-> out[t], bytes |-> out[t].size]
  <2>1. /\ phase[t] = "length" /\ phase' = [phase EXCEPT ![t] = "body"]
        /\ UNCHANGED <<connected_fd, out, torn>>
    BY <1>16 DEF SendLength
  <2>2. wire' = [wire EXCEPT ![f] = Append(@, x)]
    BY <1>0, <1>16, <2>1 DEF SendLength, Write
  <2>3. /\ f \in Conns /\ x \in Piece /\ wire[f] \in Seq(Piece)
        /\ \A u \in Everyone \ {t} : phase[u] = "idle"
    BY <1>0, <2>1 DEF Piece
  <2>4. \A c \in Conns \ {f} : wire'[c] = wire[c]
    BY <2>2 DEF WireType
  <2>5. wire'[f] = Append(wire[f], x)
    BY <2>2, <2>3 DEF WireType
  <2>6. wire'[f][Len(wire'[f])] = x
    BY <2>3, <2>5, AppendProperties
  <2>7. phase'[t] = "body" /\ \A u \in Everyone \ {t} : phase'[u] = "idle"
    BY <2>1, <2>3 DEF PhaseType
  <2>8. ASSUME f \notin torn PROVE Paired(wire'[f]) /\ Odd(wire'[f])
    <3>1. Paired(wire[f]) /\ ~Odd(wire[f])
      BY <2>1, <2>3, <2>8 DEF Whole
    <3>2. QED
      BY <2>3, <2>5, <3>1, PairedLength
  <2>9. \A c \in Conns \ torn : c # f => Paired(wire'[c]) /\ ~Odd(wire'[c])
    BY <2>4 DEF Whole
  <2>10. QED
    BY <2>1, <2>3, <2>6, <2>7, <2>8, <2>9 DEF Whole
<1>17. ASSUME NEW t \in Everyone,
             SendBody(t)
       PROVE  Whole'
  <2> DEFINE f == connected_fd
             x == [part |-> "body", msg |-> out[t], bytes |-> out[t].size]
  <2>1. /\ phase[t] = "body" /\ phase' = [phase EXCEPT ![t] = "idle"]
        /\ UNCHANGED <<connected_fd, torn>>
    BY <1>17 DEF SendBody, AfterSend
  <2>2. wire' = [wire EXCEPT ![f] = Append(@, x)]
    BY <1>0, <1>17, <2>1 DEF SendBody, Write
  <2>3. /\ f \in Conns /\ x \in Piece /\ wire[f] \in Seq(Piece)
        /\ \A u \in Everyone \ {t} : phase[u] = "idle"
    BY <1>0, <2>1 DEF Piece
  <2>4. \A c \in Conns \ {f} : wire'[c] = wire[c]
    BY <2>2 DEF WireType
  <2>5. wire'[f] = Append(wire[f], x)
    BY <2>2, <2>3 DEF WireType
  <2>7. \A u \in Everyone : phase'[u] = "idle"
    BY <2>1, <2>3 DEF PhaseType
  <2>8. ASSUME f \notin torn PROVE Paired(wire'[f]) /\ ~Odd(wire'[f])
    <3>1. /\ Paired(wire[f]) /\ Odd(wire[f])
          /\ x.msg = wire[f][Len(wire[f])].msg
          /\ x.bytes = wire[f][Len(wire[f])].bytes
      BY <2>1, <2>3, <2>8 DEF Whole
    <3>2. Paired(wire'[f]) /\ ~Odd(wire'[f])
      BY <2>3, <2>5, <3>1, PairedBody
    <3>3. QED
      BY <3>2
  <2>9. \A c \in Conns \ torn : c # f => Paired(wire'[c]) /\ ~Odd(wire'[c])
    BY <2>4 DEF Whole
  <2>10. QED
    BY <2>1, <2>7, <2>8, <2>9 DEF Whole
<1>18. ASSUME NEW t \in Everyone,
             SendFails(t)
       PROVE  Whole'
  <2>1. /\ phase[t] # "idle" /\ phase' = [phase EXCEPT ![t] = "idle"]
        /\ UNCHANGED <<connected_fd, wire>>
        /\ \/ phase[t] = "length" /\ UNCHANGED torn
           \/ torn' = torn \cup {connected_fd}
    BY <1>18 DEF SendFails, AfterSend
  <2>2. \A u \in Everyone : phase'[u] = "idle"
    BY <1>0, <2>1 DEF PhaseType
  <2>3. \A c \in Conns \ torn' : Paired(wire[c]) /\ ~Odd(wire[c])
    <3>1. \A c \in Conns \ torn : c # connected_fd => ~Odd(wire[c])
      BY DEF Whole
    <3>2. CASE phase[t] = "length" /\ UNCHANGED torn
      <4>1. connected_fd \notin torn => ~Odd(wire[connected_fd])
        BY <1>0, <2>1, <3>2 DEF Whole
      <4>2. QED
        BY <3>1, <3>2, <4>1 DEF Whole
    <3>3. CASE torn' = torn \cup {connected_fd}
      BY <3>1, <3>3 DEF Whole
    <3>4. QED
      BY <2>1, <3>2, <3>3
  <2>4. QED
    BY <2>1, <2>2, <2>3 DEF Whole
<1>19. ASSUME NEW t \in Everyone, NEW r \in Requests,
             SendResponse(t, r)
       PROVE  Whole'
  BY <1>19, <1>a DEF SendResponse, MayCall
<1>20. ASSUME NEW t \in Everyone, NEW r \in Requests,
             SendResponseRefused(t, r)
       PROVE  Whole'
  BY <1>20, <1>c DEF SendResponseRefused
<1>21. ASSUME NEW t \in Everyone,
             SendOwn(t)
       PROVE  Whole'
  BY <1>21, <1>a DEF SendOwn, MayCall
<1>22. ASSUME NEW t \in Everyone, NEW k \in Settable, NEW v \in {"null", "app"},
             SetCallback(t, k, v)
       PROVE  Whole'
  BY <1>22, <1>c DEF SetCallback
<1>23. CASE Crashed \/ UNCHANGED vars
  BY <1>23, <1>c DEF Crashed, vars
<1>24. QED
  BY <1>1, <1>2, <1>3, <1>4, <1>5, <1>6, <1>7, <1>8, <1>9, <1>10, <1>11, <1>12,
     <1>13, <1>14, <1>15, <1>16, <1>17, <1>18, <1>19, <1>20, <1>21, <1>22,
     <1>23
     DEF Next, WorkerStep, SendStep, AppStep

(* If every message fits its length field, the vdSM can cut what it        *)
(* receives into messages, on every connection on which no write broke off.*)
THEOREM MessagesAreWhole == SizesFit /\ Spec => []FramesWhole
<1> SUFFICES ASSUME SizesFit PROVE Spec => []FramesWhole
  OBVIOUS
<1>1. Init => TypeOK /\ Locked /\ Sending /\ Whole
  <2>1. Init => Whole
    BY DEF Init, Whole, Paired, Odd
  <2>2. QED
    BY <2>1, InitTypeOK, InitLocked
<1>2. TypeOK /\ Locked /\ Sending /\ Whole /\ [Next]_vars
      => TypeOK' /\ Locked' /\ Sending' /\ Whole'
  BY NextTypeOK, NextLocked, NextWhole
<1>3. Whole => FramesWhole
  BY DEF Whole, Paired, PairedAt, Odd, FramesWhole
<1>4. QED
  BY <1>1, <1>2, <1>3, PTL DEF Spec

-----------------------------------------------------------------------------
(* Answers. *)

Answered(r) == \E c \in Conns : \E i \in 1 .. Len(wire[c]) : Answers(c, i, r)

Answerable == {"get", "set", "remove", "hello"}

OneBody ==
  \A r \in Requests, c \in Conns, d \in Conns :
    \A i \in 1 .. Len(wire[c]), j \in 1 .. Len(wire[d]) :
      Answers(c, i, r) /\ Answers(d, j, r) => c = d /\ i = j

(* What the property handles say about the answers. *)
HandlesTell ==
  \A r \in Requests :
    /\ Answered(r) => kind[r] \in Answerable /\ property[r] # "app"
    /\ property[r] = "app" => kind[r] \in PropertyKinds
    /\ kind[r] = "none" => property[r] = "none"

(* What the worker has in hand is not answered before it answers. *)
WorkerFirst ==
  /\ pc = "process" =>
       cur \in Requests /\ property[cur] = "none" /\ ~Answered(cur)
  /\ pc = "hello" => cur \in Requests /\ kind[cur] = "hello"
  /\ pc = "callback" /\ cur \in Requests /\ kind[cur] = "remove"
       => ~Answered(cur)

(* An answer on its way is the first one.  The application's own the       *)
(* handle, the library's are sent when the handler is about to end.        *)
SenderFirst ==
  \A t \in Everyone : phase[t] # "idle" =>
    /\ out[t].type = "hello" => cur \in Requests /\ kind[cur] = "hello"
    /\ out[t].re \in Requests =>
         /\ ~Answered(out[t].re) /\ kind[out[t].re] \in Answerable
         /\ IF out[t].type = "answer" THEN property[out[t].re] = "app"
            ELSE property[out[t].re] # "app" /\ pc = "answer"

FirstAnswer == OneBody /\ HandlesTell /\ WorkerFirst /\ SenderFirst

LEMMA AnswersAfterWrite ==
  ASSUME WireType, NEW f \in Conns, NEW x \in Piece,
         wire' = [wire EXCEPT ![f] = Append(@, x)]
  PROVE  \A c \in Conns :
           /\ Len(wire'[c]) \in Nat /\ Len(wire[c]) <= Len(wire'[c])
           /\ \A i \in 1 .. Len(wire'[c]), r \in Requests :
                Answers(c, i, r)' <=>
                  \/ i \in 1 .. Len(wire[c]) /\ Answers(c, i, r)
                  \/ /\ c = f /\ i = Len(wire[f]) + 1
                     /\ x.part = "body" /\ x.msg.re = r
<1>1. \A c \in Conns : wire[c] \in Seq(Piece) /\ Len(wire[c]) \in Nat
  BY DEF WireType
<1>2. ASSUME NEW c \in Conns \ {f}
      PROVE  wire'[c] = wire[c]
  BY DEF WireType
<1>3. wire'[f] = Append(wire[f], x)
  BY DEF WireType
<1>4. /\ Len(wire'[f]) = Len(wire[f]) + 1
      /\ wire'[f][Len(wire[f]) + 1] = x
      /\ \A i \in 1 .. Len(wire[f]) : wire'[f][i] = wire[f][i]
  BY <1>1, <1>3, AppendProperties
<1>5. ASSUME NEW c \in Conns, NEW i \in 1 .. Len(wire'[c]), NEW r \in Requests
      PROVE  Answers(c, i, r)' <=>
                  \/ i \in 1 .. Len(wire[c]) /\ Answers(c, i, r)
                  \/ /\ c = f /\ i = Len(wire[f]) + 1
                     /\ x.part = "body" /\ x.msg.re = r
  <2>1. CASE c # f
    BY <1>2, <2>1 DEF Answers
  <2>2. CASE c = f /\ i \in 1 .. Len(wire[f])
    BY <1>1, <1>4, <2>2 DEF Answers
  <2>3. CASE c = f /\ i \notin 1 .. Len(wire[f])
    <3>1. i = Len(wire[f]) + 1
      BY <1>1, <1>4, <2>3
    <3>2. QED
      BY <1>1, <1>4, <2>3, <3>1 DEF Answers
  <2>4. QED
    BY <2>1, <2>2, <2>3
<1>6. \A c \in Conns : Len(wire'[c]) \in Nat /\ Len(wire[c]) <= Len(wire'[c])
  BY <1>1, <1>2, <1>4
<1>7. QED
  BY <1>5, <1>6

LEMMA NextFirstAnswer ==
  ASSUME TypeOK, Locked, Sending, FirstAnswer, [Next]_vars
  PROVE  FirstAnswer'
<1> SUFFICES ASSUME ConnType, WorkType, PhaseType, OutType, PropertyType,
                    WireType
             PROVE  FirstAnswer'
  BY TypeParts
<1> USE Names DEF connVars, workVars, sendVars, PropertyKinds, Answerable
<1>a. ASSUME NEW t \in Everyone, phase[t] # "idle"
      PROVE  /\ \A u \in Everyone \ {t} : phase[u] = "idle"
             /\ holder = t /\ connected_fd \in Conns /\ out[t] \in Message
  BY <1>a DEF Locked, LockDiscipline, Sending
(* While nobody writes, only what is known about the requests changes. *)
<1>b. ASSUME UNCHANGED wire
      PROVE  OneBody' /\ \A r \in Requests : Answered(r)' = Answered(r)
  BY <1>b DEF FirstAnswer, OneBody, Answered, Answers
<1>c. \A r \in Requests : Answered(r) \in BOOLEAN /\ Answered(r)' \in BOOLEAN
  BY DEF Answered, Answers
<1>1. ASSUME NEW c \in Conns,
             WorkAccept(c)
       PROVE  FirstAnswer'
  <2>1. UNCHANGED wire
    BY <1>1 DEF WorkAccept
  <2>2. HandlesTell'
    BY <1>1, <1>a, <1>b, <2>1
       DEF WorkAccept, HandlesTell, FirstAnswer, PropertyType, WorkType,
           WorkerFirst, SenderFirst, Kind
  <2>3. WorkerFirst'
    BY <1>1, <1>a, <1>b, <2>1
       DEF WorkAccept, WorkerFirst, FirstAnswer, HandlesTell, PropertyType,
           WorkType, SenderFirst, Kind, Rejected
  <2>4. SenderFirst'
    BY <1>1, <1>a, <1>b, <2>1
       DEF WorkAccept, SenderFirst, FirstAnswer, HandlesTell, WorkerFirst,
           PhaseType, OutType, PropertyType, WorkType, Kind, Rejected, Locked,
           LockDiscipline
  <2>5. QED
    BY <1>b, <2>1, <2>2, <2>3, <2>4 DEF FirstAnswer
<1>2. CASE WorkReset
  <2>1. UNCHANGED wire
    BY <1>2 DEF WorkReset, CloseConnection, LeaveHandler
  <2>2. HandlesTell'
    BY <1>2, <1>a, <1>b, <2>1
       DEF WorkReset, CloseConnection, LeaveHandler, HandlesTell, FirstAnswer,
           PropertyType, WorkType, WorkerFirst, SenderFirst, Kind
  <2>3. WorkerFirst'
    BY <1>2, <1>a, <1>b, <2>1
       DEF WorkReset, CloseConnection, LeaveHandler, WorkerFirst, FirstAnswer,
           HandlesTell, PropertyType, WorkType, SenderFirst, Kind, Rejected
  <2>4. SenderFirst'
    BY <1>2, <1>a, <1>b, <2>1
       DEF WorkReset, CloseConnection, LeaveHandler, SenderFirst, FirstAnswer,
           HandlesTell, WorkerFirst, PhaseType, OutType, PropertyType,
           WorkType, Kind, Rejected, Locked, LockDiscipline
  <2>5. QED
    BY <1>b, <2>1, <2>2, <2>3, <2>4 DEF FirstAnswer
<1>3. ASSUME NEW r \in Requests, NEW k \in Kinds, NEW h \in Fields,
             WorkRead(r, k, h)
       PROVE  FirstAnswer'
  <2>1. UNCHANGED wire
    BY <1>3 DEF WorkRead
  <2>2. HandlesTell'
    BY <1>3, <1>a, <1>b, <2>1
       DEF WorkRead, HandlesTell, FirstAnswer, PropertyType, WorkType,
           WorkerFirst, SenderFirst, Kind
  <2>3. WorkerFirst'
    BY <1>3, <1>a, <1>b, <2>1
       DEF WorkRead, WorkerFirst, FirstAnswer, HandlesTell, PropertyType,
           WorkType, SenderFirst, Kind, Rejected
  <2>4. SenderFirst'
    BY <1>3, <1>a, <1>b, <2>1
       DEF WorkRead, SenderFirst, FirstAnswer, HandlesTell, WorkerFirst,
           PhaseType, OutType, PropertyType, WorkType, Kind, Rejected, Locked,
           LockDiscipline
  <2>5. QED
    BY <1>b, <2>1, <2>2, <2>3, <2>4 DEF FirstAnswer
<1>4. CASE ProcessDropped
  <2>1. UNCHANGED wire
    BY <1>4 DEF ProcessDropped, Processing, LeaveHandler
  <2>2. HandlesTell'
    BY <1>4, <1>a, <1>b, <2>1
       DEF ProcessDropped, Processing, LeaveHandler, HandlesTell, FirstAnswer,
           PropertyType, WorkType, WorkerFirst, SenderFirst, Kind
  <2>3. WorkerFirst'
    BY <1>4, <1>a, <1>b, <2>1
       DEF ProcessDropped, Processing, LeaveHandler, WorkerFirst, FirstAnswer,
           HandlesTell, PropertyType, WorkType, SenderFirst, Kind, Rejected
  <2>4. SenderFirst'
    BY <1>4, <1>a, <1>b, <2>1
       DEF ProcessDropped, Processing, LeaveHandler, SenderFirst, FirstAnswer,
           HandlesTell, WorkerFirst, PhaseType, OutType, PropertyType,
           WorkType, Kind, Rejected, Locked, LockDiscipline
  <2>5. QED
    BY <1>b, <2>1, <2>2, <2>3, <2>4 DEF FirstAnswer
<1>5. CASE ProcessRejected
  <2>1. UNCHANGED wire
    BY <1>5
       DEF ProcessRejected, Processing, Rejected, Kind, AnswerWith, StartSend,
           MayLock
  <2>2. HandlesTell'
    BY <1>5, <1>a, <1>b, <2>1
       DEF ProcessRejected, Processing, Rejected, Kind, AnswerWith, StartSend,
           MayLock, HandlesTell, FirstAnswer, PropertyType, WorkType,
           WorkerFirst, SenderFirst, Kind
  <2>3. WorkerFirst'
    BY <1>5, <1>a, <1>b, <2>1
       DEF ProcessRejected, Processing, Rejected, Kind, AnswerWith, StartSend,
           MayLock, WorkerFirst, FirstAnswer, HandlesTell, PropertyType,
           WorkType, SenderFirst, Kind, Rejected
  <2>4. SenderFirst'
    BY <1>5, <1>a, <1>b, <2>1
       DEF ProcessRejected, Processing, Rejected, Kind, AnswerWith, StartSend,
           MayLock, SenderFirst, FirstAnswer, HandlesTell, WorkerFirst,
           PhaseType, OutType, PropertyType, WorkType, Kind, Rejected, Locked,
           LockDiscipline
  <2>5. QED
    BY <1>b, <2>1, <2>2, <2>3, <2>4 DEF FirstAnswer
<1>6. CASE ProcessWild
  <2>1. UNCHANGED wire
    BY <1>6 DEF ProcessWild, Processing
  <2>2. HandlesTell'
    BY <1>6, <1>a, <1>b, <2>1
       DEF ProcessWild, Processing, HandlesTell, FirstAnswer, PropertyType,
           WorkType, WorkerFirst, SenderFirst, Kind
  <2>3. WorkerFirst'
    BY <1>6, <1>a, <1>b, <2>1
       DEF ProcessWild, Processing, WorkerFirst, FirstAnswer, HandlesTell,
           PropertyType, WorkType, SenderFirst, Kind, Rejected
  <2>4. SenderFirst'
    BY <1>6, <1>a, <1>b, <2>1
       DEF ProcessWild, Processing, SenderFirst, FirstAnswer, HandlesTell,
           WorkerFirst, PhaseType, OutType, PropertyType, WorkType, Kind,
           Rejected, Locked, LockDiscipline
  <2>5. QED
    BY <1>b, <2>1, <2>2, <2>3, <2>4 DEF FirstAnswer
<1>7. CASE ProcessCallback
  <2>1. UNCHANGED wire
    BY <1>7 DEF ProcessCallback, Accepted, Processing, EnterCallback
  <2>2. HandlesTell'
    BY <1>7, <1>a, <1>b, <2>1
       DEF ProcessCallback, Accepted, Processing, EnterCallback, HandlesTell,
           FirstAnswer, PropertyType, WorkType, WorkerFirst, SenderFirst, Kind
  <2>3. WorkerFirst'
    BY <1>7, <1>a, <1>b, <2>1
       DEF ProcessCallback, Accepted, Processing, EnterCallback, WorkerFirst,
           FirstAnswer, HandlesTell, PropertyType, WorkType, SenderFirst, Kind,
           Rejected
  <2>4. SenderFirst'
    BY <1>7, <1>a, <1>b, <2>1
       DEF ProcessCallback, Accepted, Processing, EnterCallback, SenderFirst,
           FirstAnswer, HandlesTell, WorkerFirst, PhaseType, OutType,
           PropertyType, WorkType, Kind, Rejected, Locked, LockDiscipline
  <2>5. QED
    BY <1>b, <2>1, <2>2, <2>3, <2>4 DEF FirstAnswer
<1>8. CASE ProcessProperty
  <2>1. UNCHANGED wire
    BY <1>8 DEF ProcessProperty, Accepted, Processing, EnterCallback
  <2>2. HandlesTell'
    BY <1>8, <1>a, <1>b, <2>1
       DEF ProcessProperty, Accepted, Processing, EnterCallback, HandlesTell,
           FirstAnswer, PropertyType, WorkType, WorkerFirst, SenderFirst, Kind
  <2>3. WorkerFirst'
    BY <1>8, <1>a, <1>b, <2>1
       DEF ProcessProperty, Accepted, Processing, EnterCallback, WorkerFirst,
           FirstAnswer, HandlesTell, PropertyType, WorkType, SenderFirst, Kind,
           Rejected
  <2>4. SenderFirst'
    BY <1>8, <1>a, <1>b, <2>1
       DEF ProcessProperty, Accepted, Processing, EnterCallback, SenderFirst,
           FirstAnswer, HandlesTell, WorkerFirst, PhaseType, OutType,
           PropertyType, WorkType, Kind, Rejected, Locked, LockDiscipline
  <2>5. QED
    BY <1>b, <2>1, <2>2, <2>3, <2>4 DEF FirstAnswer
<1>9. CASE ProcessPropertyFails
  <2>1. UNCHANGED wire
    BY <1>9
       DEF ProcessPropertyFails, Accepted, Processing, AnswerWith, StartSend,
           MayLock
  <2>2. HandlesTell'
    BY <1>9, <1>a, <1>b, <2>1
       DEF ProcessPropertyFails, Accepted, Processing, AnswerWith, StartSend,
           MayLock, HandlesTell, FirstAnswer, PropertyType, WorkType,
           WorkerFirst, SenderFirst, Kind
  <2>3. WorkerFirst'
    BY <1>9, <1>a, <1>b, <2>1
       DEF ProcessPropertyFails, Accepted, Processing, AnswerWith, StartSend,
           MayLock, WorkerFirst, FirstAnswer, HandlesTell, PropertyType,
           WorkType, SenderFirst, Kind, Rejected
  <2>4. SenderFirst'
    BY <1>9, <1>a, <1>b, <2>1
       DEF ProcessPropertyFails, Accepted, Processing, AnswerWith, StartSend,
           MayLock, SenderFirst, FirstAnswer, HandlesTell, WorkerFirst,
           PhaseType, OutType, PropertyType, WorkType, Kind, Rejected, Locked,
           LockDiscipline
  <2>5. QED
    BY <1>b, <2>1, <2>2, <2>3, <2>4 DEF FirstAnswer
<1>10. CASE ProcessSelfPing
  <2>1. UNCHANGED wire
    BY <1>10 DEF ProcessSelfPing, Processing, StartSend, MayLock
  <2>2. HandlesTell'
    BY <1>10, <1>a, <1>b, <2>1
       DEF ProcessSelfPing, Processing, StartSend, MayLock, HandlesTell,
           FirstAnswer, PropertyType, WorkType, WorkerFirst, SenderFirst, Kind
  <2>3. WorkerFirst'
    BY <1>10, <1>a, <1>b, <2>1
       DEF ProcessSelfPing, Processing, StartSend, MayLock, WorkerFirst,
           FirstAnswer, HandlesTell, PropertyType, WorkType, SenderFirst, Kind,
           Rejected
  <2>4. SenderFirst'
    BY <1>10, <1>a, <1>b, <2>1
       DEF ProcessSelfPing, Processing, StartSend, MayLock, SenderFirst,
           FirstAnswer, HandlesTell, WorkerFirst, PhaseType, OutType,
           PropertyType, WorkType, Kind, Rejected, Locked, LockDiscipline
  <2>5. QED
    BY <1>b, <2>1, <2>2, <2>3, <2>4 DEF FirstAnswer
<1>11. CASE ProcessHello
  <2>1. UNCHANGED wire
    BY <1>11 DEF ProcessHello, Processing, AnswerWith, StartSend, MayLock
  <2>2. HandlesTell'
    BY <1>11, <1>a, <1>b, <2>1
       DEF ProcessHello, Processing, AnswerWith, StartSend, MayLock,
           HandlesTell, FirstAnswer, PropertyType, WorkType, WorkerFirst,
           SenderFirst, Kind
  <2>3. WorkerFirst'
    BY <1>11, <1>a, <1>b, <2>1
       DEF ProcessHello, Processing, AnswerWith, StartSend, MayLock,
           WorkerFirst, FirstAnswer, HandlesTell, PropertyType, WorkType,
           SenderFirst, Kind, Rejected
  <2>4. SenderFirst'
    BY <1>11, <1>a, <1>b, <2>1
       DEF ProcessHello, Processing, AnswerWith, StartSend, MayLock,
           SenderFirst, FirstAnswer, HandlesTell, WorkerFirst, PhaseType,
           OutType, PropertyType, WorkType, Kind, Rejected, Locked,
           LockDiscipline
  <2>5. QED
    BY <1>b, <2>1, <2>2, <2>3, <2>4 DEF FirstAnswer
<1>12. CASE ProcessNoMemory
  <2>1. UNCHANGED wire
    BY <1>12 DEF ProcessNoMemory, Processing, Accepted, LeaveHandler
  <2>2. HandlesTell'
    BY <1>12, <1>a, <1>b, <2>1
       DEF ProcessNoMemory, Processing, Accepted, LeaveHandler, HandlesTell,
           FirstAnswer, PropertyType, WorkType, WorkerFirst, SenderFirst, Kind
  <2>3. WorkerFirst'
    BY <1>12, <1>a, <1>b, <2>1
       DEF ProcessNoMemory, Processing, Accepted, LeaveHandler, WorkerFirst,
           FirstAnswer, HandlesTell, PropertyType, WorkType, SenderFirst, Kind,
           Rejected
  <2>4. SenderFirst'
    BY <1>12, <1>a, <1>b, <2>1
       DEF ProcessNoMemory, Processing, Accepted, LeaveHandler, SenderFirst,
           FirstAnswer, HandlesTell, WorkerFirst, PhaseType, OutType,
           PropertyType, WorkType, Kind, Rejected, Locked, LockDiscipline
  <2>5. QED
    BY <1>b, <2>1, <2>2, <2>3, <2>4 DEF FirstAnswer
<1>13. CASE HelloSession
  <2>1. UNCHANGED wire
    BY <1>13 DEF HelloSession, LeaveHandler, EnterCallback
  <2>2. HandlesTell'
    BY <1>13, <1>a, <1>b, <2>1
       DEF HelloSession, LeaveHandler, EnterCallback, HandlesTell, FirstAnswer,
           PropertyType, WorkType, WorkerFirst, SenderFirst, Kind
  <2>3. WorkerFirst'
    BY <1>13, <1>a, <1>b, <2>1
       DEF HelloSession, LeaveHandler, EnterCallback, WorkerFirst, FirstAnswer,
           HandlesTell, PropertyType, WorkType, SenderFirst, Kind, Rejected
  <2>4. SenderFirst'
    BY <1>13, <1>a, <1>b, <2>1
       DEF HelloSession, LeaveHandler, EnterCallback, SenderFirst, FirstAnswer,
           HandlesTell, WorkerFirst, PhaseType, OutType, PropertyType,
           WorkType, Kind, Rejected, Locked, LockDiscipline
  <2>5. QED
    BY <1>b, <2>1, <2>2, <2>3, <2>4 DEF FirstAnswer
<1>14. CASE ProcessBye
  <2>1. UNCHANGED wire
    BY <1>14 DEF ProcessBye, Processing, CloseConnection, LeaveHandler
  <2>2. HandlesTell'
    BY <1>14, <1>a, <1>b, <2>1
       DEF ProcessBye, Processing, CloseConnection, LeaveHandler, HandlesTell,
           FirstAnswer, PropertyType, WorkType, WorkerFirst, SenderFirst, Kind
  <2>3. WorkerFirst'
    BY <1>14, <1>a, <1>b, <2>1
       DEF ProcessBye, Processing, CloseConnection, LeaveHandler, WorkerFirst,
           FirstAnswer, HandlesTell, PropertyType, WorkType, SenderFirst, Kind,
           Rejected
  <2>4. SenderFirst'
    BY <1>14, <1>a, <1>b, <2>1
       DEF ProcessBye, Processing, CloseConnection, LeaveHandler, SenderFirst,
           FirstAnswer, HandlesTell, WorkerFirst, PhaseType, OutType,
           PropertyType, WorkType, Kind, Rejected, Locked, LockDiscipline
  <2>5. QED
    BY <1>b, <2>1, <2>2, <2>3, <2>4 DEF FirstAnswer
<1>15. CASE CallbackReturn
  <2>1. UNCHANGED wire
    BY <1>15 DEF CallbackReturn, AnswerWith, LeaveHandler, StartSend, MayLock
  <2>2. HandlesTell'
    BY <1>15, <1>a, <1>b, <2>1
       DEF CallbackReturn, AnswerWith, LeaveHandler, StartSend, MayLock,
           HandlesTell, FirstAnswer, PropertyType, WorkType, WorkerFirst,
           SenderFirst, Kind
  <2>3. WorkerFirst'
    BY <1>15, <1>a, <1>b, <2>1
       DEF CallbackReturn, AnswerWith, LeaveHandler, StartSend, MayLock,
           WorkerFirst, FirstAnswer, HandlesTell, PropertyType, WorkType,
           SenderFirst, Kind, Rejected
  <2>4. SenderFirst'
    BY <1>15, <1>a, <1>b, <2>1
       DEF CallbackReturn, AnswerWith, LeaveHandler, StartSend, MayLock,
           SenderFirst, FirstAnswer, HandlesTell, WorkerFirst, PhaseType,
           OutType, PropertyType, WorkType, Kind, Rejected, Locked,
           LockDiscipline
  <2>5. QED
    BY <1>b, <2>1, <2>2, <2>3, <2>4 DEF FirstAnswer
<1>16. ASSUME NEW t \in Everyone,
             SendLength(t)
       PROVE  FirstAnswer'
  <2> DEFINE f == connected_fd
             m == out[t]
             b == m.size % LengthModulus
             x == [part |-> "length", msg |-> m, bytes |-> b]
  <2>1. /\ phase[t] = "length" /\ f \in Conns /\ m \in Message
        /\ \A u \in Everyone \ {t} : phase[u] = "idle"
        /\ holder = t
    BY <1>a, <1>16 DEF SendLength
  <2>2. wire' = [wire EXCEPT ![f] = Append(@, x)]
    BY <1>16 DEF SendLength, Write
  <2>0. b \in Nat
    <3>1. m.size \in Nat /\ LengthModulus \in Nat \ {0}
      BY <2>1, RequestsAssumption DEF Message
    <3>2. QED
      BY <3>1
  <2>3. x \in Piece /\ x.part = "length" /\ x.msg = m
    BY <2>0, <2>1 DEF Piece
  <2> HIDE DEF x, b
  <2>4. \A c \in Conns : \A i \in 1 .. Len(wire'[c]), r \in Requests :
          Answers(c, i, r)' <=> i \in 1 .. Len(wire[c]) /\ Answers(c, i, r)
    BY <2>1, <2>2, <2>3, AnswersAfterWrite
  <2>5. \A c \in Conns : \A i \in 1 .. Len(wire[c]) : i \in 1 .. Len(wire'[c])
    BY <2>1, <2>2, <2>3, AnswersAfterWrite DEF WireType
  <2>6. \A r \in Requests : Answered(r)' = Answered(r)
    BY <2>4, <2>5, <1>c DEF Answered
  <2>7. OneBody'
    BY <2>4 DEF FirstAnswer, OneBody
  <2>8. /\ UNCHANGED <<pc, cur, kind, property, out>>
        /\ \A u \in Everyone : phase'[u] # "idle" => phase[u] # "idle"
    BY <1>16, <2>1 DEF SendLength, PhaseType
  <2>9. HandlesTell' /\ WorkerFirst'
    BY <2>6, <2>8 DEF FirstAnswer, HandlesTell, WorkerFirst
  <2>10. SenderFirst'
    BY <2>6, <2>8 DEF FirstAnswer, SenderFirst
  <2>11. QED
    BY <2>7, <2>9, <2>10 DEF FirstAnswer
<1>17. ASSUME NEW t \in Everyone,
             SendBody(t)
       PROVE  FirstAnswer'
  <2> DEFINE f == connected_fd
             m == out[t]
             b == m.size
             x == [part |-> "body", msg |-> m, bytes |-> b]
  <2>1. /\ phase[t] = "body" /\ f \in Conns /\ m \in Message
        /\ \A u \in Everyone \ {t} : phase[u] = "idle"
        /\ holder = t
    BY <1>a, <1>17 DEF SendBody
  <2>2. wire' = [wire EXCEPT ![f] = Append(@, x)]
    BY <1>17 DEF SendBody, Write
  <2>0. b \in Nat
    <3>1. m.size \in Nat /\ LengthModulus \in Nat \ {0}
      BY <2>1, RequestsAssumption DEF Message
    <3>2. QED
      BY <3>1
  <2>3. x \in Piece /\ x.part = "body" /\ x.msg = m
    BY <2>0, <2>1 DEF Piece
  <2> HIDE DEF x, b
  <2>4. \A c \in Conns : \A i \in 1 .. Len(wire'[c]), r \in Requests :
          Answers(c, i, r)' <=>
            \/ i \in 1 .. Len(wire[c]) /\ Answers(c, i, r)
            \/ c = f /\ i = Len(wire[f]) + 1 /\ m.re = r
    <3>1. \A c \in Conns : \A i \in 1 .. Len(wire'[c]), r \in Requests :
            Answers(c, i, r)' <=>
              \/ i \in 1 .. Len(wire[c]) /\ Answers(c, i, r)
              \/ /\ c = f /\ i = Len(wire[f]) + 1
                 /\ x.part = "body" /\ x.msg.re = r
      BY <2>1, <2>2, <2>3, AnswersAfterWrite
    <3>2. x.part = "body" /\ x.msg.re = m.re
      BY <2>3
    <3>3. QED
      BY <3>1, <3>2
  <2>5. ASSUME NEW r \in Requests, Answered(r)'
        PROVE  Answered(r) \/ r = m.re
    BY <2>4, <2>5 DEF Answered
  <2>6. m.re \in Requests => ~Answered(m.re)
    BY <2>1 DEF FirstAnswer, SenderFirst
  <2>7. OneBody'
    <3> SUFFICES ASSUME NEW r \in Requests, NEW c \in Conns, NEW d \in Conns,
                        NEW i \in 1 .. Len(wire'[c]),
                        NEW j \in 1 .. Len(wire'[d]),
                        Answers(c, i, r)', Answers(d, j, r)'
                 PROVE  c = d /\ i = j
      BY DEF OneBody
    <3>1. CASE r = m.re
      <4>1. c = f /\ i = Len(wire[f]) + 1
        BY <2>4, <2>6, <3>1 DEF Answered
      <4>2. d = f /\ j = Len(wire[f]) + 1
        BY <2>4, <2>6, <3>1 DEF Answered
      <4>3. QED
        BY <4>1, <4>2
    <3>2. CASE r # m.re
      <4>1. /\ i \in 1 .. Len(wire[c]) /\ Answers(c, i, r)
            /\ j \in 1 .. Len(wire[d]) /\ Answers(d, j, r)
        BY <2>4, <3>2
      <4>2. QED
        BY <4>1 DEF FirstAnswer, OneBody
    <3>3. QED
      BY <3>1, <3>2
  <2>8. /\ UNCHANGED kind
        /\ property' = IF m.type = "answer"
                         THEN [property EXCEPT ![m.re] = "freed"] ELSE property
        /\ \A u \in Everyone : phase'[u] = "idle"
    BY <1>17, <2>1 DEF SendBody, AfterSend, PhaseType
  <2>9. m.re \in Requests =>
          /\ kind[m.re] \in Answerable
          /\ IF m.type = "answer" THEN property[m.re] = "app"
             ELSE property[m.re] # "app" /\ pc = "answer"
    BY <2>1 DEF FirstAnswer, SenderFirst
  <2>10. HandlesTell'
    <3> SUFFICES ASSUME NEW r \in Requests
                 PROVE  /\ Answered(r)' =>
                             kind'[r] \in Answerable /\ property'[r] # "app"
                        /\ property'[r] = "app" => kind'[r] \in PropertyKinds
                        /\ kind'[r] = "none" => property'[r] = "none"
      BY DEF HandlesTell
    <3>1. CASE r = m.re
      BY <2>8, <2>9, <3>1 DEF FirstAnswer, HandlesTell, PropertyType
    <3>2. CASE r # m.re
      <4>1. property'[r] = property[r]
        BY <2>8, <3>2 DEF PropertyType
      <4>2. QED
        BY <2>5, <2>8, <3>2, <4>1 DEF FirstAnswer, HandlesTell
    <3>3. QED
      BY <3>1, <3>2
  <2>11. SenderFirst'
    BY <2>8 DEF SenderFirst
  <2>12. WorkerFirst'
    <3>1. CASE t # Worker
      <4>1. UNCHANGED <<pc, cur>> /\ pc # "callback"
        BY <1>17, <2>1, <3>1 DEF SendBody, AfterSend, Locked, LockDiscipline
      <4>2. ASSUME pc = "process" PROVE cur # m.re /\ property'[cur] = "none"
        <5>1. cur \in Requests /\ property[cur] = "none"
          BY <4>2 DEF FirstAnswer, WorkerFirst
        <5>2. cur # m.re
          BY <2>9, <4>2, <5>1
        <5>3. QED
          BY <2>8, <5>1, <5>2 DEF PropertyType
      <4>3. pc = "process" =>
              cur \in Requests /\ property'[cur] = "none" /\ ~Answered(cur)'
        BY <2>5, <4>1, <4>2 DEF FirstAnswer, WorkerFirst
      <4>4. QED
        BY <2>8, <4>1, <4>3 DEF FirstAnswer, WorkerFirst
    <3>2. CASE t = Worker /\ pc = "callback"
      <4>1. UNCHANGED <<pc, cur>>
        BY <1>17, <3>2 DEF SendBody, AfterSend
      <4>2. ASSUME cur \in Requests, kind[cur] = "remove" PROVE ~Answered(cur)'
        <5>1. cur # m.re
          BY <2>9, <3>2, <4>2 DEF FirstAnswer, HandlesTell
        <5>2. QED
          BY <2>5, <3>2, <4>1, <4>2, <5>1 DEF FirstAnswer, WorkerFirst
      <4>3. QED
        BY <2>8, <3>2, <4>1, <4>2 DEF WorkerFirst
    <3>3. CASE t = Worker /\ pc # "callback"
      <4>1. \/ pc' = "out"
            \/ pc' = "hello" /\ cur' = cur /\ m.type = "hello"
        BY <1>17, <3>3 DEF SendBody, AfterSend, LeaveHandler
      <4>2. m.type = "hello" => cur \in Requests /\ kind[cur] = "hello"
        BY <2>1 DEF FirstAnswer, SenderFirst
      <4>3. QED
        BY <2>8, <4>1, <4>2 DEF WorkerFirst
    <3>4. QED
      BY <3>1, <3>2, <3>3
  <2>13. QED
    BY <2>7, <2>10, <2>11, <2>12 DEF FirstAnswer
<1>18. ASSUME NEW t \in Everyone,
             SendFails(t)
       PROVE  FirstAnswer'
  <2>1. UNCHANGED wire
    BY <1>18 DEF SendFails, AfterSend, LeaveHandler
  <2>2. HandlesTell'
    BY <1>18, <1>a, <1>b, <2>1
       DEF SendFails, AfterSend, LeaveHandler, HandlesTell, FirstAnswer,
           PropertyType, WorkType, WorkerFirst, SenderFirst, Kind
  <2>3. WorkerFirst'
    BY <1>18, <1>a, <1>b, <2>1
       DEF SendFails, AfterSend, LeaveHandler, WorkerFirst, FirstAnswer,
           HandlesTell, PropertyType, WorkType, SenderFirst, Kind, Rejected
  <2>4. SenderFirst'
    BY <1>18, <1>a, <1>b, <2>1
       DEF SendFails, AfterSend, LeaveHandler, SenderFirst, FirstAnswer,
           HandlesTell, WorkerFirst, PhaseType, OutType, PropertyType,
           WorkType, Kind, Rejected, Locked, LockDiscipline
  <2>5. QED
    BY <1>b, <2>1, <2>2, <2>3, <2>4 DEF FirstAnswer
<1>19. ASSUME NEW t \in Everyone, NEW r \in Requests,
             SendResponse(t, r)
       PROVE  FirstAnswer'
  <2>1. UNCHANGED wire
    BY <1>19 DEF SendResponse, MayCall, StartSend, MayLock
  <2>2. HandlesTell'
    BY <1>19, <1>a, <1>b, <2>1
       DEF SendResponse, MayCall, StartSend, MayLock, HandlesTell, FirstAnswer,
           PropertyType, WorkType, WorkerFirst, SenderFirst, Kind
  <2>3. WorkerFirst'
    BY <1>19, <1>a, <1>b, <2>1
       DEF SendResponse, MayCall, StartSend, MayLock, WorkerFirst, FirstAnswer,
           HandlesTell, PropertyType, WorkType, SenderFirst, Kind, Rejected
  <2>4. SenderFirst'
    BY <1>19, <1>a, <1>b, <2>1
       DEF SendResponse, MayCall, StartSend, MayLock, SenderFirst, FirstAnswer,
           HandlesTell, WorkerFirst, PhaseType, OutType, PropertyType,
           WorkType, Kind, Rejected, Locked, LockDiscipline
  <2>5. QED
    BY <1>b, <2>1, <2>2, <2>3, <2>4 DEF FirstAnswer
<1>20. ASSUME NEW t \in Everyone, NEW r \in Requests,
             SendResponseRefused(t, r)
       PROVE  FirstAnswer'
  <2>1. UNCHANGED wire
    BY <1>20 DEF SendResponseRefused, MayCall
  <2>2. HandlesTell'
    BY <1>20, <1>a, <1>b, <2>1
       DEF SendResponseRefused, MayCall, HandlesTell, FirstAnswer,
           PropertyType, WorkType, WorkerFirst, SenderFirst, Kind
  <2>3. WorkerFirst'
    BY <1>20, <1>a, <1>b, <2>1
       DEF SendResponseRefused, MayCall, WorkerFirst, FirstAnswer, HandlesTell,
           PropertyType, WorkType, SenderFirst, Kind, Rejected
  <2>4. SenderFirst'
    BY <1>20, <1>a, <1>b, <2>1
       DEF SendResponseRefused, MayCall, SenderFirst, FirstAnswer, HandlesTell,
           WorkerFirst, PhaseType, OutType, PropertyType, WorkType, Kind,
           Rejected, Locked, LockDiscipline
  <2>5. QED
    BY <1>b, <2>1, <2>2, <2>3, <2>4 DEF FirstAnswer
<1>21. ASSUME NEW t \in Everyone,
             SendOwn(t)
       PROVE  FirstAnswer'
  <2>1. UNCHANGED wire
    BY <1>21 DEF SendOwn, MayCall, StartSend, MayLock
  <2>2. HandlesTell'
    BY <1>21, <1>a, <1>b, <2>1
       DEF SendOwn, MayCall, StartSend, MayLock, HandlesTell, FirstAnswer,
           PropertyType, WorkType, WorkerFirst, SenderFirst, Kind
  <2>3. WorkerFirst'
    BY <1>21, <1>a, <1>b, <2>1
       DEF SendOwn, MayCall, StartSend, MayLock, WorkerFirst, FirstAnswer,
           HandlesTell, PropertyType, WorkType, SenderFirst, Kind, Rejected
  <2>4. SenderFirst'
    BY <1>21, <1>a, <1>b, <2>1
       DEF SendOwn, MayCall, StartSend, MayLock, SenderFirst, FirstAnswer,
           HandlesTell, WorkerFirst, PhaseType, OutType, PropertyType,
           WorkType, Kind, Rejected, Locked, LockDiscipline
  <2>5. QED
    BY <1>b, <2>1, <2>2, <2>3, <2>4 DEF FirstAnswer
<1>22. ASSUME NEW t \in Everyone, NEW k \in Settable, NEW v \in {"null", "app"},
             SetCallback(t, k, v)
       PROVE  FirstAnswer'
  <2>1. UNCHANGED wire
    BY <1>22 DEF SetCallback, MayCall
  <2>2. HandlesTell'
    BY <1>22, <1>a, <1>b, <2>1
       DEF SetCallback, MayCall, HandlesTell, FirstAnswer, PropertyType,
           WorkType, WorkerFirst, SenderFirst, Kind
  <2>3. WorkerFirst'
    BY <1>22, <1>a, <1>b, <2>1
       DEF SetCallback, MayCall, WorkerFirst, FirstAnswer, HandlesTell,
           PropertyType, WorkType, SenderFirst, Kind, Rejected
  <2>4. SenderFirst'
    BY <1>22, <1>a, <1>b, <2>1
       DEF SetCallback, MayCall, SenderFirst, FirstAnswer, HandlesTell,
           WorkerFirst, PhaseType, OutType, PropertyType, WorkType, Kind,
           Rejected, Locked, LockDiscipline
  <2>5. QED
    BY <1>b, <2>1, <2>2, <2>3, <2>4 DEF FirstAnswer
<1>23. CASE Crashed \/ UNCHANGED vars
  <2>1. UNCHANGED wire
    BY <1>23 DEF Crashed, vars
  <2>2. HandlesTell'
    BY <1>23, <1>a, <1>b, <2>1
       DEF Crashed, vars, HandlesTell, FirstAnswer, PropertyType, WorkType,
           WorkerFirst, SenderFirst, Kind
  <2>3. WorkerFirst'
    BY <1>23, <1>a, <1>b, <2>1
       DEF Crashed, vars, WorkerFirst, FirstAnswer, HandlesTell, PropertyType,
           WorkType, SenderFirst, Kind, Rejected
  <2>4. SenderFirst'
    BY <1>23, <1>a, <1>b, <2>1
       DEF Crashed, vars, SenderFirst, FirstAnswer, HandlesTell, WorkerFirst,
           PhaseType, OutType, PropertyType, WorkType, Kind, Rejected, Locked,
           LockDiscipline
  <2>5. QED
    BY <1>b, <2>1, <2>2, <2>3, <2>4 DEF FirstAnswer
<1>24. QED
  BY <1>1, <1>2, <1>3, <1>4, <1>5, <1>6, <1>7, <1>8, <1>9, <1>10, <1>11, <1>12,
     <1>13, <1>14, <1>15, <1>16, <1>17, <1>18, <1>19, <1>20, <1>21, <1>22,
     <1>23
     DEF Next, WorkerStep, SendStep, AppStep

LEMMA InitFirstAnswer == Init => FirstAnswer
<1> SUFFICES ASSUME Init PROVE FirstAnswer
  OBVIOUS
<1>1. \A c \in Conns : 1 .. Len(wire[c]) = {}
  BY DEF Init
<1>2. OneBody /\ \A r \in Requests : ~Answered(r)
  BY <1>1 DEF OneBody, Answered
<1>3. HandlesTell /\ WorkerFirst /\ SenderFirst
  BY <1>2 DEF Init, HandlesTell, WorkerFirst, SenderFirst
<1>4. QED
  BY <1>2, <1>3 DEF FirstAnswer

LEMMA AnswersAre ==
  ASSUME NEW r \in Requests
  PROVE  \A p \in AnswersTo(r) :
           /\ p = <<p[1], p[2]>> /\ p[1] \in Conns
           /\ p[2] \in 1 .. Len(wire[p[1]]) /\ Answers(p[1], p[2], r)
<1> SUFFICES ASSUME NEW p \in AnswersTo(r)
             PROVE  /\ p = <<p[1], p[2]>> /\ p[1] \in Conns
                    /\ p[2] \in 1 .. Len(wire[p[1]]) /\ Answers(p[1], p[2], r)
  OBVIOUS
<1> DEFINE Bound == 2 * (Cardinality(Requests) + MaxSends)
<1>1. p \in Conns \X (1 .. Bound)
  BY DEF AnswersTo
<1>2. p[2] <= Len(wire[p[1]]) /\ Answers(p[1], p[2], r)
  BY DEF AnswersTo
<1> HIDE DEF Bound
<1>3. p = <<p[1], p[2]>> /\ p[1] \in Conns /\ p[2] \in 1 .. Bound
  BY <1>1
<1>4. p[2] \in Nat /\ p[2] >= 1
  BY <1>3
<1>5. QED
  BY <1>2, <1>3, <1>4

LEMMA AnswerFacts ==
  ASSUME TypeOK, FirstAnswer
  PROVE  SingleAnswer /\ NotificationsUnanswered
<1>1. ASSUME NEW r \in Requests PROVE Cardinality(AnswersTo(r)) <= 1
  <2>1. \A p, q \in AnswersTo(r) : p = q
    BY AnswersAre DEF FirstAnswer, OneBody
  <2>2. CASE AnswersTo(r) = {}
    BY <2>2, FS_EmptySet
  <2>3. CASE AnswersTo(r) # {}
    <3>1. PICK p : p \in AnswersTo(r)
      BY <2>3
    <3>2. AnswersTo(r) = {p}
      BY <2>1, <3>1
    <3>3. Cardinality({p}) = 1
      BY FS_Singleton
    <3>4. QED
      BY <3>2, <3>3
  <2>4. QED
    BY <2>2, <2>3
<1>2. ASSUME NEW r \in Requests, AnswersTo(r) # {} PROVE Answered(r)
  BY <1>2, AnswersAre DEF Answered
<1>3. QED
  BY <1>1, <1>2 DEF SingleAnswer, NotificationsUnanswered, FirstAnswer,
     HandlesTell, Answerable

LEMMA FirstAnswerHolds == Spec => [](TypeOK /\ FirstAnswer)
<1>1. Init => TypeOK /\ Locked /\ Sending /\ FirstAnswer
  BY InitTypeOK, InitLocked, InitFirstAnswer
<1>2. TypeOK /\ Locked /\ Sending /\ FirstAnswer /\ [Next]_vars
      => TypeOK' /\ Locked' /\ Sending' /\ FirstAnswer'
  BY NextTypeOK, NextLocked, NextFirstAnswer
<1>3. QED
  BY <1>1, <1>2, PTL DEF Spec

(* Whichever thread answers, and however late, no request is answered      *)
(* twice.                                                                  *)
THEOREM AnsweredOnce == Spec => []SingleAnswer
<1>1. TypeOK /\ FirstAnswer => SingleAnswer
  BY AnswerFacts
<1>2. QED
  BY <1>1, FirstAnswerHolds, PTL

(* Notifications, pings and BYE are never answered.                        *)
THEOREM NotificationsStayUnanswered == Spec => []NotificationsUnanswered
<1>1. TypeOK /\ FirstAnswer => NotificationsUnanswered
  BY AnswerFacts
<1>2. QED
  BY <1>1, FirstAnswerHolds, PTL
=============================================================================
