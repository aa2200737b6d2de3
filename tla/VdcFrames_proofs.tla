-------------------------- MODULE VdcFrames_proofs --------------------------
(***************************************************************************)
(* Machine-checked proofs about VdcFrames, for every sequence of frames,   *)
(* every time-out and every number of signals.                             *)
(***************************************************************************)
EXTENDS VdcFrames, TLAPS

(* The stream ends where the frame after the last would begin. *)
LEMMA StreamFacts ==
  /\ Len(Sizes) \in Nat /\ Header = 2
  /\ \A k \in 1 .. Len(Sizes) + 1 : Start[k] \in 0 .. Total
  /\ \A k \in Frames : /\ Sizes[k] \in 0 .. MaxDataSize + 1
                       /\ k + 1 \in 1 .. Len(Sizes) + 1
                       /\ Start[k + 1] = Start[k] + Header + Sizes[k]
<1>1. Len(Sizes) \in Nat /\ Header = 2
  BY FramesAssumption DEF Header
<1>2. \A k \in Frames : Sizes[k] \in 0 .. MaxDataSize + 1
  BY FramesAssumption DEF Frames
<1>3. \A k \in 1 .. Len(Sizes) + 1 : Start[k] \in Nat
  BY StartAssumption
<1>4. ASSUME NEW k \in 1 .. Len(Sizes) + 1 PROVE Start[k] <= Total
  <2>1. CASE k = Len(Sizes) + 1
    BY <1>3, <2>1 DEF Total
  <2>2. CASE k # Len(Sizes) + 1
    <3>1. k \in Frames /\ k < Len(Sizes) + 1
      BY <1>1, <2>2 DEF Frames
    <3>2. Start[k] + Header + Sizes[k] <= Start[Len(Sizes) + 1]
      BY <1>1, <3>1, StartAssumption, StartIncreases
    <3>3. Sizes[k] >= 0 /\ Sizes[k] \in Int
      BY <1>2, <3>1, FramesAssumption
    <3>4. Start[Len(Sizes) + 1] \in Nat
      BY <1>1, <1>3
    <3>5. QED
      BY <1>1, <1>3, <3>2, <3>3, <3>4 DEF Total
  <2>3. QED
    BY <2>1, <2>2
<1>5. Total \in Nat
  BY <1>1, <1>3 DEF Total
<1>6. \A k \in Frames : k + 1 \in 1 .. Len(Sizes) + 1
  BY <1>1 DEF Frames
<1>7. QED
  BY <1>1, <1>2, <1>3, <1>4, <1>5, <1>6, StartAssumption

LEMMA TotalType == Total \in Nat
  BY FramesAssumption, StartAssumption DEF Total

(* What the reader has seen of the current buffer lies behind it. *)
ReadInv == place \in Reading => got <= consumed

LEMMA DecodedType == Decoded \subseteq 0 .. MaxDataSize + 1
  BY StreamFacts DEF Decoded

LEMMA BoundFacts ==
  MaxDataSize \in Nat /\ Timeout \in Nat /\ MaxSignals \in Nat /\ Total \in Nat
  BY FramesAssumption, TotalType

(* The parts of the type invariant. *)
PayloadsType == payloads \subseteq (0 .. Total) \X (0 .. Total)
EodType == eod \in BOOLEAN
WhyType ==
  why \in {"none", "closed", "oversized", "short", "timeout", "error"}
NetType == /\ arrived \in 0 .. Total /\ consumed \in 0 .. arrived
           /\ peerOpen \in BOOLEAN
ClockType == /\ waited \in Nat /\ elapsed \in Nat
             /\ signals \in 0 .. MaxSignals
ReadType == /\ place \in {"idle", "reset"} \cup Working
            /\ size \in 0 .. MaxDataSize + 1
            /\ got \in Nat /\ (place \in Reading => got < Buffer)

LEMMA TypeParts ==
  TypeOK <=> PayloadsType /\ EodType /\ WhyType /\ NetType /\ ClockType /\ ReadType
  BY DEF TypeOK, PayloadsType, EodType, WhyType, NetType, ClockType, ReadType

LEMMA InitTypeOK == Init => TypeOK /\ ReadInv
<1> SUFFICES ASSUME Init PROVE TypeOK /\ ReadInv
  OBVIOUS
<1>1. PayloadsType
  BY DEF Init, PayloadsType
<1>2. WhyType /\ NetType /\ ClockType
  BY BoundFacts DEF Init, WhyType, NetType, ClockType
<1>3. ReadType /\ ReadInv
  BY BoundFacts DEF Init, ReadType, ReadInv, Working, Reading
<1>4. EodType
  BY DEF Init, EodType
<1>5. QED
  BY <1>1, <1>2, <1>3, <1>4, TypeParts

LEMMA NextTypeOK == TypeOK /\ ReadInv /\ [Next]_vars => TypeOK' /\ ReadInv'
<1> SUFFICES ASSUME PayloadsType, EodType, WhyType, NetType, ClockType, ReadType,
                    ReadInv, [Next]_vars
             PROVE  /\ PayloadsType' /\ WhyType' /\ NetType' /\ ClockType'
                    /\ EodType' /\ ReadType' /\ ReadInv'
  BY DEF TypeOK, PayloadsType, EodType, WhyType, NetType, ClockType, ReadType
<1> DEFINE Goal == /\ PayloadsType' /\ WhyType' /\ NetType' /\ ClockType'
                   /\ EodType' /\ ReadType' /\ ReadInv'
<1> USE BoundFacts DEF netVars, readVars, clockVars
<1>1. CASE WorkEnter
  <2>1. PayloadsType'
    BY <1>1 DEF WorkEnter, PayloadsType
  <2>2. WhyType' /\ NetType' /\ ClockType'
    BY <1>1 DEF WorkEnter, WhyType, NetType, ClockType
  <2>3. ReadType' /\ ReadInv'
    BY <1>1 DEF WorkEnter, NetType, ReadType, ReadInv, Buffer, Working,
       Reading
  <2>4. EodType'
    BY <1>1 DEF WorkEnter, EodType
  <2>5. QED
    BY <2>1, <2>2, <2>3, <2>4
<1>2. CASE SelectTimeout
  <2>1. PayloadsType'
    BY <1>2 DEF SelectTimeout, LeaveWork, PayloadsType
  <2>2. WhyType' /\ NetType' /\ ClockType'
    BY <1>2 DEF SelectTimeout, LeaveWork, WhyType, NetType, ClockType
  <2>3. ReadType' /\ ReadInv'
    BY <1>2 DEF SelectTimeout, LeaveWork, NetType, ReadType, ReadInv, Buffer,
       Working, Reading
  <2>4. EodType'
    BY <1>2 DEF SelectTimeout, LeaveWork, EodType
  <2>5. QED
    BY <2>1, <2>2, <2>3, <2>4
<1>3. CASE SelectReady
  <2>1. PayloadsType'
    BY <1>3 DEF SelectReady, EnterRead, Header, PayloadsType
  <2>2. WhyType' /\ NetType' /\ ClockType'
    BY <1>3 DEF SelectReady, EnterRead, Header, WhyType, NetType, ClockType
  <2>3. ReadType' /\ ReadInv'
    BY <1>3 DEF SelectReady, EnterRead, Header, NetType, ReadType, ReadInv,
       Buffer, Working, Reading
  <2>4. EodType'
    BY <1>3 DEF SelectReady, EnterRead, Header, EodType
  <2>5. QED
    BY <2>1, <2>2, <2>3, <2>4
<1>4. ASSUME NEW n \in 1 .. Total, RecvMore(n) PROVE Goal
  <2>1. PayloadsType'
    BY <1>4 DEF RecvMore, Recv, Want, Available, Header, PayloadsType
  <2>2. WhyType' /\ NetType' /\ ClockType'
    BY <1>4 DEF RecvMore, Recv, Want, Available, Header, WhyType, NetType,
       ClockType
  <2>3. ReadType' /\ ReadInv'
    BY <1>4 DEF RecvMore, Recv, Want, Available, Header, NetType, ReadType,
       ReadInv, Buffer, Working, Reading
  <2>4. EodType'
    BY <1>4 DEF RecvMore, Recv, Want, Available, Header, EodType
  <2>5. QED
    BY <2>1, <2>2, <2>3, <2>4
<1>5. ASSUME NEW n \in 1 .. Total, RecvHeader(n) PROVE Goal
  <2>1. PayloadsType'
    BY <1>5 DEF RecvHeader, Recv, Want, Available, LeaveWork, EnterRead, Header, PayloadsType
  <2>2. WhyType' /\ NetType' /\ ClockType'
    BY <1>5 DEF RecvHeader, Recv, Want, Available, LeaveWork, EnterRead,
       Header, WhyType, NetType, ClockType
  <2>3. ReadType' /\ ReadInv'
    BY <1>5, DecodedType DEF RecvHeader, Recv, Want, Available, LeaveWork,
       EnterRead, Header, NetType, ReadType, ReadInv, Buffer, Working, Reading
  <2>4. EodType'
    BY <1>5 DEF RecvHeader, Recv, Want, Available, LeaveWork, EnterRead,
       Header, EodType
  <2>5. QED
    BY <2>1, <2>2, <2>3, <2>4
<1>6. ASSUME NEW n \in 1 .. Total, RecvPayload(n) PROVE Goal
  <2>1. PayloadsType'
    BY <1>6 DEF RecvPayload, Recv, Want, Available, PayloadsType, NetType,
       ReadType, ReadInv, Buffer, Reading
  <2>2. WhyType' /\ NetType' /\ ClockType'
    BY <1>6 DEF RecvPayload, Recv, Want, Available, LeaveWork, WhyType,
       NetType, ClockType
  <2>3. ReadType' /\ ReadInv'
    BY <1>6 DEF RecvPayload, Recv, Want, Available, LeaveWork, NetType,
       ReadType, ReadInv, Buffer, Working, Reading
  <2>4. EodType'
    BY <1>6 DEF RecvPayload, Recv, Want, Available, LeaveWork, EodType
  <2>5. QED
    BY <2>1, <2>2, <2>3, <2>4
<1>7. CASE RecvClosed \/ RecvShort \/ RecvTimeout \/ RecvFails
  <2>1. PayloadsType'
    BY <1>7 DEF RecvClosed, RecvShort, RecvTimeout, RecvFails, Reset, PayloadsType
  <2>2. WhyType' /\ NetType' /\ ClockType'
    BY <1>7 DEF RecvClosed, RecvShort, RecvTimeout, RecvFails, Reset, WhyType,
       NetType, ClockType
  <2>3. ReadType' /\ ReadInv'
    BY <1>7 DEF RecvClosed, RecvShort, RecvTimeout, RecvFails, Reset, NetType,
       ReadType, ReadInv, Buffer, Working, Reading
  <2>4. EodType'
    BY <1>7 DEF RecvClosed, RecvShort, RecvTimeout, RecvFails, Reset, EodType
  <2>5. QED
    BY <2>1, <2>2, <2>3, <2>4
<1>8. CASE Interrupted
  <2>1. PayloadsType'
    BY <1>8 DEF Interrupted, LeaveWork, PayloadsType
  <2>2. WhyType' /\ NetType' /\ ClockType'
    BY <1>8 DEF Interrupted, LeaveWork, WhyType, NetType, ClockType
  <2>3. ReadType' /\ ReadInv'
    BY <1>8 DEF Interrupted, LeaveWork, NetType, ReadType, ReadInv, Buffer,
       Working, Reading
  <2>4. EodType'
    BY <1>8 DEF Interrupted, LeaveWork, EodType
  <2>5. QED
    BY <2>1, <2>2, <2>3, <2>4
<1>9. ASSUME NEW n \in 1 .. Total - arrived, Arrive(n) PROVE Goal
  <2>1. PayloadsType'
    BY <1>9 DEF Arrive, PayloadsType
  <2>2. WhyType' /\ NetType' /\ ClockType'
    BY <1>9 DEF Arrive, WhyType, NetType, ClockType
  <2>3. ReadType' /\ ReadInv'
    BY <1>9 DEF Arrive, NetType, ReadType, ReadInv, Buffer, Working, Reading
  <2>4. EodType'
    BY <1>9 DEF Arrive, EodType
  <2>5. QED
    BY <2>1, <2>2, <2>3, <2>4
<1>10. CASE PeerClose
  <2>1. PayloadsType'
    BY <1>10 DEF PeerClose, PayloadsType
  <2>2. WhyType' /\ NetType' /\ ClockType'
    BY <1>10 DEF PeerClose, WhyType, NetType, ClockType
  <2>3. ReadType' /\ ReadInv'
    BY <1>10 DEF PeerClose, NetType, ReadType, ReadInv, Buffer, Working,
       Reading
  <2>4. EodType'
    BY <1>10 DEF PeerClose, EodType
  <2>5. QED
    BY <2>1, <2>2, <2>3, <2>4
<1>11. CASE Tick
  <2>1. PayloadsType'
    BY <1>11 DEF Tick, PayloadsType
  <2>2. WhyType' /\ NetType' /\ ClockType'
    BY <1>11 DEF Tick, WhyType, NetType, ClockType
  <2>3. ReadType' /\ ReadInv'
    BY <1>11 DEF Tick, NetType, ReadType, ReadInv, Buffer, Working, Reading
  <2>4. EodType'
    BY <1>11 DEF Tick, EodType
  <2>5. QED
    BY <2>1, <2>2, <2>3, <2>4
<1>12. CASE Terminated \/ UNCHANGED vars
  <2>1. PayloadsType'
    BY <1>12 DEF Terminated, vars, PayloadsType
  <2>2. WhyType' /\ NetType' /\ ClockType'
    BY <1>12 DEF Terminated, vars, WhyType, NetType, ClockType
  <2>3. ReadType' /\ ReadInv'
    BY <1>12 DEF Terminated, vars, NetType, ReadType, ReadInv, Buffer,
       Working, Reading
  <2>4. EodType'
    BY <1>12 DEF Terminated, vars, EodType
  <2>5. QED
    BY <2>1, <2>2, <2>3, <2>4
<1>13. QED
  BY <1>1, <1>2, <1>3, <1>4, <1>5, <1>6, <1>7, <1>8, <1>9, <1>10, <1>11, <1>12
     DEF Next, Work, Network

(* Every variable keeps its type; in particular recv() never writes behind *)
(* the end of the buffer it was given.                                     *)
THEOREM BuffersHold == Spec => []TypeOK
  BY InitTypeOK, NextTypeOK, PTL DEF Spec

-----------------------------------------------------------------------------
(* Frames. *)

(* The payloads of all frames that end at or before position c. *)
Complete(c) ==
  {<<Start[k] + Header, Start[k + 1]>> :
     k \in {j \in Frames : Sizes[j] > 0 /\ Start[j + 1] <= c}}

(* What is handed out, seen from inside a frame, too: the buffer being     *)
(* filled began at a frame boundary or behind the header of a frame.       *)
FrameInv ==
  /\ place \in {"idle", "select"} =>
       \E k \in 1 .. Len(Sizes) + 1 :
         consumed = Start[k] /\ payloads = Complete(Start[k])
  /\ place = "header" =>
       \E k \in 1 .. Len(Sizes) + 1 :
         consumed - got = Start[k] /\ payloads = Complete(Start[k])
  /\ place = "payload" =>
       \E k \in Frames :
         /\ consumed - got = Start[k] + Header /\ payloads = Complete(Start[k])
         /\ size = Sizes[k] /\ size > 0

(* The next frame begins behind every frame up to this one and before all  *)
(* later ones, so that one payload is added, or none if it is empty.       *)
LEMMA FrameFacts ==
  /\ Frames \subseteq Int
  /\ \A k \in Frames :
       /\ Start[k] \in Nat /\ Sizes[k] \in Nat
       /\ Start[k + 1] \in Nat /\ Start[k + 1] = Start[k] + 2 + Sizes[k]
  /\ \A j, k \in Frames : j < k => Start[j + 1] <= Start[k]
<1>1. \A k \in Frames :
        /\ Start[k] \in Nat /\ Sizes[k] \in Nat
        /\ Start[k + 1] \in Nat /\ Start[k + 1] = Start[k] + 2 + Sizes[k]
  BY StreamFacts, BoundFacts DEF Frames
<1>2. \A j, k \in Frames : j < k => Start[j + 1] <= Start[k]
  BY <1>1, StreamFacts, StartIncreases, StartAssumption DEF Frames
<1>3. QED
  BY <1>1, <1>2 DEF Frames

LEMMA StartDistinct ==
  ASSUME NEW a \in Frames, NEW b \in Frames, Start[a] = Start[b]
  PROVE  a = b
<1> USE FrameFacts
<1>1. CASE a < b
  <2>1. Start[a + 1] <= Start[b]
    BY <1>1
  <2>2. QED
    BY <2>1
<1>2. CASE b < a
  <2>1. Start[b + 1] <= Start[a]
    BY <1>2
  <2>2. QED
    BY <2>1
<1>3. QED
  BY <1>1, <1>2

LEMMA CompleteNext ==
  ASSUME NEW k \in Frames
  PROVE  Complete(Start[k + 1]) =
           IF Sizes[k] = 0 THEN Complete(Start[k])
           ELSE Complete(Start[k]) \cup {<<Start[k] + Header, Start[k + 1]>>}
<1> USE FrameFacts
<1>1. \A j \in Frames : j < k => Start[j + 1] <= Start[k]
  OBVIOUS
<1>2. \A j \in Frames : k < j => Start[k + 1] < Start[j + 1]
  OBVIOUS
<1>3. ASSUME NEW j \in Frames, Sizes[j] > 0
      PROVE  Start[j + 1] <= Start[k + 1]
               <=> Start[j + 1] <= Start[k] \/ j = k
  <2>1. CASE j < k
    BY <1>1, <2>1
  <2>2. CASE j = k
    BY <2>2
  <2>3. CASE k < j
    BY <1>2, <2>3
  <2>4. QED
    BY <2>1, <2>2, <2>3
<1>4. CASE Sizes[k] = 0
  BY <1>3, <1>4 DEF Complete
<1>5. CASE Sizes[k] # 0
  <2>1. Sizes[k] > 0
    BY <1>5
  <2>2. {j \in Frames : Sizes[j] > 0 /\ Start[j + 1] <= Start[k + 1]}
        = {j \in Frames : Sizes[j] > 0 /\ Start[j + 1] <= Start[k]} \cup {k}
    BY <1>3, <2>1
  <2>3. QED
    BY <1>5, <2>2 DEF Complete
<1>6. QED
  BY <1>4, <1>5

LEMMA InitFrameInv == Init => FrameInv
<1> SUFFICES ASSUME Init PROVE FrameInv
  OBVIOUS
<1> USE StreamFacts
<1>1. 1 \in 1 .. Len(Sizes) + 1 /\ Start[1] = 0
  BY StartAssumption
<1>2. \A j \in Frames : Start[j + 1] > 0
  BY FrameFacts
<1>3. Complete(Start[1]) = {}
  BY <1>1, <1>2 DEF Complete
<1>4. QED
  BY <1>1, <1>3 DEF Init, FrameInv

(* In front of the last position there is a frame to read. *)
LEMMA HeaderOfFrame ==
  ASSUME NEW k \in 1 .. Len(Sizes) + 1, Start[k] + Header <= Total
  PROVE  k \in Frames
<1>1. CASE k = Len(Sizes) + 1
  BY <1>1, StreamFacts DEF Total
<1>2. CASE k # Len(Sizes) + 1
  BY <1>2, StreamFacts DEF Frames
<1>3. QED
  BY <1>1, <1>2

LEMMA NextFrameInv == TypeOK /\ ReadInv /\ FrameInv /\ [Next]_vars => FrameInv'
<1> SUFFICES ASSUME PayloadsType, NetType, ReadType, ReadInv, FrameInv,
                    [Next]_vars
             PROVE  FrameInv'
  BY DEF TypeOK, PayloadsType, NetType, ReadType
<1> USE BoundFacts DEF netVars, readVars, clockVars
<1>1. CASE WorkEnter
  BY <1>1 DEF WorkEnter, FrameInv
<1>2. CASE SelectTimeout
  BY <1>2 DEF SelectTimeout, LeaveWork, FrameInv
<1>3. CASE SelectReady
  <2>1. PICK k \in 1 .. Len(Sizes) + 1 :
           consumed = Start[k] /\ payloads = Complete(Start[k])
    BY <1>3 DEF SelectReady, FrameInv
  <2>2. place' = "header" /\ got' = 0 /\ UNCHANGED <<consumed, payloads>>
    BY <1>3 DEF SelectReady, EnterRead
  <2>3. consumed' - got' = Start[k]
    BY <2>1, <2>2 DEF NetType
  <2>4. QED
    BY <2>1, <2>2, <2>3 DEF FrameInv
<1>4. ASSUME NEW n \in 1 .. Total, RecvMore(n) PROVE FrameInv'
  <2>1. consumed' - got' = consumed - got
    BY <1>4 DEF RecvMore, Recv, Want, NetType, ReadType, Buffer, Reading, Header
  <2>2. place \in {"header", "payload"}
        /\ UNCHANGED <<place, payloads, size>>
    BY <1>4 DEF RecvMore, Recv, Reading
  <2>3. QED
    BY <2>1, <2>2 DEF FrameInv
<1>5. ASSUME NEW n \in 1 .. Total, RecvHeader(n) PROVE FrameInv'
  <2>1. PICK k \in 1 .. Len(Sizes) + 1 :
           consumed - got = Start[k] /\ payloads = Complete(Start[k])
    BY <1>5 DEF RecvHeader, FrameInv
  <2>2. consumed' = Start[k] + Header /\ consumed' <= Total
    BY <1>5, <2>1, StreamFacts
       DEF RecvHeader, Recv, Want, Available, Buffer, NetType, ReadType,
           Reading, Header
  <2>3. k \in Frames
    BY <2>2, HeaderOfFrame
  <2>4. PICK j \in Frames : Start[j] = Start[k] /\ size' = Sizes[j]
    BY <1>5, <2>1, <2>3 DEF RecvHeader, Decoded
  <2>5. j = k
    BY <2>3, <2>4, StartDistinct
  <2>6. CASE size' > MaxDataSize
    BY <1>5, <2>6 DEF RecvHeader, FrameInv
  <2>7. CASE size' = 0
    <3>1. place' = "idle" /\ UNCHANGED payloads
      BY <1>5, <2>7 DEF RecvHeader, LeaveWork
    <3>2. consumed' = Start[k + 1] /\ k + 1 \in 1 .. Len(Sizes) + 1
      BY <2>2, <2>3, <2>4, <2>5, <2>7, StreamFacts
    <3>3. Complete(Start[k + 1]) = Complete(Start[k])
      BY <2>3, <2>4, <2>5, <2>7, CompleteNext
    <3>4. QED
      BY <2>1, <3>1, <3>2, <3>3 DEF FrameInv
  <2>8. CASE ~(size' > MaxDataSize) /\ size' # 0
    <3>1. place' = "payload" /\ got' = 0 /\ UNCHANGED payloads
      BY <1>5, <2>8 DEF RecvHeader, EnterRead
    <3>2. size' > 0
      BY <2>4, <2>8, StreamFacts
    <3>3. consumed' - got' = Start[k] + Header
      BY <2>2, <2>3, <3>1, StreamFacts
    <3>4. QED
      BY <2>1, <2>3, <2>4, <2>5, <3>1, <3>2, <3>3 DEF FrameInv
  <2>9. QED
    BY <2>6, <2>7, <2>8
<1>6. ASSUME NEW n \in 1 .. Total, RecvPayload(n) PROVE FrameInv'
  <2>1. PICK k \in Frames :
           /\ consumed - got = Start[k] + Header
           /\ payloads = Complete(Start[k])
           /\ size = Sizes[k] /\ size > 0
    BY <1>6 DEF RecvPayload, FrameInv
  <2>2. n = size - got /\ consumed' = consumed + n
    BY <1>6 DEF RecvPayload, Recv, Want, Buffer
  <2>3. /\ consumed' = Start[k + 1] /\ consumed + n = Start[k + 1]
        /\ consumed + n - size = Start[k] + Header
    BY <2>1, <2>2, FrameFacts DEF NetType, ReadType, Header
  <2>4. payloads' = payloads \cup {<<Start[k] + Header, Start[k + 1]>>}
    BY <1>6, <2>3 DEF RecvPayload
  <2>5. payloads' = Complete(Start[k + 1])
    <3>1. Sizes[k] # 0
      BY <2>1
    <3>2. QED
      BY <2>1, <2>4, <3>1, CompleteNext
  <2>6. place' = "idle" /\ k + 1 \in 1 .. Len(Sizes) + 1
    BY <1>6, StreamFacts DEF RecvPayload, LeaveWork
  <2>7. QED
    BY <2>3, <2>5, <2>6 DEF FrameInv
<1>7. CASE RecvClosed \/ RecvShort \/ RecvTimeout \/ RecvFails
  BY <1>7 DEF RecvClosed, RecvShort, RecvTimeout, RecvFails, Reset, FrameInv
<1>8. CASE Interrupted
  BY <1>8 DEF Interrupted, LeaveWork, Working, Reading, FrameInv
<1>9. ASSUME NEW n \in 1 .. Total - arrived, Arrive(n) PROVE FrameInv'
  BY <1>9 DEF Arrive, FrameInv
<1>10. CASE PeerClose
  BY <1>10 DEF PeerClose, FrameInv
<1>11. CASE Tick
  BY <1>11 DEF Tick, FrameInv
<1>12. CASE Terminated \/ UNCHANGED vars
  BY <1>12 DEF Terminated, vars, FrameInv
<1>13. QED
  BY <1>1, <1>2, <1>3, <1>4, <1>5, <1>6, <1>7, <1>8, <1>9, <1>10, <1>11,
     <1>12 DEF Next, Work, Network

(* However TCP cuts the stream, between two messages the worker is at a    *)
(* frame boundary and has handed out exactly the payloads before it.       *)
THEOREM FramesAreIntact == Spec => []FramesIntact
<1>1. FrameInv => FramesIntact
  BY DEF FrameInv, FramesIntact, Complete
<1>2. QED
  BY <1>1, InitTypeOK, NextTypeOK, InitFrameInv, NextFrameInv, PTL DEF Spec

-----------------------------------------------------------------------------
(* Time. *)

(* What one select() and s interrupted ones in sockread may take. *)
Allowed(s) == (1 + s) * Timeout

LEMMA AllowedFacts ==
  ASSUME NEW s \in Nat
  PROVE  /\ Allowed(s) \in Nat /\ Allowed(s + 1) = Allowed(s) + Timeout
         /\ Allowed(s) >= Timeout
         /\ Allowed(s + 1) = (2 + s) * Timeout
<1>1. Timeout \in Nat
  BY FramesAssumption
<1>2. (1 + s) * Timeout \in Nat /\ s * Timeout \in Nat
  BY <1>1
<1>3. (1 + s) * Timeout = Timeout + s * Timeout
  BY <1>1
<1>4. (1 + (s + 1)) * Timeout = (1 + s) * Timeout + Timeout
  BY <1>1
<1>5. 1 + (s + 1) = 2 + s
  OBVIOUS
<1>6. QED
  BY <1>1, <1>2, <1>3, <1>4, <1>5 DEF Allowed

(* The header is read without waiting, because select() announced it; the  *)
(* payload waits for one time-out, and for one more after every signal.    *)
SelectClock == place = "select" => elapsed = waited /\ signals = 0
HeaderClock ==
  place = "header" =>
    /\ elapsed <= Allowed(signals)
    /\ got = 0 => Readable
    /\ got > 0 => eod
PayloadClock ==
  place = "payload" =>
    /\ ~eod => elapsed <= Allowed(signals) + waited
    /\ elapsed <= Allowed(signals + 1)
PlaceClock == place \in Working => waited <= Timeout
RestClock == place \in {"idle", "reset"} => elapsed <= Allowed(signals + 1)

ClockInv ==
  SelectClock /\ HeaderClock /\ PayloadClock /\ PlaceClock /\ RestClock

LEMMA InitClockInv == Init => ClockInv
<1> SUFFICES ASSUME Init PROVE ClockInv
  OBVIOUS
<1>1. Allowed(1) \in Nat /\ Allowed(0 + 1) = Allowed(1)
  BY AllowedFacts
<1>2. QED
  BY <1>1 DEF Init, ClockInv, SelectClock, HeaderClock, PayloadClock,
     PlaceClock, RestClock, Working, Reading

LEMMA NextClockInv ==
  ASSUME Timeout > 0, TypeOK, ClockInv, [Next]_vars
  PROVE  ClockInv'
<1> SUFFICES ASSUME EodType, NetType, ClockType, ReadType
             PROVE  ClockInv'
  BY TypeParts
<1> DEFINE Parts == /\ SelectClock' /\ HeaderClock' /\ PayloadClock'
                   /\ PlaceClock' /\ RestClock'
<1> SUFFICES Parts
  BY DEF ClockInv
<1> USE BoundFacts
    DEF netVars, readVars, clockVars, ClockInv, SelectClock, HeaderClock,
        PayloadClock, PlaceClock, RestClock, Working, Reading
<1>0. /\ signals \in Nat /\ waited \in Nat /\ elapsed \in Nat
      /\ Allowed(signals) \in Nat
      /\ Allowed(signals + 1) = Allowed(signals) + Timeout
      /\ Allowed(signals) >= Timeout
      /\ got \in Nat /\ arrived \in Nat /\ consumed \in Nat
      /\ Timeout \in Nat
  <2>1. signals \in Nat /\ waited \in Nat /\ elapsed \in Nat
    BY DEF ClockType
  <2>2. QED
    BY <2>1, AllowedFacts DEF NetType, ReadType
<1>1. CASE WorkEnter
  <2>1. QED
    BY <1>1, <1>0 DEF WorkEnter
<1>2. CASE SelectTimeout
  <2>1. elapsed <= Allowed(signals + 1)
    BY <1>2, <1>0 DEF SelectTimeout
  <2>2. QED
    BY <1>2, <1>0, <2>1 DEF SelectTimeout, LeaveWork
<1>3. CASE SelectReady
  <2>1. elapsed <= Allowed(signals)
    BY <1>3, <1>0 DEF SelectReady
  <2>2. Readable'
    BY <1>3 DEF SelectReady, EnterRead, Readable, Available
  <2>3. QED
    BY <1>3, <1>0, <2>1, <2>2 DEF SelectReady, EnterRead
<1>4. ASSUME NEW n \in 1 .. Total, RecvMore(n) PROVE Parts
  <2>0. got' > 0 /\ waited' = 0
    BY <1>4, <1>0 DEF RecvMore, Recv
  <2>1. eod'
    <3>1. Timeout # 0
      BY <1>0
    <3>2. eod' = (Timeout # 0)
      BY <1>4 DEF RecvMore
    <3>3. QED
      BY <3>1, <3>2
  <2>2. UNCHANGED <<place, elapsed, signals>> /\ place \in Reading
    BY <1>4 DEF RecvMore, Recv
  <2>3. QED
    BY <1>0, <2>0, <2>1, <2>2
<1>5. ASSUME NEW n \in 1 .. Total, RecvHeader(n) PROVE Parts
  <2>1. elapsed <= Allowed(signals) /\ UNCHANGED <<elapsed, signals>>
    BY <1>5 DEF RecvHeader
  <2>2. \/ place' \in {"reset", "idle"}
        \/ place' = "payload" /\ waited' = 0
    BY <1>5 DEF RecvHeader, LeaveWork, EnterRead
  <2>3. QED
    BY <1>0, <2>1, <2>2
<1>6. ASSUME NEW n \in 1 .. Total, RecvPayload(n) PROVE Parts
  BY <1>6, <1>0 DEF RecvPayload, LeaveWork
<1>7. CASE RecvClosed \/ RecvShort \/ RecvTimeout \/ RecvFails
  <2>1. place \in Reading /\ place' = "reset" /\ UNCHANGED <<elapsed, signals>>
    BY <1>7 DEF RecvClosed, RecvShort, RecvTimeout, RecvFails, Reset
  <2>2. QED
    BY <1>0, <2>1
<1>8. CASE Interrupted
  <2>1. signals' = signals + 1 /\ elapsed' = elapsed /\ signals' \in Nat
    BY <1>8, <1>0 DEF Interrupted
  <2>2. Allowed(signals') = Allowed(signals + 1)
        /\ Allowed(signals' + 1) = Allowed(signals') + Timeout
        /\ Allowed(signals') \in Nat
    BY <2>1, AllowedFacts
  <2>3. CASE place = "select"
    BY <1>8, <1>0, <2>1, <2>2, <2>3 DEF Interrupted, LeaveWork
  <2>4. CASE place = "header"
    <3>1. got # 0 /\ UNCHANGED <<place, got, eod>> /\ waited' = 0
      BY <1>8, <2>4 DEF Interrupted
    <3>2. QED
      BY <1>0, <2>1, <2>2, <2>4, <3>1
  <2>5. CASE place = "payload"
    <3>1. UNCHANGED <<place, got, eod>> /\ waited' = 0
      BY <1>8, <2>5 DEF Interrupted
    <3>2. QED
      BY <1>0, <2>1, <2>2, <2>5, <3>1
  <2>6. QED
    BY <1>8, <2>3, <2>4, <2>5 DEF Interrupted
<1>9. ASSUME NEW n \in 1 .. Total - arrived, Arrive(n) PROVE Parts
  <2>1. Readable => Readable'
    BY <1>9, <1>0 DEF Arrive, Readable, Available
  <2>2. UNCHANGED <<place, got, eod, waited, elapsed, signals>>
    BY <1>9 DEF Arrive
  <2>3. QED
    BY <2>1, <2>2
<1>10. CASE PeerClose
  <2>1. Readable'
    BY <1>10 DEF PeerClose, Readable
  <2>2. UNCHANGED <<place, got, eod, waited, elapsed, signals>>
    BY <1>10 DEF PeerClose
  <2>3. QED
    BY <2>1, <2>2
<1>11. CASE Tick
  <2>1. /\ UNCHANGED <<place, got, eod, signals>> /\ ~Readable
        /\ waited' = waited + 1 /\ elapsed' = elapsed + 1
        /\ waited < Patience
    BY <1>11 DEF Tick
  <2>2. place = "select" \/ (place = "payload" /\ ~eod)
    BY <1>11, <2>1, <1>0 DEF Tick, Patience
  <2>3. waited' <= Timeout
    BY <2>1, <2>2, <1>0 DEF Patience
  <2>4. QED
    BY <1>0, <2>1, <2>2, <2>3
<1>12. CASE Terminated \/ UNCHANGED vars
  <2>1. UNCHANGED <<place, got, eod, waited, elapsed, signals, arrived,
                    consumed, peerOpen>>
    BY <1>12 DEF Terminated, vars
  <2>2. Readable' = Readable
    BY <2>1 DEF Readable, Available
  <2>3. QED
    BY <2>1, <2>2
<1>13. QED
  BY <1>1, <1>2, <1>3, <1>4, <1>5, <1>6, <1>7, <1>8, <1>9, <1>10, <1>11,
     <1>12 DEF Next, Work, Network

(* A call of dsvdc_work with a time-out takes at most twice as long, and   *)
(* one time-out longer for every signal that interrupts it.                *)
THEOREM WorkIsBounded == Spec => []WaitBounded
<1>1. ClockInv /\ TypeOK => WaitBounded
  <2> SUFFICES ASSUME ClockInv, ClockType, ReadType, Timeout > 0
               PROVE  elapsed <= (2 + signals) * Timeout
    BY TypeParts DEF WaitBounded
  <2>1. /\ signals \in Nat /\ elapsed \in Nat /\ waited \in Nat
        /\ Timeout \in Nat
    BY BoundFacts DEF ClockType
  <2>2. Allowed(signals + 1) = (2 + signals) * Timeout
    BY <2>1, AllowedFacts
  <2>3. /\ Allowed(signals) \in Nat
        /\ Allowed(signals + 1) = Allowed(signals) + Timeout
        /\ Allowed(signals) >= Timeout
    BY <2>1, AllowedFacts
  <2>4. elapsed <= Allowed(signals + 1)
    BY <2>1, <2>3 DEF ClockInv, SelectClock, HeaderClock, PayloadClock,
       PlaceClock, RestClock, Working, Reading, ReadType
  <2>5. QED
    BY <2>2, <2>4
<1>2. Init => ClockInv /\ TypeOK /\ ReadInv
  BY InitClockInv, InitTypeOK
<1>3. CASE Timeout > 0
  <2>1. ClockInv /\ TypeOK /\ ReadInv /\ [Next]_vars
        => ClockInv' /\ TypeOK' /\ ReadInv'
    BY <1>3, NextClockInv, NextTypeOK
  <2>2. QED
    BY <1>1, <1>2, <2>1, PTL DEF Spec
<1>4. CASE ~(Timeout > 0)
  <2>1. WaitBounded /\ WaitBounded'
    BY <1>4 DEF WaitBounded
  <2>2. QED
    BY <2>1, PTL
<1>5. QED
  BY <1>3, <1>4
=============================================================================
