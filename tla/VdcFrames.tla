------------------------------ MODULE VdcFrames ------------------------------
(***************************************************************************)
(* How dsvdc_work cuts the byte stream of the vdSM into messages: a frame  *)
(* is a two-byte length and that many bytes of payload, read by two calls  *)
(* of sockread(), each of which loops over select() and recv().            *)
(*                                                                         *)
(* Bytes are identified by their position in the stream the vdSM means to  *)
(* send, TCP delivers them in pieces of any size, and time passes in units *)
(* while the worker waits.  The quirk of sockread() is kept: once one      *)
(* recv() returned something, the next select() does not wait any more     *)
(* ("eod"), unless the time-out is zero, in which case it waits for ever.  *)
(***************************************************************************)
EXTENDS Integers, Sequences

CONSTANTS
  Sizes,       \* payload sizes of the frames the vdSM sends on a connection;
               \* MaxDataSize + 1 stands for every size that is too large
  Start,       \* Start[k]: position of the first byte of frame k
  MaxDataSize, \* MAX_DATA_SIZE
  Timeout,     \* argument of dsvdc_work, in units of time
  MaxSignals   \* bound: signals that interrupt one call of dsvdc_work

Header == 2    \* sizeof(uint16_t)
Frames == 1 .. Len(Sizes)
Total == Start[Len(Sizes) + 1]

ASSUME FramesAssumption ==
  /\ MaxDataSize \in Nat
  /\ Sizes \in Seq(0 .. MaxDataSize + 1)
  /\ Timeout \in Nat
  /\ MaxSignals \in Nat

ASSUME StartAssumption ==
  /\ Start \in [1 .. Len(Sizes) + 1 -> Nat]
  /\ Start[1] = 0
  /\ \A k \in Frames : Start[k + 1] = Start[k] + Header + Sizes[k]

(* Follows by induction; stated here because the proofs cannot make it. *)
ASSUME StartIncreases ==
  \A j, k \in DOMAIN Start : j < k => Start[j] + Header + Sizes[j] <= Start[k]

VARIABLES
  arrived,   \* bytes the kernel has received
  peerOpen,  \* the vdSM has not closed the connection
  consumed,  \* bytes recv() has returned
  place,     \* where the worker is
  got,       \* bytes_total of the current sockread
  size,      \* the length field, as decoded
  eod,       \* sockread's eod
  waited,    \* time spent in the current select()
  elapsed,   \* time since dsvdc_work was entered
  signals,   \* signals that interrupted this call of dsvdc_work
  payloads,  \* stream intervals handed to dsvdc_process_message
  why        \* reason of a reset

netVars   == <<arrived, peerOpen>>
readVars  == <<got, eod, waited>>
clockVars == <<elapsed, signals>>
vars == <<netVars, consumed, place, readVars, size, clockVars, payloads, why>>

Reading == {"header", "payload"}
Working == {"select"} \cup Reading

(* The buffer the current sockread fills: the length field or the payload. *)
Buffer == IF place = "header" THEN Header ELSE size

(* In particular recv() never writes behind the end of its buffer. *)
TypeOK ==
  /\ arrived \in 0 .. Total /\ consumed \in 0 .. arrived
  /\ peerOpen \in BOOLEAN /\ eod \in BOOLEAN
  /\ place \in {"idle", "reset"} \cup Working
  /\ size \in 0 .. MaxDataSize + 1
  /\ got \in Nat /\ (place \in Reading => got < Buffer)
  /\ waited \in Nat /\ elapsed \in Nat
  /\ signals \in 0 .. MaxSignals
  /\ payloads \subseteq (0 .. Total) \X (0 .. Total)
  /\ why \in {"none", "closed", "oversized", "short", "timeout", "error"}

Init ==
  /\ arrived = 0 /\ consumed = 0
  /\ peerOpen = TRUE
  /\ place = "idle"
  /\ got = 0 /\ size = 0 /\ eod = FALSE
  /\ waited = 0 /\ elapsed = 0 /\ signals = 0
  /\ payloads = {}
  /\ why = "none"

-----------------------------------------------------------------------------
(* The vdSM and the network. *)

Arrive(n) ==
  /\ peerOpen /\ place # "reset"
  /\ arrived' = arrived + n
  /\ UNCHANGED <<peerOpen, consumed, place, readVars, size, clockVars,
                 payloads, why>>

PeerClose ==
  /\ peerOpen /\ place # "reset"
  /\ peerOpen' = FALSE
  /\ UNCHANGED <<arrived, consumed, place, readVars, size, clockVars, payloads,
                 why>>

-----------------------------------------------------------------------------
(* dsvdc_work and sockread. *)

Available == arrived - consumed
Readable == Available > 0 \/ ~peerOpen

(* Slip: recv() is offered the whole length again after a partial read. *)
WantWhole == Buffer

(* What the current sockread call still has to read. *)
Want == Buffer - got

(* Slip: every select() of sockread waits for the full time-out. *)
PatienceAlways == IF place # "select" /\ Timeout = 0 THEN -1 ELSE Timeout

(* Slip: sockread is called without a time-out. *)
PatienceForever == IF place = "select" THEN Timeout ELSE -1

(* How long the current select() may wait; -1 stands for ever. *)
Patience ==
  IF place = "select" THEN Timeout
  ELSE IF Timeout = 0 THEN -1
  ELSE IF eod THEN 0 ELSE Timeout

(* Entering sockread: nothing read, nothing waited for. *)
EnterRead(p) == place' = p /\ got' = 0 /\ eod' = FALSE /\ waited' = 0

LeaveWork == place' = "idle" /\ got' = 0 /\ eod' = FALSE /\ waited' = 0

Reset(reason) ==
  /\ place' = "reset" /\ why' = reason
  /\ UNCHANGED <<netVars, consumed, readVars, size, clockVars, payloads>>

WorkEnter ==
  /\ place = "idle"
  /\ place' = "select" /\ waited' = 0
  /\ elapsed' = 0 /\ signals' = 0
  /\ UNCHANGED <<netVars, consumed, got, eod, size, payloads, why>>

SelectTimeout ==
  /\ place = "select" /\ ~Readable /\ waited = Patience
  /\ LeaveWork
  /\ UNCHANGED <<netVars, consumed, size, clockVars, payloads, why>>

SelectReady ==
  /\ place = "select" /\ Readable
  /\ EnterRead("header")
  /\ UNCHANGED <<netVars, consumed, size, clockVars, payloads, why>>

(* EINTR: dsvdc_work returns, sockread starts waiting anew. *)
Interrupted ==
  /\ place \in Working /\ ~Readable
  /\ signals < MaxSignals
  /\ signals' = signals + 1
  /\ IF place = "select" THEN LeaveWork
                         ELSE waited' = 0 /\ UNCHANGED <<place, got, eod>>
  /\ UNCHANGED <<netVars, consumed, size, elapsed, payloads, why>>

(* recv() returned n bytes. *)
Recv(n) ==
  /\ place \in Reading
  /\ n \in 1 .. Want /\ n <= Available
  /\ consumed' = consumed + n

RecvMore(n) ==
  /\ Recv(n) /\ n < Want
  /\ got' = got + n
  /\ eod' = (Timeout # 0)
  /\ waited' = 0
  /\ UNCHANGED <<netVars, place, size, clockVars, payloads, why>>

(* ntohs of the two bytes just read: a frame's size if they are its header, *)
(* anything if they are not.                                               *)
Decoded ==
  LET first == consumed - got
  IN IF \E k \in Frames : Start[k] = first
       THEN {Sizes[k] : k \in {j \in Frames : Start[j] = first}}
       ELSE 0 .. MaxDataSize + 1

(* The length is complete: reset, skip an empty frame, or read the payload. *)
RecvHeader(n) ==
  /\ place = "header" /\ Recv(n) /\ n = Want
  /\ size' \in Decoded
  /\ IF size' > MaxDataSize
       THEN place' = "reset" /\ why' = "oversized" /\ UNCHANGED readVars
       ELSE /\ IF size' = 0 THEN LeaveWork ELSE EnterRead("payload")
            /\ UNCHANGED why
  /\ UNCHANGED <<netVars, clockVars, payloads>>

RecvPayload(n) ==
  /\ place = "payload" /\ Recv(n) /\ n = Want
  /\ payloads' = payloads \cup {<<consumed + n - size, consumed + n>>}
  /\ LeaveWork
  /\ UNCHANGED <<netVars, size, clockVars, why>>

RecvClosed ==
  /\ place \in Reading /\ Available = 0 /\ ~peerOpen
  /\ Reset("closed")

(* Slip: what was read so far is taken for the whole payload. *)
RecvShortAccepted ==
  /\ place \in Reading /\ ~Readable /\ eod
  /\ payloads' = payloads \cup {<<consumed - got, consumed>>}
  /\ LeaveWork
  /\ UNCHANGED <<netVars, consumed, size, clockVars, why>>

(* The data dried up after the first piece: sockread returns socket_ok with *)
(* too few bytes, and dsvdc_work resets the connection.                    *)
RecvShort ==
  /\ place \in Reading /\ ~Readable /\ eod
  /\ Reset("short")

RecvTimeout ==
  /\ place \in Reading /\ ~Readable /\ ~eod /\ waited = Patience
  /\ Reset("timeout")

(* recv(), select() or malloc() failed. *)
RecvFails ==
  /\ place \in Reading
  /\ Reset("error")

Tick ==
  /\ place \in Working
  /\ ~Readable /\ Patience # -1 /\ waited < Patience
  /\ waited' = waited + 1
  /\ elapsed' = elapsed + 1
  /\ UNCHANGED <<netVars, consumed, place, got, eod, size, signals, payloads,
                 why>>

Terminated == place = "reset" /\ UNCHANGED vars

-----------------------------------------------------------------------------
Work ==
  \/ SelectTimeout \/ SelectReady
  \/ \E n \in 1 .. Total : RecvMore(n) \/ RecvHeader(n) \/ RecvPayload(n)
  \/ RecvClosed \/ RecvShort \/ RecvTimeout

Network ==
  \/ \E n \in 1 .. Total - arrived : Arrive(n)
  \/ PeerClose

Next ==
  \/ WorkEnter \/ Work \/ Interrupted \/ RecvFails
  \/ Network \/ Tick \/ Terminated

Spec == Init /\ [][Next]_vars

(* A call of dsvdc_work runs on and time passes.  Nothing is assumed of the *)
(* vdSM, no system call has to fail and the next call need not come.       *)
FairSpec == Spec /\ WF_vars(Work) /\ WF_vars(Tick)

-----------------------------------------------------------------------------
(* Properties. *)

(* Between two messages the reader is at a frame boundary, and what it has *)
(* handed out are the payloads of all frames up to there, whole and        *)
(* unmixed, however TCP cut them.                                          *)
FramesIntact ==
  place \in {"idle", "select"} =>
    /\ \E k \in 1 .. Len(Sizes) + 1 : consumed = Start[k]
    /\ payloads = {<<Start[k] + Header, Start[k + 1]>> :
           k \in {j \in Frames : Sizes[j] > 0 /\ Start[j + 1] <= consumed}}

(* dsvdc.h on the timeout of dsvdc_work: "actually spent time may be two   *)
(* times higher than specified".  Every signal that interrupts sockread    *)
(* adds one more time-out, since the wait starts anew.                     *)
WaitBounded == Timeout > 0 => elapsed <= (2 + signals) * Timeout

(* dsvdc_work with a time-out comes back although the vdSM stops in the    *)
(* middle of a frame, so that the handle mutex is not held for ever.       *)
WorkReturns == place \in Working ~> place \in {"idle", "reset"}

(* The comment on the reset in dsvdc_work: "if data packet length could    *)
(* not be read, or the data is too big (i.e. protocol got out of sync or   *)
(* someone is messing with us), then reset the connection".  So a vdSM     *)
(* whose frames are all well-formed and which is neither closed nor slow   *)
(* is not cut off.                                                         *)
ResetHasCause ==
  place = "reset" =>
    why \in {"closed", "error", "timeout"} \/ size > MaxDataSize
=============================================================================
