------------------------- MODULE LibusbDriverProofs -------------------------
(***************************************************************************)
(* Proofs about LibusbDriver for every chunk size, any number of sessions, *)
(* bytes and failures: its buffer belongs to libusb exactly while a        *)
(* transfer is pending, it makes up no error, and it implements UsbDriver. *)
(***************************************************************************)
EXTENDS LibusbDriver, SequenceTheorems, TLAPS

USE DEF lockedVars, transferVars, historyVars, vars

\* The parts of TypeOK.
Flags ==
    /\ handle \in BOOLEAN /\ stopping \in BOOLEAN /\ cancelRequested \in BOOLEAN
    /\ readPending \in BOOLEAN /\ readComplete \in BOOLEAN
    /\ drained \in BOOLEAN

Places ==
    /\ readError \in {None, "cancel", "events", "submit", "status"}
    /\ transfer \in {"none", "flying", "cancelling", "done"}
    /\ status \in {"completed", "error", "cancelled"}
    /\ reader \in {"none", "ready", "read", "events"}
    /\ caller \in {"closed", "idle", "out", "join", "drain", "drainEvents",
                   "close", "closing"}

Numbers ==
    /\ readLength \in 0..ChunkBytes
    /\ landed \in 0..ChunkBytes
    /\ received \in 0..MaxBytes
    /\ sessions \in 0..MaxSessions /\ failures \in 0..MaxFailures

Bytes == readBuffer \in Seq(Nat) /\ taken \in Seq(Nat)

\* Where the threads are tells the state of the session.
PlaceInv ==
    /\ handle <=> caller # "closed"
    /\ stopping <=> caller \notin {"idle", "out"}
    /\ reader # "none" => caller \in {"idle", "out", "join"}
    /\ readComplete => handle
    /\ ~handle => readError = None

\* An error has a cause.
CauseInv ==
    /\ failures = 0 => readError = None
    /\ failures = 0 /\ transfer = "done" => status # "error"
    /\ transfer = "cancelling" => stopping
    /\ transfer = "done" /\ status = "cancelled" => stopping

\* What landed lies in the buffer.
LengthInv ==
    /\ transfer # "none" => landed <= Len(readBuffer)
    /\ readComplete => readLength <= Len(readBuffer)

\* How many received bytes the buffer holds for the caller.
Held ==
    IF transfer # "none" THEN landed ELSE IF readComplete THEN readLength ELSE 0

\* Until an error, received bytes are handed over or in the buffer, in order.
StreamInv ==
    /\ taken = Promise!Stream(Len(taken))
    /\ readError = None =>
          /\ received = Len(taken) + Held
          /\ \A i \in 1..Held : readBuffer[i] = Len(taken) + i

\* Where the stream begins and ends.
EndInv ==
    /\ caller = "closed" => received = 0 /\ taken = <<>> /\ ~drained
    /\ drained => caller \in {"close", "closing"}
    /\ drained /\ readError = None => transfer = "none" /\ ~readComplete

IInv ==
    /\ TypeOK
    /\ BufferOwnership /\ PlaceInv /\ CauseInv
    /\ LengthInv /\ StreamInv /\ EndInv

-----------------------------------------------------------------------------
\* Sequences.

\* A byte lands behind the first m of a buffer.
LEMMA Landed ==
  ASSUME NEW b \in Seq(Nat), NEW m \in Nat, m <= Len(b), NEW x \in Nat
  PROVE  /\ Append(SubSeq(b, 1, m), x) \in Seq(Nat)
         /\ Len(Append(SubSeq(b, 1, m), x)) = m + 1
         /\ \A i \in 1..m : Append(SubSeq(b, 1, m), x)[i] = b[i]
         /\ Append(SubSeq(b, 1, m), x)[m + 1] = x
<1>1. SubSeq(b, 1, m) \in Seq(Nat) /\ Len(SubSeq(b, 1, m)) = m
  OBVIOUS
<1>2. \A i \in 1..m : SubSeq(b, 1, m)[i] = b[i]
  OBVIOUS
<1> QED
  BY <1>1, <1>2

\* A stream goes on with the bytes that follow it.
LEMMA Continued ==
  ASSUME NEW n \in Nat, NEW b \in Seq(Nat), NEW m \in Nat, m <= Len(b),
         \A i \in 1..m : b[i] = n + i
  PROVE  Promise!Stream(n) \o SubSeq(b, 1, m) = Promise!Stream(n + m)
<1> DEFINE s == Promise!Stream(n)
           u == SubSeq(b, 1, m)
           t == s \o u
           r == Promise!Stream(n + m)
<1>1. s \in Seq(Nat) /\ Len(s) = n /\ \A i \in 1..n : s[i] = i
  BY DEF Promise!Stream
<1>2. u \in Seq(Nat) /\ Len(u) = m /\ \A i \in 1..m : u[i] = b[i]
  OBVIOUS
<1>3. r \in Seq(Nat) /\ Len(r) = n + m /\ \A i \in 1..n + m : r[i] = i
  BY DEF Promise!Stream
<1> HIDE DEF s, u, r
<1>4. /\ t \in Seq(Nat) /\ Len(t) = Len(s) + Len(u)
     /\ \A i \in 1..Len(s) + Len(u) : t[i] = IF i <= Len(s) THEN s[i] ELSE u[i - Len(s)]
  BY <1>1, <1>2, ConcatProperties, Zenon
<1> HIDE DEF t
<1>5. /\ t \in Seq(Nat) /\ Len(t) = n + m
      /\ \A i \in 1..n + m : t[i] = IF i <= n THEN s[i] ELSE u[i - n]
  BY <1>1, <1>2, <1>4
<1>6. \A i \in 1..n + m : t[i] = i
  <2> TAKE i \in 1..n + m
  <2>1. CASE i <= n
    BY <1>1, <1>5, <2>1
  <2>2. CASE i > n
    <3>1. i - n \in 1..m
      BY <2>2
    <3>2. t[i] = u[i - n]
      BY <1>5, <2>2
    <3>3. u[i - n] = b[i - n]
      BY <1>2, <3>1
    <3>4. b[i - n] = n + (i - n)
      BY <3>1
    <3>5. n + (i - n) = i
      OBVIOUS
    <3> QED
      BY <3>2, <3>3, <3>4, <3>5
  <2> QED
    BY <2>1, <2>2
<1>7. t = r
  BY <1>3, <1>5, <1>6, SeqEqual
<1> QED
  BY <1>7 DEF s, t, u, r

-----------------------------------------------------------------------------
\* The bytes a thread copies out are the next of the stream.
LEMMA CopiedInOrder ==
  ASSUME Bytes, Numbers, LengthInv, StreamInv, BufferOwnership, Places,
         Completed, CopyOut
  PROVE  /\ taken' = Promise!Stream(received)
         /\ taken' \in Seq(Nat) /\ Len(taken') = received
         /\ received = Len(taken) + readLength
<1>1. /\ Len(taken) \in Nat /\ readLength \in Nat
      /\ readLength <= Len(readBuffer) /\ readBuffer \in Seq(Nat)
      /\ readError = None /\ readComplete /\ Held = readLength
  BY DEF Bytes, Numbers, LengthInv, Completed, Held, BufferOwnership
<1>2. /\ received = Len(taken) + readLength
      /\ \A i \in 1..readLength : readBuffer[i] = Len(taken) + i
      /\ taken = Promise!Stream(Len(taken))
  BY <1>1 DEF StreamInv
<1>3. taken' = Promise!Stream(received)
  <2>1. Promise!Stream(Len(taken)) \o SubSeq(readBuffer, 1, readLength)
          = Promise!Stream(received)
    BY <1>1, <1>2, Continued
  <2> QED
    BY <1>2, <2>1 DEF CopyOut
<1>4. Promise!Stream(received) \in Seq(Nat) /\ Len(Promise!Stream(received)) = received
  BY DEF Numbers, Promise!Stream
<1> QED
  BY <1>2, <1>3, <1>4

-----------------------------------------------------------------------------
\* Every step keeps every part of the invariant.

\* The flags are Booleans.
LEMMA FlagsStep ==
  ASSUME Flags, Places, Numbers, Bytes, BufferOwnership, PlaceInv, CauseInv,
         LengthInv, StreamInv, EndInv, Next
  PROVE  Flags'
<1>1. CASE NewCall
  BY <1>1, DriverAssumption, ZenonT(20)
  DEF Flags, NewCall, Open, SubmitWorks, OpenFails, Failure, WriteBegins,
      Quiet, Cancel, CancelTransfer, CancelOnly
<1>2. CASE Caller
  BY <1>2, DriverAssumption, ZenonT(20)
  DEF Flags, Caller, WriteDispatches, Dispatch, CompletionError, WriteReturns,
      Quiet, Join, DrainTakes, Completed, CopyOut, TakeOnly, DrainReturns,
      Exhausted, MustWait, DrainEvents, EventsFail, Failure, CloseBegins,
      CancelTransfer, CancelOnly, CloseWaits, CloseEnds
<1>3. CASE Reader
  BY <1>3, DriverAssumption, ZenonT(20)
  DEF Flags, Reader, ReaderEnters, StopRequested, Quiet, ReaderTakes,
      Completed, SubmitWorks, SubmitFails, Failure, CopyOut, TakeOnly,
      ReaderReturns, Exhausted, MustWait, ReaderEvents, Dispatch,
      CompletionError, EventsFail
<1>4. CASE Bus
  BY <1>4, DriverAssumption, ZenonT(20)
  DEF Flags, Bus, Land, InFlight, RequestedBytes, TransferEnds, TransferFails,
      Failure, TransferCancelled
<1> QED
  BY <1>1, <1>2, <1>3, <1>4 DEF Next

\* The threads and the transfer are in known places.
LEMMA PlacesStep ==
  ASSUME Flags, Places, Numbers, Bytes, BufferOwnership, PlaceInv, CauseInv,
         LengthInv, StreamInv, EndInv, Next
  PROVE  Places'
<1>1. CASE NewCall
  BY <1>1, DriverAssumption, SMTT(20)
  DEF Places, NewCall, Open, SubmitWorks, OpenFails, Failure, WriteBegins,
      Quiet, Cancel, CancelTransfer, CancelOnly
<1>2. CASE Caller
  BY <1>2, DriverAssumption, SMTT(20)
  DEF Places, Caller, WriteDispatches, Dispatch, CompletionError, WriteReturns,
      Quiet, Join, DrainTakes, Completed, CopyOut, TakeOnly, DrainReturns,
      Exhausted, MustWait, DrainEvents, EventsFail, Failure, CloseBegins,
      CancelTransfer, CancelOnly, CloseWaits, CloseEnds
<1>3. CASE Reader
  BY <1>3, DriverAssumption, SMTT(20)
  DEF Places, Reader, ReaderEnters, StopRequested, Quiet, ReaderTakes,
      Completed, SubmitWorks, SubmitFails, Failure, CopyOut, TakeOnly,
      ReaderReturns, Exhausted, MustWait, ReaderEvents, Dispatch,
      CompletionError, EventsFail
<1>4. CASE Bus
  BY <1>4, DriverAssumption, SMTT(20)
  DEF Places, Bus, Land, InFlight, RequestedBytes, TransferEnds, TransferFails,
      Failure, TransferCancelled
<1> QED
  BY <1>1, <1>2, <1>3, <1>4 DEF Next

\* The counters keep their bounds.
LEMMA NumbersStep ==
  ASSUME Flags, Places, Numbers, Bytes, BufferOwnership, PlaceInv, CauseInv,
         LengthInv, StreamInv, EndInv, Next
  PROVE  Numbers'
<1>1. CASE NewCall
  BY <1>1, DriverAssumption, SMTT(20)
  DEF Numbers, NewCall, Open, SubmitWorks, OpenFails, Failure, WriteBegins,
      Quiet, Cancel, CancelTransfer, CancelOnly
<1>2. CASE Caller
  BY <1>2, DriverAssumption, SMTT(20)
  DEF Numbers, Caller, WriteDispatches, Dispatch, CompletionError,
      WriteReturns, Quiet, Join, DrainTakes, Completed, CopyOut, TakeOnly,
      DrainReturns, Exhausted, MustWait, DrainEvents, EventsFail, Failure,
      CloseBegins, CancelTransfer, CancelOnly, CloseWaits, CloseEnds
<1>3. CASE Reader
  BY <1>3, DriverAssumption, SMTT(20)
  DEF Numbers, Reader, ReaderEnters, StopRequested, Quiet, ReaderTakes,
      Completed, SubmitWorks, SubmitFails, Failure, CopyOut, TakeOnly,
      ReaderReturns, Exhausted, MustWait, ReaderEvents, Dispatch,
      CompletionError, EventsFail
<1>4. CASE Bus
  BY <1>4, DriverAssumption, SMTT(20)
  DEF Numbers, Bus, Land, InFlight, RequestedBytes, TransferEnds,
      TransferFails, Failure, TransferCancelled
<1> QED
  BY <1>1, <1>2, <1>3, <1>4 DEF Next

\* The buffer stays with its owner.
LEMMA BufferOwnershipStep ==
  ASSUME Flags, Places, Numbers, Bytes, BufferOwnership, PlaceInv, CauseInv,
         LengthInv, StreamInv, EndInv, Next
  PROVE  BufferOwnership'
<1>1. CASE NewCall
  BY <1>1, DriverAssumption, SMTT(20)
  DEF BufferOwnership, PlaceInv, Places, NewCall, Open, SubmitWorks, OpenFails,
      Failure, WriteBegins, Quiet, Cancel, CancelTransfer, CancelOnly
<1>2. CASE Caller
  BY <1>2, DriverAssumption, SMTT(20)
  DEF BufferOwnership, PlaceInv, Places, Caller, WriteDispatches, Dispatch,
      CompletionError, WriteReturns, Quiet, Join, DrainTakes, Completed,
      CopyOut, TakeOnly, DrainReturns, Exhausted, MustWait, DrainEvents,
      EventsFail, Failure, CloseBegins, CancelTransfer, CancelOnly, CloseWaits,
      CloseEnds
<1>3. CASE Reader
  BY <1>3, DriverAssumption, SMTT(20)
  DEF BufferOwnership, PlaceInv, Places, Reader, ReaderEnters, StopRequested,
      Quiet, ReaderTakes, Completed, SubmitWorks, SubmitFails, Failure,
      CopyOut, TakeOnly, ReaderReturns, Exhausted, MustWait, ReaderEvents,
      Dispatch, CompletionError, EventsFail
<1>4. CASE Bus
  BY <1>4, DriverAssumption, SMTT(20)
  DEF BufferOwnership, PlaceInv, Places, Bus, Land, InFlight, RequestedBytes,
      TransferEnds, TransferFails, Failure, TransferCancelled
<1> QED
  BY <1>1, <1>2, <1>3, <1>4 DEF Next

\* The session follows its caller.
LEMMA PlaceInvStep ==
  ASSUME Flags, Places, Numbers, Bytes, BufferOwnership, PlaceInv, CauseInv,
         LengthInv, StreamInv, EndInv, Next
  PROVE  PlaceInv'
<1>1. CASE NewCall
  BY <1>1, DriverAssumption, SMTT(20)
  DEF PlaceInv, BufferOwnership, Places, NewCall, Open, SubmitWorks, OpenFails,
      Failure, WriteBegins, Quiet, Cancel, CancelTransfer, CancelOnly
<1>2. CASE Caller
  BY <1>2, DriverAssumption, SMTT(20)
  DEF PlaceInv, BufferOwnership, Places, Caller, WriteDispatches, Dispatch,
      CompletionError, WriteReturns, Quiet, Join, DrainTakes, Completed,
      CopyOut, TakeOnly, DrainReturns, Exhausted, MustWait, DrainEvents,
      EventsFail, Failure, CloseBegins, CancelTransfer, CancelOnly, CloseWaits,
      CloseEnds
<1>3. CASE Reader
  BY <1>3, DriverAssumption, SMTT(20)
  DEF PlaceInv, BufferOwnership, Places, Reader, ReaderEnters, StopRequested,
      Quiet, ReaderTakes, Completed, SubmitWorks, SubmitFails, Failure,
      CopyOut, TakeOnly, ReaderReturns, Exhausted, MustWait, ReaderEvents,
      Dispatch, CompletionError, EventsFail
<1>4. CASE Bus
  BY <1>4, DriverAssumption, SMTT(20)
  DEF PlaceInv, BufferOwnership, Places, Bus, Land, InFlight, RequestedBytes,
      TransferEnds, TransferFails, Failure, TransferCancelled
<1> QED
  BY <1>1, <1>2, <1>3, <1>4 DEF Next

\* An error needs a cause.
LEMMA CauseInvStep ==
  ASSUME Flags, Places, Numbers, Bytes, BufferOwnership, PlaceInv, CauseInv,
         LengthInv, StreamInv, EndInv, Next
  PROVE  CauseInv'
<1>1. CASE NewCall
  BY <1>1, DriverAssumption, SMTT(20)
  DEF CauseInv, BufferOwnership, PlaceInv, Places, Numbers, NewCall, Open,
      SubmitWorks, OpenFails, Failure, WriteBegins, Quiet, Cancel,
      CancelTransfer, CancelOnly
<1>2. CASE Caller
  BY <1>2, DriverAssumption, SMTT(20)
  DEF CauseInv, BufferOwnership, PlaceInv, Places, Numbers, Caller,
      WriteDispatches, Dispatch, CompletionError, WriteReturns, Quiet, Join,
      DrainTakes, Completed, CopyOut, TakeOnly, DrainReturns, Exhausted,
      MustWait, DrainEvents, EventsFail, Failure, CloseBegins, CancelTransfer,
      CancelOnly, CloseWaits, CloseEnds
<1>3. CASE Reader
  BY <1>3, DriverAssumption, SMTT(20)
  DEF CauseInv, BufferOwnership, PlaceInv, Places, Numbers, Reader,
      ReaderEnters, StopRequested, Quiet, ReaderTakes, Completed, SubmitWorks,
      SubmitFails, Failure, CopyOut, TakeOnly, ReaderReturns, Exhausted,
      MustWait, ReaderEvents, Dispatch, CompletionError, EventsFail
<1>4. CASE Bus
  BY <1>4, DriverAssumption, SMTT(20)
  DEF CauseInv, BufferOwnership, PlaceInv, Places, Numbers, Bus, Land,
      InFlight, RequestedBytes, TransferEnds, TransferFails, Failure,
      TransferCancelled
<1> QED
  BY <1>1, <1>2, <1>3, <1>4 DEF Next

\* What landed stays in the buffer.
LEMMA LengthInvStep ==
  ASSUME Flags, Places, Numbers, Bytes, BufferOwnership, PlaceInv, CauseInv,
         LengthInv, StreamInv, EndInv, Next
  PROVE  LengthInv'
<1>1. CASE NewCall
  BY <1>1, DriverAssumption, SMTT(20)
  DEF LengthInv, BufferOwnership, PlaceInv, Places, Numbers, Bytes, NewCall,
      Open, SubmitWorks, OpenFails, Failure, WriteBegins, Quiet, Cancel,
      CancelTransfer, CancelOnly
<1>2. CASE Caller
  BY <1>2, DriverAssumption, SMTT(20)
  DEF LengthInv, BufferOwnership, PlaceInv, Places, Numbers, Bytes, Caller,
      WriteDispatches, Dispatch, CompletionError, WriteReturns, Quiet, Join,
      DrainTakes, Completed, CopyOut, TakeOnly, DrainReturns, Exhausted,
      MustWait, DrainEvents, EventsFail, Failure, CloseBegins, CancelTransfer,
      CancelOnly, CloseWaits, CloseEnds
<1>3. CASE Reader
  BY <1>3, DriverAssumption, SMTT(20)
  DEF LengthInv, BufferOwnership, PlaceInv, Places, Numbers, Bytes, Reader,
      ReaderEnters, StopRequested, Quiet, ReaderTakes, Completed, SubmitWorks,
      SubmitFails, Failure, CopyOut, TakeOnly, ReaderReturns, Exhausted,
      MustWait, ReaderEvents, Dispatch, CompletionError, EventsFail
<1>4. CASE Bus
  BY <1>4, DriverAssumption, SMTT(20)
  DEF LengthInv, BufferOwnership, PlaceInv, Places, Numbers, Bytes, Bus, Land,
      InFlight, RequestedBytes, TransferEnds, TransferFails, Failure,
      TransferCancelled
<1> QED
  BY <1>1, <1>2, <1>3, <1>4 DEF Next

\* The stream begins empty and ends complete.
LEMMA EndInvStep ==
  ASSUME Flags, Places, Numbers, Bytes, BufferOwnership, PlaceInv, CauseInv,
         LengthInv, StreamInv, EndInv, Next
  PROVE  EndInv'
<1>1. CASE NewCall
  BY <1>1, DriverAssumption, SMTT(20)
  DEF EndInv, BufferOwnership, PlaceInv, Places, Numbers, Completed, NewCall,
      Open, SubmitWorks, OpenFails, Failure, WriteBegins, Quiet, Cancel,
      CancelTransfer, CancelOnly
<1>2. CASE Caller
  <2>1. CASE DrainTakes
    <3>1. caller = "drain" /\ caller' \in {"drain", "close"} /\ transfer = "none"
          /\ transfer' = transfer /\ readComplete' = FALSE /\ UNCHANGED readError
      BY <2>1 DEF DrainTakes, Completed, BufferOwnership
    <3>2. drained' => caller' = "close"
      BY <2>1 DEF DrainTakes
    <3> QED
      BY <3>1, <3>2 DEF EndInv
  <2>2. CASE Caller /\ ~DrainTakes
    BY <2>2, DriverAssumption, SMTT(20)
    DEF EndInv, BufferOwnership, PlaceInv, Places, Numbers, Completed, Caller,
        WriteDispatches, Dispatch, CompletionError, WriteReturns, Quiet, Join,
        DrainReturns, Exhausted, MustWait, DrainEvents, EventsFail, Failure,
        CloseBegins, CancelTransfer, CancelOnly, CloseWaits, CloseEnds
  <2> QED
    BY <1>2, <2>1, <2>2
<1>3. CASE Reader
  BY <1>3, DriverAssumption, SMTT(20)
  DEF EndInv, BufferOwnership, PlaceInv, Places, Numbers, Completed, Reader,
      ReaderEnters, StopRequested, Quiet, ReaderTakes, Completed, SubmitWorks,
      SubmitFails, Failure, CopyOut, TakeOnly, ReaderReturns, Exhausted,
      MustWait, ReaderEvents, Dispatch, CompletionError, EventsFail
<1>4. CASE Bus
  BY <1>4, DriverAssumption, SMTT(20)
  DEF EndInv, BufferOwnership, PlaceInv, Places, Numbers, Completed, Bus, Land,
      InFlight, RequestedBytes, TransferEnds, TransferFails, Failure,
      TransferCancelled
<1> QED
  BY <1>1, <1>2, <1>3, <1>4 DEF Next

\* The buffers hold bytes.
LEMMA BytesStep ==
  ASSUME Flags, Places, Numbers, Bytes, BufferOwnership, PlaceInv, CauseInv,
         LengthInv, StreamInv, EndInv, Next
  PROVE  Bytes'
<1>1. CASE Land
  <2>1. landed \in Nat /\ received + 1 \in Nat /\ landed <= Len(readBuffer)
        /\ readBuffer \in Seq(Nat) /\ UNCHANGED taken
    BY <1>1 DEF Land, InFlight, Numbers, LengthInv, Bytes
  <2>2. Append(SubSeq(readBuffer, 1, landed), received + 1) \in Seq(Nat)
    BY <2>1, Landed
  <2> QED
    BY <1>1, <2>1, <2>2 DEF Land, Bytes
<1>2. CASE Completed /\ CopyOut /\ (ReaderTakes \/ DrainTakes)
  BY <1>2, CopiedInOrder DEF ReaderTakes, DrainTakes, TakeOnly, Bytes
<1>3. CASE CloseEnds
  BY <1>3 DEF CloseEnds, Bytes
<1>4. CASE UNCHANGED <<readBuffer, taken>>
  BY <1>4 DEF Bytes
<1>5. Caller => \/ Completed /\ CopyOut /\ DrainTakes
                \/ CloseEnds \/ UNCHANGED <<readBuffer, taken>>
  BY DEF Caller, WriteDispatches, Dispatch, CompletionError, WriteReturns,
         Quiet, Join, DrainTakes, Completed, TakeOnly, DrainReturns, Exhausted,
         MustWait, DrainEvents, EventsFail, Failure, CloseBegins,
         CancelTransfer, CancelOnly, CloseWaits
<1>6. Reader => \/ Completed /\ CopyOut /\ ReaderTakes
                \/ UNCHANGED <<readBuffer, taken>>
  BY DEF Reader, ReaderEnters, StopRequested, Quiet, ReaderTakes, Completed,
         SubmitWorks, SubmitFails, Failure, TakeOnly, ReaderReturns, Exhausted,
         MustWait, ReaderEvents, Dispatch, CompletionError, EventsFail
<1>7. Bus => Land \/ UNCHANGED <<readBuffer, taken>>
  BY DEF Bus, TransferEnds, TransferFails, TransferCancelled
<1>8. NewCall => UNCHANGED <<readBuffer, taken>>
  BY DEF NewCall, Open, SubmitWorks, OpenFails, Failure, WriteBegins, Quiet,
         Cancel, CancelTransfer, CancelOnly
<1> QED
  BY <1>1, <1>2, <1>3, <1>4, <1>5, <1>6, <1>7, <1>8 DEF Next

\* Bytes are handed over once and in order.
LEMMA StreamStep ==
  ASSUME Flags, Places, Numbers, Bytes, BufferOwnership, PlaceInv, CauseInv,
         LengthInv, StreamInv, EndInv, Next
  PROVE  StreamInv'
<1>1. CASE Open
  <2>1. Held = 0 /\ Held' = 0
    BY <1>1 DEF Open, SubmitWorks, Held, BufferOwnership, PlaceInv
  <2>2. UNCHANGED <<taken, received, readError>>
    BY <1>1 DEF Open
  <2> QED
    BY <2>1, <2>2 DEF StreamInv
<1>0. CASE OpenFails \/ WriteBegins \/ Cancel
  BY <1>0, DriverAssumption
  DEF OpenFails, WriteBegins, Cancel, Failure, Quiet, CancelTransfer, CancelOnly,
      StreamInv, Held
<1>2. CASE Land
  <2>1. /\ landed \in Nat /\ received \in Nat /\ landed <= Len(readBuffer)
        /\ transfer # "none" /\ Held = landed /\ readBuffer \in Seq(Nat)
    BY <1>2 DEF Land, InFlight, Numbers, LengthInv, Held, Bytes
  <2>2. /\ \A i \in 1..landed : readBuffer'[i] = readBuffer[i]
        /\ readBuffer'[landed + 1] = received + 1
    <3> DEFINE c == Append(SubSeq(readBuffer, 1, landed), received + 1)
    <3>1. /\ \A i \in 1..landed : c[i] = readBuffer[i]
          /\ c[landed + 1] = received + 1
      BY <2>1, Landed
    <3>2. readBuffer' = c
      BY <1>2 DEF Land
    <3> HIDE DEF c
    <3> QED
      BY <3>1, <3>2
  <2>3. /\ landed' = landed + 1 /\ received' = received + 1
        /\ UNCHANGED <<transfer, taken, readError>>
        /\ Held' = landed + 1
    BY <1>2, <2>1 DEF Land, Held
  <2>4. CASE readError # None
    BY <2>3, <2>4 DEF StreamInv
  <2>5. CASE readError = None
    <3>1. received = Len(taken) + landed
          /\ \A i \in 1..landed : readBuffer[i] = Len(taken) + i
      BY <2>1, <2>5 DEF StreamInv
    <3>2. \A i \in 1..landed + 1 : readBuffer'[i] = Len(taken) + i
      <4> TAKE i \in 1..landed + 1
      <4>1. i \in 1..landed \/ i = landed + 1
        BY <2>1
      <4>2. Len(taken) \in Nat
        BY DEF Bytes
      <4>3. CASE i \in 1..landed
        <5>1. readBuffer'[i] = readBuffer[i]
          BY <2>2, <4>3
        <5> QED
          BY <3>1, <4>3, <5>1
      <4>4. CASE i = landed + 1
        <5>1. Len(taken) + i = received + 1
          BY <2>1, <3>1, <4>2, <4>4
        <5> QED
          BY <2>2, <4>4, <5>1
      <4> QED
        BY <4>1, <4>3, <4>4
    <3>3. received' = Len(taken) + (landed + 1)
      BY <2>1, <2>3, <3>1 DEF Bytes
    <3> QED
      BY <2>3, <3>2, <3>3 DEF StreamInv
  <2> QED
    BY <2>4, <2>5
<1>3. CASE TransferEnds \/ TransferFails \/ TransferCancelled
  BY <1>3
  DEF TransferEnds, TransferFails, TransferCancelled, InFlight, StreamInv, Held, Failure
<1>4. CASE Completed /\ CopyOut /\ (ReaderTakes \/ DrainTakes)
  <2>1. /\ taken' = Promise!Stream(received)
        /\ Len(taken') = received
    BY <1>4, CopiedInOrder
  <2>2. received' = received /\ Held' = 0 /\ received \in Nat
    BY <1>4 DEF ReaderTakes, DrainTakes, Completed, TakeOnly, SubmitWorks, SubmitFails,
      Held, BufferOwnership, Numbers
  <2> QED
    BY <2>1, <2>2 DEF StreamInv
<1>5. CASE ReaderTakes /\ ~CopyOut
  BY <1>5, DriverAssumption
  DEF ReaderTakes, Completed, SubmitWorks, SubmitFails, TakeOnly, StreamInv
<1>6. CASE ReaderEnters \/ ReaderReturns \/ WriteReturns \/ Join \/ DrainReturns
  BY <1>6
  DEF ReaderEnters, ReaderReturns, WriteReturns, Join, DrainReturns, Quiet, StreamInv, Held
<1>7. CASE ReaderEvents \/ WriteDispatches \/ DrainEvents \/ CloseWaits
  BY <1>7, DriverAssumption
  DEF ReaderEvents, WriteDispatches, DrainEvents, CloseWaits, Dispatch, CompletionError,
      EventsFail, Failure, Quiet, StreamInv, Held, BufferOwnership
<1>8. CASE CloseBegins
  BY <1>8, DriverAssumption
  DEF CloseBegins, CancelTransfer, CancelOnly, Failure, StreamInv, Held
<1>9. CASE CloseEnds
  <2>1. taken' = <<>> /\ received' = 0 /\ Held' = 0
    BY <1>9 DEF CloseEnds, Held, BufferOwnership
  <2>2. Promise!Stream(0) = <<>>
    BY DEF Promise!Stream
  <2> QED
    BY <2>1, <2>2 DEF StreamInv
<1> QED
  <2>1. CASE NewCall
    BY <1>0, <1>1, <1>6, <2>1 DEF NewCall
  <2>2. CASE Caller
    <3>1. DrainTakes => Completed /\ CopyOut
      BY DEF DrainTakes
    <3> QED
      BY <1>4, <1>6, <1>7, <1>8, <1>9, <2>2, <3>1 DEF Caller
  <2>3. CASE Reader
    <3>1. ReaderTakes => Completed
      BY DEF ReaderTakes
    <3> QED
      BY <1>4, <1>5, <1>6, <1>7, <2>3, <3>1 DEF Reader
  <2>4. CASE Bus
    BY <1>2, <1>3, <2>4 DEF Bus
  <2> QED
    BY <2>1, <2>2, <2>3, <2>4 DEF Next

-----------------------------------------------------------------------------
\* The invariant.

LEMMA TypeParts == TypeOK <=> Flags /\ Places /\ Numbers /\ Bytes
BY DEF TypeOK, Flags, Places, Numbers, Bytes

LEMMA InvInit == Init => IInv
<1> SUFFICES ASSUME Init PROVE IInv
  OBVIOUS
<1>1. Flags
  BY Zenon DEF Init, Flags
<1>2. Places /\ Numbers /\ Bytes
  BY DriverAssumption DEF Init, Places, Numbers, Bytes
<1>3. BufferOwnership /\ PlaceInv /\ CauseInv /\ LengthInv /\ EndInv
  BY DEF Init, BufferOwnership, PlaceInv, CauseInv, LengthInv, EndInv
<1>4. StreamInv
  <2>1. Promise!Stream(0) = <<>>
    BY DEF Promise!Stream
  <2> QED
    BY <2>1 DEF Init, StreamInv, Held
<1> QED
  BY <1>1, <1>2, <1>3, <1>4, TypeParts DEF IInv

LEMMA InvStep == IInv /\ [Next]_vars => IInv'
<1> SUFFICES ASSUME IInv, [Next]_vars PROVE IInv'
  OBVIOUS
<1> Flags /\ Places /\ Numbers /\ Bytes
  BY TypeParts DEF IInv
<1> BufferOwnership /\ PlaceInv /\ CauseInv /\ LengthInv /\ StreamInv /\ EndInv
  BY DEF IInv
<1>1. CASE Next
  <2>1. Flags' /\ Places' /\ Numbers' /\ Bytes'
    BY <1>1, FlagsStep, PlacesStep, NumbersStep, BytesStep
  <2>2. TypeOK'
    BY <2>1 DEF TypeOK, Flags, Places, Numbers, Bytes
  <2>3. BufferOwnership' /\ PlaceInv' /\ CauseInv' /\ LengthInv' /\ StreamInv' /\ EndInv'
    BY <1>1, BufferOwnershipStep, PlaceInvStep, CauseInvStep, LengthInvStep, StreamStep,
       EndInvStep
  <2> QED
    BY <2>2, <2>3 DEF IInv
<1>2. CASE UNCHANGED vars
  BY <1>2
  DEF IInv, TypeOK, BufferOwnership, PlaceInv, CauseInv, LengthInv, StreamInv, Held,
      EndInv
<1> QED
  BY <1>1, <1>2

LEMMA Inductive == Spec => []IInv
BY InvInit, InvStep, PTL DEF Spec

(***************************************************************************)
(* Every variable keeps its type: no transfer writes past its buffer,      *)
(* however large a chunk is.                                               *)
(***************************************************************************)
THEOREM TypeCorrect == Spec => []TypeOK
<1>1. IInv => TypeOK
  BY DEF IInv
<1> QED
  BY <1>1, Inductive, PTL

(***************************************************************************)
(* The buffer belongs to libusb exactly while a transfer is pending, and   *)
(* close frees it only then: readPending is right through completions on   *)
(* any thread, failed submissions and failed cancels.                      *)
(***************************************************************************)
THEOREM OwnershipCorrect == Spec => []BufferOwnership
<1>1. IInv => BufferOwnership
  BY DEF IInv
<1> QED
  BY <1>1, Inductive, PTL

(***************************************************************************)
(* The driver makes up no error: without a failure of libusb or the bus    *)
(* none is ever stored, cancellations included.                            *)
(***************************************************************************)
THEOREM ErrorsCorrect == Spec => []ErrorsJustified
<1>1. IInv => ErrorsJustified
  BY DEF IInv, CauseInv, ErrorsJustified
<1> QED
  BY <1>1, Inductive, PTL
-----------------------------------------------------------------------------
\* The driver implements UsbDriver.

\* A step the stream does not see.
LEMMA Unseen ==
  ASSUME UNCHANGED <<handle, stopping, received, taken, readError, drained>>
  PROVE  UNCHANGED Promise!streamVars
BY DEF Promise!streamVars

\* A step of the open driver that touches the stream by an error at most.
LEMMA Fails ==
  ASSUME handle, UNCHANGED <<handle, stopping, received, taken, drained>>,
         readError' = readError \/ readError' # None
  PROVE  [Promise!Fail]_(Promise!streamVars)
<1>1. CASE readError' = readError
  BY <1>1 DEF Promise!streamVars
<1>2. CASE readError' # None
  BY <1>2 DEF Promise!Fail
<1> QED
  BY <1>1, <1>2

\* A thread that copies bytes out hands them over, if there are any.
LEMMA HandsOver ==
  ASSUME IInv, handle, ~drained, Completed, CopyOut,
         UNCHANGED <<handle, stopping, received, readError, drained>>
  PROVE  [Promise!HandOver]_(Promise!streamVars)
<1>1. /\ taken' = Promise!Stream(received) /\ Len(taken') = received
      /\ received = Len(taken) + readLength
      /\ Len(taken) \in Nat /\ readLength \in Nat /\ received \in Nat
  BY CopiedInOrder, TypeParts DEF IInv, Numbers, Bytes
<1>2. CASE readLength = 0
  <2>1. taken = Promise!Stream(Len(taken))
    BY DEF IInv, StreamInv
  <2>2. taken' = taken
    BY <1>1, <1>2, <2>1
  <2> QED
    BY <2>2, Unseen
<1>3. CASE readLength # 0
  <2>1. received \in Len(taken) + 1..received
    BY <1>1, <1>3
  <2> QED
    BY <1>1, <2>1 DEF Promise!HandOver
<1> QED
  BY <1>2, <1>3

LEMMA RefinesInit == Init => Promise!StreamInit
BY DEF Init, Promise!StreamInit

LEMMA RefinesStep ==
  ASSUME IInv, Next
  PROVE  [Promise!StreamNext]_(Promise!streamVars)
<1> USE DEF Promise!StreamNext
<1> Flags /\ Places /\ Numbers /\ Bytes
  BY TypeParts DEF IInv
<1> BufferOwnership /\ PlaceInv /\ StreamInv /\ EndInv
  BY DEF IInv
<1>1. CASE Open
  <2>1. ~handle /\ handle' /\ ~stopping'
        /\ UNCHANGED <<received, taken, readError, drained>>
    BY <1>1 DEF Open, PlaceInv
  <2> QED
    BY <2>1 DEF Promise!Start
<1>2. CASE OpenFails
  BY <1>2 DEF OpenFails, PlaceInv, Promise!streamVars
<1>3. CASE Cancel
  <2>1. handle /\ ~stopping /\ stopping'
        /\ UNCHANGED <<handle, received, taken, drained>>
        /\ (readError' = readError \/ readError' # None)
    BY <1>3, DriverAssumption DEF Cancel, CancelTransfer, CancelOnly, PlaceInv
  <2> QED
    BY <2>1 DEF Promise!Stop
<1>4. CASE Land
  <2>1. handle /\ (drained => readError # None)
    BY <1>4 DEF Land, InFlight, BufferOwnership, EndInv
  <2>2. /\ received' \in Nat /\ received' > received
        /\ UNCHANGED <<handle, stopping, taken, readError, drained>>
    BY <1>4 DEF Land, Numbers
  <2> QED
    BY <2>1, <2>2 DEF Promise!Receive
<1>5. CASE ReaderTakes /\ CopyOut
  <2>1. handle /\ ~drained /\ Completed
        /\ (UNCHANGED readError
              => UNCHANGED <<handle, stopping, received, readError, drained>>)
    BY <1>5 DEF ReaderTakes, TakeOnly, PlaceInv, EndInv
  <2>2. CASE UNCHANGED readError
    BY <1>5, <2>1, <2>2, HandsOver
  <2>3. CASE ~UNCHANGED readError
    BY <1>5, <2>1, <2>3, Fails, DriverAssumption DEF ReaderTakes, SubmitFails, TakeOnly
  <2> QED
    BY <2>2, <2>3
<1>6. CASE ReaderTakes /\ ~CopyOut
  BY <1>6, DriverAssumption, Fails DEF ReaderTakes, SubmitFails, TakeOnly, PlaceInv, Completed
<1>7. CASE DrainTakes
  <2>1. /\ handle /\ stopping /\ ~drained /\ Completed /\ CopyOut
        /\ UNCHANGED <<handle, stopping, received, readError>>
        /\ drained' = (readLength = 0)
    BY <1>7 DEF DrainTakes, TakeOnly, PlaceInv, EndInv
  <2>2. CASE readLength = 0
    <3>1. taken' = Promise!Stream(received) /\ received = Len(taken)
      BY <2>1, <2>2, CopiedInOrder DEF IInv, Bytes
    <3>2. taken' = taken
      BY <3>1 DEF StreamInv
    <3> QED
      BY <2>1, <2>2, <3>1, <3>2 DEF Promise!Drain
  <2>3. CASE readLength # 0
    <3>1. drained = FALSE /\ drained' = FALSE
      BY <2>1, <2>3, Zenon DEF Flags
    <3> QED
      BY <2>1, <3>1, HandsOver
  <2> QED
    BY <2>2, <2>3
<1>8. CASE DrainReturns
  <2>1. handle /\ stopping
        /\ UNCHANGED <<handle, stopping, received, taken, readError>>
    BY <1>8 DEF DrainReturns, PlaceInv
  <2>2. CASE UNCHANGED drained
    BY <2>1, <2>2, Unseen
  <2>3. CASE drained' = TRUE /\ readError # None
    BY <2>1, <2>3 DEF Promise!Drain
  <2>4. CASE drained' = TRUE /\ Exhausted
    <3>1. Held = 0 /\ readError = None
      BY <2>4 DEF Exhausted, Held, BufferOwnership
    <3>2. taken = Promise!Stream(received)
      BY <3>1 DEF StreamInv, Bytes
    <3> QED
      BY <2>1, <2>4, <3>2 DEF Promise!Drain
  <2> QED
    BY <1>8, <2>2, <2>3, <2>4 DEF DrainReturns
<1>9. CASE DrainEvents
  <2>1. handle /\ stopping
        /\ UNCHANGED <<handle, stopping, received, taken>>
        /\ (readError' = readError \/ readError' # None)
        /\ (UNCHANGED drained \/ (drained' = TRUE /\ readError' # None))
    BY <1>9, DriverAssumption
    DEF DrainEvents, Dispatch, CompletionError, EventsFail, Quiet, PlaceInv
  <2>2. CASE UNCHANGED drained
    BY <2>1, <2>2, Fails
  <2>3. CASE drained' = TRUE /\ readError' # None
    BY <2>1, <2>3 DEF Promise!Drain
  <2> QED
    BY <2>1, <2>2, <2>3
<1>10. CASE ReaderEvents \/ WriteDispatches \/ CloseWaits
  <2>1. handle /\ UNCHANGED <<handle, stopping, received, taken, drained>>
        /\ (readError' = readError \/ readError' # None)
    BY <1>10, DriverAssumption
    DEF ReaderEvents, WriteDispatches, CloseWaits, Dispatch, CompletionError,
        EventsFail, Quiet, PlaceInv
  <2> QED
    BY <2>1, Fails
<1>11. CASE CloseBegins
  <2>1. handle /\ stopping' = TRUE /\ stopping
        /\ UNCHANGED <<handle, received, taken, drained>>
        /\ (readError' = readError \/ readError' # None)
    BY <1>11, DriverAssumption DEF CloseBegins, CancelTransfer, CancelOnly, PlaceInv
  <2>2. CASE readError' = readError
    BY <2>1, <2>2 DEF Promise!streamVars
  <2>3. CASE readError' # None
    BY <2>1, <2>3 DEF Promise!Fail
  <2> QED
    BY <2>1, <2>2, <2>3
<1>12. CASE CloseEnds
  <2>1. handle /\ ~handle' /\ received' = 0 /\ taken' = <<>>
        /\ readError' = None /\ drained' = FALSE
    BY <1>12 DEF CloseEnds, PlaceInv
  <2> QED
    BY <2>1 DEF Promise!Close
<1>13. CASE \/ TransferEnds \/ TransferFails \/ TransferCancelled
            \/ ReaderEnters \/ ReaderReturns
            \/ WriteBegins \/ WriteReturns \/ Join
  BY <1>13, Unseen
  DEF TransferEnds, TransferFails, TransferCancelled, ReaderEnters, ReaderReturns,
      WriteBegins, WriteReturns, Join, Quiet
<1> QED
  <2>1. CASE NewCall
    BY <1>1, <1>2, <1>3, <1>13, <2>1 DEF NewCall
  <2>2. CASE Caller
    BY <1>7, <1>8, <1>9, <1>10, <1>11, <1>12, <1>13, <2>2 DEF Caller
  <2>3. CASE Reader
    BY <1>5, <1>6, <1>10, <1>13, <2>3 DEF Reader
  <2>4. CASE Bus
    BY <1>4, <1>13, <2>4 DEF Bus
  <2> QED
    BY <2>1, <2>2, <2>3, <2>4 DEF Next

(***************************************************************************)
(* The Linux driver implements UsbDriver: for chunks of every size it      *)
(* hands the stream over once and in order, whichever thread a completion  *)
(* runs on, and a drain that ends without an error left nothing behind.    *)
(***************************************************************************)
THEOREM Implements == Spec => Contract
<1>1. Init => Promise!StreamInit
  BY RefinesInit
<1>2. IInv /\ [Next]_vars => [Promise!StreamNext]_(Promise!streamVars)
  <2>1. CASE Next
    BY <2>1, RefinesStep
  <2>2. CASE UNCHANGED vars
    BY <2>2, Unseen
  <2> QED
    BY <2>1, <2>2
<1> QED
  BY <1>1, <1>2, Inductive, PTL DEF Spec, Contract, Promise!StreamSpec
=============================================================================
