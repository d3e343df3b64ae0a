---------------------------- MODULE LibusbDriver ----------------------------
(***************************************************************************)
(* The Linux driver, lib/Runtime/LibusbUsbDriver.cpp: one asynchronous IN  *)
(* transfer, its completion callback, and the state readMutex_ protects,   *)
(* used by two threads as UsbCIMDevice uses them -- a reader that reads    *)
(* until the session stops, and a caller that writes, cancels, joins the   *)
(* reader, drains and closes.                                              *)
(*                                                                         *)
(* libusb and the host controller are the environment.  A completion runs  *)
(* on whichever thread handles events at that time: the reader in read,    *)
(* the caller in a synchronous OUT transfer, in drain or in close.  Every  *)
(* critical section of readMutex_ is one action; no thread holds it while  *)
(* it handles events.                                                      *)
(***************************************************************************)
EXTENDS Integers, Sequences

CONSTANTS
    ChunkBytes,     \* config_.receiveChunkBytes
    CancelMayFail,  \* whether libusb_cancel_transfer may fail on a live transfer
    None,           \* no error
    MaxBytes,       \* bound: bytes the board sends in one session
    MaxSessions,    \* bound: sessions
    MaxFailures     \* bound: failures of libusb or the bus

ASSUME DriverAssumption ==
    /\ ChunkBytes \in Nat \ {0}
    /\ CancelMayFail \in BOOLEAN
    /\ None \notin {"cancel", "events", "submit", "status"}
    /\ MaxBytes \in Nat
    /\ MaxSessions \in Nat
    /\ MaxFailures \in Nat

VARIABLES
    \* What readMutex_ protects.
    handle, stopping, cancelRequested, readPending, readComplete,
    readLength, readError, readBuffer,
    \* The IN transfer as libusb sees it: none, flying, cancelling, or done
    \* with a completion to dispatch; its status, and how many bytes it holds.
    transfer, status, landed,
    \* Where the reader and the caller are.
    reader, caller,
    \* History: bytes received from the bus and handed over in this session,
    \* and whether drain returned for the last time; sessions and failures.
    received, taken, drained, sessions, failures

lockedVars == <<handle, stopping, cancelRequested, readPending, readComplete,
                readLength, readError, readBuffer>>
transferVars == <<transfer, status, landed>>
historyVars == <<received, taken, drained, sessions, failures>>
vars == <<lockedVars, transferVars, reader, caller, historyVars>>

Init ==
    /\ handle = FALSE /\ stopping = TRUE /\ cancelRequested = FALSE
    /\ readPending = FALSE /\ readComplete = FALSE
    /\ readLength = 0 /\ readError = None /\ readBuffer = <<>>
    /\ transfer = "none" /\ status = "completed" /\ landed = 0
    /\ reader = "none" /\ caller = "closed"
    /\ received = 0 /\ taken = <<>> /\ drained = FALSE
    /\ sessions = 0 /\ failures = 0

Failure ==
    /\ failures < MaxFailures
    /\ failures' = failures + 1

-----------------------------------------------------------------------------
\* libusb and the host controller.

InFlight == transfer \in {"flying", "cancelling"}

\* Mutant: the transfer asks for one byte more than its buffer holds.
RequestedBytes_OneMore == ChunkBytes + 1
\* How many bytes a transfer asks for.
RequestedBytes == ChunkBytes

\* The bus delivers the next byte into the buffer of the transfer.
Land ==
    /\ InFlight
    /\ landed < RequestedBytes /\ received < MaxBytes
    /\ readBuffer' = Append(SubSeq(readBuffer, 1, landed), received + 1)
    /\ landed' = landed + 1 /\ received' = received + 1
    /\ UNCHANGED <<handle, stopping, cancelRequested, readPending, readComplete,
                   readLength, readError, transfer, status, reader, caller,
                   taken, drained, sessions, failures>>

\* A short packet, an empty one or a full buffer ends a transfer.
TransferEnds ==
    /\ InFlight
    /\ transfer' = "done" /\ status' = "completed"
    /\ UNCHANGED <<lockedVars, landed, reader, caller, historyVars>>

TransferFails ==
    /\ InFlight
    /\ Failure
    /\ transfer' = "done" /\ status' = "error"
    /\ UNCHANGED <<lockedVars, landed, reader, caller, received, taken, drained,
                   sessions>>

\* A cancelled transfer keeps the bytes that landed before.
TransferCancelled ==
    /\ transfer = "cancelling"
    /\ transfer' = "done" /\ status' = "cancelled"
    /\ UNCHANGED <<lockedVars, landed, reader, caller, historyVars>>

Bus == Land \/ TransferEnds \/ TransferFails \/ TransferCancelled

-----------------------------------------------------------------------------
\* Submission and completion of the IN transfer.

SubmitWorks ==
    /\ transfer' = "flying" /\ landed' = 0
    /\ readPending' = TRUE
    /\ UNCHANGED <<status, failures>>

SubmitFails ==
    /\ Failure
    /\ readPending' = FALSE
    /\ UNCHANGED transferVars

\* Mutant: the status of an expected cancellation is taken for an error.
CompletionError_AnyCancel ==
    IF status = "completed" THEN readError ELSE "status"

\* An expected cancellation is not an error.
CompletionError ==
    IF status = "completed" \/ (status = "cancelled" /\ stopping)
    THEN readError ELSE "status"

\* readCompleted, on the thread that handles events.
Dispatch ==
    /\ transfer = "done"
    /\ transfer' = "none"
    /\ readPending' = FALSE /\ readComplete' = TRUE
    /\ readLength' = landed
    /\ readError' = CompletionError
    /\ UNCHANGED <<handle, stopping, cancelRequested, readBuffer, status, landed,
                   received, taken, drained, sessions, failures>>

-----------------------------------------------------------------------------
\* read and drain, on thread t: its place, and the place after each outcome.

Quiet == UNCHANGED <<lockedVars, transferVars, historyVars>>

Completed == readError = None /\ readComplete

CopyOut == taken' = taken \o SubSeq(readBuffer, 1, readLength)

TakeOnly == UNCHANGED <<handle, stopping, cancelRequested, readLength, readBuffer,
                        received, sessions>>

\* Nothing is left and nothing can come: read returns zero.
\* Mutant: drain does not wait for the transfer that was cancelled.
Exhausted_WhilePending == readError = None /\ ~readComplete /\ stopping
Exhausted == readError = None /\ ~readComplete /\ stopping /\ ~readPending

MustWait == readError = None /\ ~readComplete /\ ~Exhausted

EventsFail ==
    /\ Failure
    /\ readError' = "events"
    /\ UNCHANGED <<handle, stopping, cancelRequested, readPending, readComplete,
                   readLength, readBuffer, transferVars, received, taken,
                   sessions>>

-----------------------------------------------------------------------------
\* The receive thread of UsbCIMDevice: it asks to stop before it cancels.

StopRequested == caller \notin {"idle", "out"}

ReaderEnters ==
    /\ reader = "ready"
    /\ reader' = IF StopRequested THEN "none" ELSE "read"
    /\ Quiet /\ UNCHANGED caller

\* Copy the completed bytes and, unless the session stops, submit again.
\* When that fails the bytes are not returned.
ReaderTakes ==
    /\ reader = "read"
    /\ Completed
    /\ readComplete' = FALSE
    /\ \/ /\ stopping
          /\ CopyOut /\ reader' = "ready"
          /\ UNCHANGED <<readPending, readError, transferVars, failures>>
       \/ /\ ~stopping
          /\ SubmitWorks
          /\ CopyOut /\ reader' = "ready"
          /\ UNCHANGED readError
       \/ /\ ~stopping
          /\ SubmitFails
          /\ readError' = "submit" /\ reader' = "none"
          /\ UNCHANGED taken
    /\ TakeOnly
    /\ UNCHANGED <<caller, drained>>

ReaderReturns ==
    /\ reader = "read"
    /\ \/ readError # None /\ reader' = "none"
       \/ Exhausted /\ reader' = "ready"
       \/ MustWait /\ reader' = "events"
    /\ Quiet /\ UNCHANGED caller

ReaderEvents ==
    /\ reader = "events"
    /\ \/ Dispatch /\ reader' = "read"
       \/ transfer # "done" /\ reader' = "read" /\ Quiet
       \/ EventsFail /\ reader' = "none" /\ UNCHANGED drained
    /\ UNCHANGED caller

Reader == ReaderEnters \/ ReaderTakes \/ ReaderReturns \/ ReaderEvents

-----------------------------------------------------------------------------
\* The caller.

\* The first transfer is submitted before open returns.
Open ==
    /\ caller = "closed" /\ sessions < MaxSessions
    /\ handle' = TRUE /\ stopping' = FALSE
    /\ SubmitWorks
    /\ caller' = "idle" /\ reader' = "ready"
    /\ sessions' = sessions + 1
    /\ UNCHANGED <<cancelRequested, readComplete, readLength, readError,
                   readBuffer, received, taken, drained>>

\* Any failure on the way closes what was opened.
OpenFails ==
    /\ caller = "closed" /\ sessions < MaxSessions
    /\ Failure
    /\ sessions' = sessions + 1
    /\ stopping' = TRUE
    /\ UNCHANGED <<handle, cancelRequested, readPending, readComplete, readLength,
                   readError, readBuffer, transferVars, reader, caller, received,
                   taken, drained>>

WriteBegins ==
    /\ caller = "idle"
    /\ handle /\ ~stopping /\ readError = None
    /\ caller' = "out"
    /\ Quiet /\ UNCHANGED reader

\* A synchronous OUT transfer handles events while it waits.
WriteDispatches ==
    /\ caller = "out"
    /\ Dispatch
    /\ UNCHANGED <<reader, caller>>

WriteReturns ==
    /\ caller = "out"
    /\ caller' = "idle"
    /\ Quiet /\ UNCHANGED reader

\* Mutant: a live transfer is left alone.
CancelTransfer_Skipped ==
    /\ cancelRequested' = TRUE
    /\ UNCHANGED <<transfer, readError, failures>>

\* cancel under the lock.  A transfer that is done already is not found; a
\* cancel that fails is not tried again.
CancelTransfer ==
    IF readPending /\ ~cancelRequested
    THEN /\ cancelRequested' = TRUE
         /\ \/ /\ transfer = "flying"
               /\ transfer' = "cancelling"
               /\ UNCHANGED <<readError, failures>>
            \/ /\ transfer = "done"
               /\ UNCHANGED <<transfer, readError, failures>>
            \/ /\ CancelMayFail /\ transfer = "flying"
               /\ Failure
               /\ readError' = "cancel"
               /\ UNCHANGED transfer
    ELSE UNCHANGED <<cancelRequested, transfer, readError, failures>>

CancelOnly == UNCHANGED <<handle, readPending, readComplete, readLength,
                          readBuffer, status, landed, reader, received, taken,
                          drained, sessions>>

Cancel ==
    /\ caller = "idle"
    /\ stopping' = TRUE
    /\ CancelTransfer
    /\ caller' = "join"
    /\ CancelOnly

Join ==
    /\ caller = "join" /\ reader = "none"
    /\ caller' = "drain"
    /\ Quiet /\ UNCHANGED reader

\* The caller stops draining at an empty completion.
DrainTakes ==
    /\ caller = "drain"
    /\ Completed
    /\ readComplete' = FALSE
    /\ CopyOut
    /\ caller' = IF readLength = 0 THEN "close" ELSE "drain"
    /\ drained' = (readLength = 0)
    /\ TakeOnly
    /\ UNCHANGED <<readPending, readError, transferVars, reader, failures>>

DrainReturns ==
    /\ caller = "drain"
    /\ \/ /\ readError # None \/ Exhausted
          /\ caller' = "close" /\ drained' = TRUE
       \/ MustWait /\ caller' = "drainEvents" /\ UNCHANGED drained
    /\ UNCHANGED <<lockedVars, transferVars, reader, received, taken, sessions,
                   failures>>

DrainEvents ==
    /\ caller = "drainEvents"
    /\ \/ Dispatch /\ caller' = "drain"
       \/ transfer # "done" /\ caller' = "drain" /\ Quiet
       \/ EventsFail /\ caller' = "close" /\ drained' = TRUE
    /\ UNCHANGED reader

\* close cancels once more, then waits for the completion.
CloseBegins ==
    /\ caller = "close"
    /\ stopping' = TRUE
    /\ CancelTransfer
    /\ caller' = "closing"
    /\ CancelOnly

CloseWaits ==
    /\ caller = "closing" /\ readPending
    /\ Dispatch
    /\ UNCHANGED <<reader, caller>>

\* Mutant: the transfer is freed although libusb still owns it.
CloseEnds_WithoutWaiting ==
    /\ caller = "closing"
    /\ caller' = "closed"
    /\ handle' = FALSE /\ cancelRequested' = FALSE
    /\ readComplete' = FALSE /\ readLength' = 0
    /\ readError' = None /\ readBuffer' = <<>>
    /\ received' = 0 /\ taken' = <<>> /\ drained' = FALSE
    /\ UNCHANGED <<stopping, readPending, transferVars, reader, sessions, failures>>

CloseEnds ==
    /\ caller = "closing" /\ ~readPending
    /\ caller' = "closed"
    /\ handle' = FALSE /\ cancelRequested' = FALSE
    /\ readComplete' = FALSE /\ readLength' = 0
    /\ readError' = None /\ readBuffer' = <<>>
    /\ received' = 0 /\ taken' = <<>> /\ drained' = FALSE
    /\ UNCHANGED <<stopping, readPending, transferVars, reader, sessions, failures>>

NewCall == Open \/ OpenFails \/ WriteBegins \/ Cancel

Caller ==
    \/ WriteDispatches \/ WriteReturns \/ Join
    \/ DrainTakes \/ DrainReturns \/ DrainEvents
    \/ CloseBegins \/ CloseWaits \/ CloseEnds

Next == NewCall \/ Caller \/ Reader \/ Bus

(***************************************************************************)
(* Both threads run, event handling returns after its poll timeout, an OUT *)
(* transfer after its own, and libusb completes what it accepted to        *)
(* cancel.  The board need not send anything.                              *)
(***************************************************************************)
Fairness ==
    /\ WF_vars(Caller) /\ WF_vars(Reader)
    /\ WF_vars(WriteReturns)
    /\ WF_vars(TransferCancelled)

Spec == Init /\ [][Next]_vars /\ Fairness

-----------------------------------------------------------------------------
\* Properties.

(***************************************************************************)
(* The types of the variables: no transfer writes past its buffer.         *)
(***************************************************************************)
TypeOK ==
    /\ handle \in BOOLEAN /\ stopping \in BOOLEAN /\ cancelRequested \in BOOLEAN
    /\ readPending \in BOOLEAN /\ readComplete \in BOOLEAN
    /\ readLength \in 0..ChunkBytes
    /\ readError \in {None, "cancel", "events", "submit", "status"}
    /\ readBuffer \in Seq(Nat)
    /\ transfer \in {"none", "flying", "cancelling", "done"}
    /\ status \in {"completed", "error", "cancelled"}
    /\ landed \in 0..ChunkBytes
    /\ reader \in {"none", "ready", "read", "events"}
    /\ caller \in {"closed", "idle", "out", "join", "drain", "drainEvents",
                   "close", "closing"}
    /\ received \in 0..MaxBytes /\ taken \in Seq(Nat) /\ drained \in BOOLEAN
    /\ sessions \in 0..MaxSessions /\ failures \in 0..MaxFailures

(***************************************************************************)
(* The driver keeps the promises of UsbDriver: its bytes are handed over   *)
(* once and in order, drain ends with nothing left behind, errors last.    *)
(***************************************************************************)
Promise == INSTANCE UsbDriver WITH
    session <- IF ~handle THEN "closed" ELSE IF stopping THEN "stopping" ELSE "open",
    failed <- readError # None
Contract == Promise!StreamSpec

(***************************************************************************)
(* Submitted buffers belong to libusb until the completion callback runs:  *)
(* readPending says exactly when, completed bytes are read only after, and *)
(* the transfer is freed and the handle closed only then.                  *)
(***************************************************************************)
BufferOwnership ==
    /\ readPending <=> transfer # "none"
    /\ readComplete => transfer = "none"
    /\ transfer # "none" => handle

(***************************************************************************)
(* Without a failure of libusb or the bus no call reports an error: a      *)
(* cancellation that is expected is none, on whatever thread its           *)
(* completion runs.                                                        *)
(***************************************************************************)
ErrorsJustified == failures = 0 => readError = None

(***************************************************************************)
(* Once a session stops it ends: the reader returns, drain comes to its    *)
(* end and close stops waiting, though the board never sends again.  The   *)
(* exception is a cancel libusb refused while the transfer was live, which *)
(* the driver does not try again.                                          *)
(***************************************************************************)
CancelRefused == cancelRequested /\ transfer = "flying" /\ failures > 0
CloseReturns == caller = "join" ~> caller = "closed" \/ CancelRefused
=============================================================================
