----------------------------- MODULE CyApiDriver -----------------------------
(***************************************************************************)
(* The Windows driver, lib/Runtime/CyApiUsbDriver.cpp: one overlapped IN   *)
(* request that survives poll timeouts, an atomic flag cancel sets, and a  *)
(* quarantine for a request the kernel does not give back.  UsbCIMDevice   *)
(* uses it with a reader thread and a caller, as in LibusbDriver.          *)
(*                                                                         *)
(* There is no lock: one action is what a thread does up to its next look  *)
(* at the flag or call of CyAPI.                                           *)
(***************************************************************************)
EXTENDS Integers, Sequences

CONSTANTS
    ChunkBytes,     \* config_.receiveChunkBytes
    MaxBytes,       \* bound: bytes the board sends in one session
    MaxSessions,    \* bound: sessions
    MaxFailures     \* bound: failures of CyAPI, the kernel or the bus

ASSUME DriverAssumption ==
    /\ ChunkBytes \in Nat \ {0}
    /\ MaxBytes \in Nat
    /\ MaxSessions \in Nat
    /\ MaxFailures \in Nat

VARIABLES
    \* device_, cancelled_, quarantined_, and whether request_ has a context.
    device, cancelled, quarantined, context,
    \* Storage of requests that were given up, never to be freed.
    abandoned,
    \* The request as the kernel sees it: none, flying, aborting, or done with
    \* its event set; its status, and the bytes in its buffer.
    request, status, bytes,
    \* Where the reader and the caller are.
    reader, caller,
    \* History: bytes of completed requests and bytes handed over in this
    \* session, whether a receive error was reported, and whether drain
    \* returned for the last time; sessions and failures.
    received, taken, failed, drained, sessions, failures

driverVars == <<device, cancelled, quarantined, context, abandoned>>
requestVars == <<request, status, bytes>>
historyVars == <<received, taken, failed, drained, sessions, failures>>
vars == <<driverVars, requestVars, reader, caller, historyVars>>

Init ==
    /\ device = FALSE /\ cancelled = TRUE
    /\ quarantined = FALSE /\ context = FALSE /\ abandoned = FALSE
    /\ request = "none" /\ status = "completed" /\ bytes = 0
    /\ reader = "none" /\ caller = "closed"
    /\ received = 0 /\ taken = <<>> /\ failed = FALSE /\ drained = FALSE
    /\ sessions = 0 /\ failures = 0

Failure ==
    /\ failures < MaxFailures
    /\ failures' = failures + 1

-----------------------------------------------------------------------------
\* The kernel and the bus.

InFlight == request \in {"flying", "aborting"}

\* Mutant: the request asks for one byte more than its buffer holds.
RequestedBytes_OneMore == ChunkBytes + 1
\* How many bytes a request asks for.
RequestedBytes == ChunkBytes

RequestOnly == UNCHANGED <<driverVars, reader, caller, taken, failed, drained,
                           sessions>>

\* A short packet or a full buffer completes the request with n bytes.  What
\* ends up in abandoned storage is received by no session.
RequestCompletes ==
    /\ InFlight
    /\ \E n \in 0..RequestedBytes :
          /\ received + n <= MaxBytes
          /\ bytes' = n
          /\ received' = IF context THEN received + n ELSE received
    /\ request' = "done" /\ status' = "completed"
    /\ UNCHANGED failures
    /\ RequestOnly

RequestFails ==
    /\ InFlight
    /\ Failure
    /\ request' = "done" /\ status' = "error" /\ bytes' = 0
    /\ UNCHANGED received
    /\ RequestOnly

\* An aborted request reports no bytes.
RequestAborts ==
    /\ request = "aborting"
    /\ request' = "done" /\ status' = "cancelled" /\ bytes' = 0
    /\ UNCHANGED <<received, failures>>
    /\ RequestOnly

Bus == RequestCompletes \/ RequestFails \/ RequestAborts

-----------------------------------------------------------------------------
\* beginRead and completeRead.

BeginWorks ==
    /\ context' = TRUE
    /\ request' = "flying" /\ bytes' = 0
    /\ UNCHANGED <<status, failures, failed>>

BeginFails ==
    /\ Failure
    /\ failed' = TRUE
    /\ UNCHANGED <<context, requestVars>>

\* Mutant: the cancelled flag does not excuse the status of the abort.
Benign_Never == FALSE
\* A cancellation is benign only while the session stops.
Benign == cancelled /\ status = "cancelled"

\* Mutant: the last request of a session is retired without its bytes.
CompleteRead_DropsTail ==
    /\ request = "done"
    /\ request' = "none" /\ context' = FALSE
    /\ IF status = "completed" /\ ~cancelled
       THEN /\ taken' = taken \o [i \in 1..bytes |-> received - bytes + i]
            /\ UNCHANGED failed
       ELSE /\ UNCHANGED taken
            /\ failed' = (failed \/ (status # "completed" /\ ~Benign))
    /\ UNCHANGED <<device, cancelled, quarantined, abandoned, status, bytes,
                   received, sessions, failures>>

\* The request is over; its bytes, if any, go to the caller.
CompleteRead ==
    /\ request = "done"
    /\ request' = "none" /\ context' = FALSE
    /\ IF status = "completed"
       THEN /\ taken' = taken \o [i \in 1..bytes |-> received - bytes + i]
            /\ UNCHANGED failed
       ELSE /\ UNCHANGED taken
            /\ failed' = (failed \/ ~Benign)
    /\ UNCHANGED <<device, cancelled, quarantined, abandoned, status, bytes,
                   received, sessions, failures>>

Returned == IF status = "completed" THEN bytes ELSE 0
Refused == status # "completed" /\ ~Benign

Quiet == UNCHANGED <<driverVars, requestVars, historyVars>>

-----------------------------------------------------------------------------
\* The receive thread of UsbCIMDevice: it asks to stop before it cancels.

StopRequested == caller # "idle"

ReaderEnters ==
    /\ reader = "ready"
    /\ reader' = IF StopRequested THEN "none" ELSE "read"
    /\ Quiet /\ UNCHANGED caller

\* The first thing read looks at.
ReaderLooks ==
    /\ reader = "read"
    /\ reader' = IF cancelled THEN "ready" ELSE "begin"
    /\ Quiet /\ UNCHANGED caller

\* A request is begun if none is left from the last poll -- the session may
\* have been cancelled since.
ReaderBegins ==
    /\ reader = "begin"
    /\ \/ /\ context
          /\ reader' = "wait"
          /\ UNCHANGED <<context, requestVars, failures, failed>>
       \/ /\ ~context
          /\ BeginWorks
          /\ reader' = "wait"
       \/ /\ ~context
          /\ BeginFails
          /\ reader' = "none"
    /\ UNCHANGED <<device, cancelled, quarantined, abandoned, caller, received,
                   taken, drained, sessions>>

ReaderCompletes ==
    /\ reader = "wait"
    /\ CompleteRead
    /\ reader' = IF Refused THEN "none" ELSE "ready"
    /\ UNCHANGED <<caller, drained>>

\* The poll times out and the request stays, or the wait itself fails.
ReaderGivesUp ==
    /\ reader = "wait"
    /\ \/ /\ request # "done"
          /\ reader' = "ready"
          /\ UNCHANGED <<failures, failed>>
       \/ /\ Failure
          /\ failed' = TRUE
          /\ reader' = "none"
    /\ UNCHANGED <<driverVars, requestVars, caller, received, taken, drained,
                   sessions>>

Reader ==
    \/ ReaderEnters \/ ReaderLooks \/ ReaderBegins \/ ReaderCompletes
    \/ ReaderGivesUp

-----------------------------------------------------------------------------
\* The caller.

\* The first request is queued before open returns.
Open ==
    /\ caller = "closed" /\ sessions < MaxSessions
    /\ ~quarantined
    /\ device' = TRUE /\ cancelled' = FALSE
    /\ BeginWorks
    /\ caller' = "idle" /\ reader' = "ready"
    /\ sessions' = sessions + 1
    /\ UNCHANGED <<quarantined, abandoned, received, taken, drained>>

\* A quarantined driver, or any failure on the way.
OpenFails ==
    /\ caller = "closed" /\ sessions < MaxSessions
    /\ quarantined \/ Failure
    /\ quarantined => UNCHANGED failures
    /\ cancelled' = TRUE
    /\ sessions' = sessions + 1
    /\ UNCHANGED <<device, quarantined, context, abandoned, requestVars, reader,
                   caller, received, taken, failed, drained>>

Cancel ==
    /\ caller = "idle"
    /\ cancelled' = TRUE
    /\ caller' = "join"
    /\ UNCHANGED <<device, quarantined, context, abandoned, requestVars, reader,
                   historyVars>>

\* Mutant: the caller drains beside the reader.
Join_Detached ==
    /\ caller = "join"
    /\ caller' = "drain"
    /\ Quiet /\ UNCHANGED reader

Join ==
    /\ caller = "join" /\ reader = "none"
    /\ caller' = "drain"
    /\ Quiet /\ UNCHANGED reader

\* Without a request there is nothing to drain.
DrainEmpty ==
    /\ caller = "drain" /\ ~context
    /\ caller' = "close" /\ drained' = TRUE
    /\ UNCHANGED <<driverVars, requestVars, reader, received, taken, failed,
                   sessions, failures>>

\* The caller stops draining at zero bytes or an error.
DrainCompletes ==
    /\ caller \in {"drain", "abort"} /\ context
    /\ CompleteRead
    /\ caller' = IF Refused \/ Returned = 0 THEN "close" ELSE "drain"
    /\ drained' = (Refused \/ Returned = 0)
    /\ UNCHANGED reader

DrainAborts ==
    /\ caller = "drain" /\ context /\ request = "flying"
    /\ request' = "aborting"
    /\ caller' = "abort"
    /\ UNCHANGED <<driverVars, status, bytes, reader, historyVars>>

\* Mutant: the request is freed although the kernel still owns it.
Quarantine_Freed ==
    /\ caller = "abort" /\ request = "aborting"
    /\ caller' = "close" /\ drained' = TRUE
    /\ device' = FALSE /\ context' = FALSE
    /\ quarantined' = TRUE
    /\ failed' = TRUE
    /\ UNCHANGED <<cancelled, abandoned, requestVars, reader, received, taken,
                   sessions, failures>>

\* Mutant: drain waits for the abort without a limit.
Quarantine_Infinite == FALSE /\ Quarantine_Freed

\* The abort does not come back in time: give the storage up, with the device
\* that still uses it.
Quarantine ==
    /\ caller = "abort" /\ request = "aborting"
    /\ caller' = "close" /\ drained' = TRUE
    /\ device' = FALSE /\ context' = FALSE
    /\ quarantined' = TRUE /\ abandoned' = TRUE
    /\ failed' = TRUE
    /\ UNCHANGED <<cancelled, requestVars, reader, received, taken, sessions,
                   failures>>

CloseEnds ==
    /\ caller = "close"
    /\ caller' = "closed"
    /\ device' = FALSE
    /\ received' = 0 /\ taken' = <<>> /\ failed' = FALSE /\ drained' = FALSE
    /\ UNCHANGED <<cancelled, quarantined, context, abandoned, requestVars,
                   reader, sessions, failures>>

NewCall == Open \/ OpenFails \/ Cancel

Caller ==
    \/ Join \/ DrainEmpty \/ DrainCompletes \/ DrainAborts \/ Quarantine
    \/ CloseEnds

Next == NewCall \/ Caller \/ Reader \/ Bus

(***************************************************************************)
(* Both threads run: every wait of theirs has a limit.  Nothing is assumed *)
(* of the kernel or the board.                                             *)
(***************************************************************************)
Fairness == WF_vars(Caller) /\ WF_vars(Reader)

Spec == Init /\ [][Next]_vars /\ Fairness

-----------------------------------------------------------------------------
\* Properties.

(***************************************************************************)
(* The types of the variables: no transfer writes past its buffer.         *)
(***************************************************************************)
TypeOK ==
    /\ device \in BOOLEAN /\ cancelled \in BOOLEAN /\ quarantined \in BOOLEAN
    /\ context \in BOOLEAN /\ abandoned \in BOOLEAN
    /\ request \in {"none", "flying", "aborting", "done"}
    /\ status \in {"completed", "error", "cancelled"}
    /\ bytes \in 0..ChunkBytes
    /\ reader \in {"none", "ready", "read", "begin", "wait"}
    /\ caller \in {"closed", "idle", "join", "drain", "abort", "close"}
    /\ received \in 0..MaxBytes /\ taken \in Seq(Nat)
    /\ failed \in BOOLEAN /\ drained \in BOOLEAN
    /\ sessions \in 0..MaxSessions /\ failures \in 0..MaxFailures

(***************************************************************************)
(* The driver keeps the promises of UsbDriver: the bytes its requests      *)
(* complete with are handed over once and in order, whether the reader or  *)
(* the caller finishes the last request, and drain ends with none left.    *)
(***************************************************************************)
Promise == INSTANCE UsbDriver WITH
    session <- IF caller = "closed" THEN "closed"
               ELSE IF cancelled THEN "stopping" ELSE "open"
Contract == Promise!StreamSpec

(***************************************************************************)
(* Storage the kernel uses is never freed or used again: it belongs to the *)
(* request of the open device, or was abandoned with it, and then the      *)
(* driver opens no more.  Without a lock, one thread at a time uses it.    *)
(***************************************************************************)
BufferOwnership ==
    /\ request # "none" => context \/ abandoned
    /\ context => device /\ request # "none"
    /\ abandoned => ~device
    /\ caller \in {"drain", "abort", "close"} => reader = "none"

(***************************************************************************)
(* Without a failure of CyAPI, the kernel or the bus no call reports an    *)
(* error: aborting the last request of a session is none.                  *)
(***************************************************************************)
ErrorsJustified == failures = 0 /\ ~quarantined => ~failed

(***************************************************************************)
(* Once a session stops it ends, though the kernel may never give back the *)
(* request that was aborted.                                               *)
(***************************************************************************)
CloseReturns == caller = "join" ~> caller = "closed"
=============================================================================
