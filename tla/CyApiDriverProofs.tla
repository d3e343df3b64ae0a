-------------------------- MODULE CyApiDriverProofs --------------------------
(***************************************************************************)
(* Proofs about CyApiDriver for every request size, any number of          *)
(* sessions, bytes and failures: storage the kernel uses is never freed or *)
(* used again, no error is made up, and the driver implements UsbDriver.   *)
(***************************************************************************)
EXTENDS CyApiDriver, SequenceTheorems, TLAPS

USE DEF driverVars, requestVars, historyVars, vars

\* The parts of TypeOK.
Flags ==
    /\ device \in BOOLEAN /\ cancelled \in BOOLEAN /\ quarantined \in BOOLEAN
    /\ context \in BOOLEAN /\ abandoned \in BOOLEAN
    /\ failed \in BOOLEAN /\ drained \in BOOLEAN

Places ==
    /\ request \in {"none", "flying", "aborting", "done"}
    /\ status \in {"completed", "error", "cancelled"}
    /\ reader \in {"none", "ready", "read", "begin", "wait"}
    /\ caller \in {"closed", "idle", "join", "drain", "abort", "close"}

Numbers ==
    /\ bytes \in 0..ChunkBytes
    /\ received \in 0..MaxBytes
    /\ sessions \in 0..MaxSessions /\ failures \in 0..MaxFailures

\* Where the threads are tells the state of the session.
PlaceInv ==
    /\ cancelled <=> caller # "idle"
    /\ reader # "none" => caller \in {"idle", "join"}
    /\ caller \in {"idle", "join", "drain", "abort"} => device
    /\ caller \in {"close", "closed"} => ~context
    /\ caller = "abort" => context
    /\ quarantined <=> abandoned

\* An error has a cause.
CauseInv ==
    /\ failures = 0 /\ ~quarantined => ~failed
    /\ failures = 0 /\ request = "done" => status # "error"
    /\ request = "aborting" => cancelled
    /\ request = "done" /\ status = "cancelled" => cancelled

\* How many received bytes the request holds for the caller.
Held ==
    IF context /\ request = "done" /\ status = "completed" THEN bytes ELSE 0

\* Received bytes are handed over or held, in order.
StreamInv ==
    /\ taken \in Seq(Nat)
    /\ taken = Promise!Stream(Len(taken))
    /\ received = Len(taken) + Held

\* Where the stream begins and ends.
EndInv ==
    /\ caller = "closed" => received = 0 /\ taken = <<>> /\ ~drained /\ ~failed
    /\ drained => caller = "close"

IInv ==
    /\ TypeOK
    /\ BufferOwnership /\ PlaceInv /\ CauseInv
    /\ StreamInv /\ EndInv

-----------------------------------------------------------------------------
\* Every step keeps every part of the invariant.

\* The flags are Booleans.
LEMMA FlagsStep ==
  ASSUME Flags, Places, Numbers, BufferOwnership, PlaceInv, CauseInv,
         StreamInv, EndInv, Next
  PROVE  Flags'
<1>1. CASE NewCall
  BY <1>1, DriverAssumption, ZenonT(20)
  DEF Flags, NewCall, Open, BeginWorks, OpenFails, Failure, Cancel
<1>2. CASE Caller
  BY <1>2, DriverAssumption, ZenonT(20)
  DEF Flags, Caller, Join, Quiet, DrainEmpty, DrainCompletes, CompleteRead,
      Benign, Refused, Returned, DrainAborts, Quarantine, CloseEnds
<1>3. CASE Reader
  BY <1>3, DriverAssumption, ZenonT(20)
  DEF Flags, Reader, ReaderEnters, StopRequested, Quiet, ReaderLooks,
      ReaderBegins, BeginWorks, BeginFails, Failure, ReaderCompletes,
      CompleteRead, Benign, Refused, ReaderGivesUp
<1>4. CASE Bus
  BY <1>4, DriverAssumption, ZenonT(20)
  DEF Flags, Bus, RequestCompletes, InFlight, RequestedBytes, RequestOnly,
      RequestFails, Failure, RequestAborts
<1> QED
  BY <1>1, <1>2, <1>3, <1>4 DEF Next

\* The threads and the request are in known places.
LEMMA PlacesStep ==
  ASSUME Flags, Places, Numbers, BufferOwnership, PlaceInv, CauseInv,
         StreamInv, EndInv, Next
  PROVE  Places'
<1>1. CASE NewCall
  BY <1>1, DriverAssumption, SMTT(20)
  DEF Places, NewCall, Open, BeginWorks, OpenFails, Failure, Cancel
<1>2. CASE Caller
  BY <1>2, DriverAssumption, SMTT(20)
  DEF Places, Caller, Join, Quiet, DrainEmpty, DrainCompletes, CompleteRead,
      Benign, Refused, Returned, DrainAborts, Quarantine, CloseEnds
<1>3. CASE Reader
  BY <1>3, DriverAssumption, SMTT(20)
  DEF Places, Reader, ReaderEnters, StopRequested, Quiet, ReaderLooks,
      ReaderBegins, BeginWorks, BeginFails, Failure, ReaderCompletes,
      CompleteRead, Benign, Refused, ReaderGivesUp
<1>4. CASE Bus
  BY <1>4, DriverAssumption, SMTT(20)
  DEF Places, Bus, RequestCompletes, InFlight, RequestedBytes, RequestOnly,
      RequestFails, Failure, RequestAborts
<1> QED
  BY <1>1, <1>2, <1>3, <1>4 DEF Next

\* The counters keep their bounds.
LEMMA NumbersStep ==
  ASSUME Flags, Places, Numbers, BufferOwnership, PlaceInv, CauseInv,
         StreamInv, EndInv, Next
  PROVE  Numbers'
<1>1. CASE NewCall
  BY <1>1, DriverAssumption, SMTT(20)
  DEF Numbers, NewCall, Open, BeginWorks, OpenFails, Failure, Cancel
<1>2. CASE Caller
  BY <1>2, DriverAssumption, SMTT(20)
  DEF Numbers, Caller, Join, Quiet, DrainEmpty, DrainCompletes, CompleteRead,
      Benign, Refused, Returned, DrainAborts, Quarantine, CloseEnds
<1>3. CASE Reader
  BY <1>3, DriverAssumption, SMTT(20)
  DEF Numbers, Reader, ReaderEnters, StopRequested, Quiet, ReaderLooks,
      ReaderBegins, BeginWorks, BeginFails, Failure, ReaderCompletes,
      CompleteRead, Benign, Refused, ReaderGivesUp
<1>4. CASE Bus
  BY <1>4, DriverAssumption, SMTT(20)
  DEF Numbers, Bus, RequestCompletes, InFlight, RequestedBytes, RequestOnly,
      RequestFails, Failure, RequestAborts
<1> QED
  BY <1>1, <1>2, <1>3, <1>4 DEF Next

\* Storage stays with its owner.
LEMMA BufferOwnershipStep ==
  ASSUME Flags, Places, Numbers, BufferOwnership, PlaceInv, CauseInv,
         StreamInv, EndInv, Next
  PROVE  BufferOwnership'
<1>1. CASE NewCall
  BY <1>1, DriverAssumption, SMTT(20)
  DEF BufferOwnership, PlaceInv, Places, NewCall, Open, BeginWorks, OpenFails,
      Failure, Cancel
<1>2. CASE Caller
  BY <1>2, DriverAssumption, SMTT(20)
  DEF BufferOwnership, PlaceInv, Places, Caller, Join, Quiet, DrainEmpty,
      DrainCompletes, CompleteRead, Benign, Refused, Returned, DrainAborts,
      Quarantine, CloseEnds
<1>3. CASE Reader
  BY <1>3, DriverAssumption, SMTT(20)
  DEF BufferOwnership, PlaceInv, Places, Reader, ReaderEnters, StopRequested,
      Quiet, ReaderLooks, ReaderBegins, BeginWorks, BeginFails, Failure,
      ReaderCompletes, CompleteRead, Benign, Refused, ReaderGivesUp
<1>4. CASE Bus
  BY <1>4, DriverAssumption, SMTT(20)
  DEF BufferOwnership, PlaceInv, Places, Bus, RequestCompletes, InFlight,
      RequestedBytes, RequestOnly, RequestFails, Failure, RequestAborts
<1> QED
  BY <1>1, <1>2, <1>3, <1>4 DEF Next

\* The session follows its caller.
LEMMA PlaceInvStep ==
  ASSUME Flags, Places, Numbers, BufferOwnership, PlaceInv, CauseInv,
         StreamInv, EndInv, Next
  PROVE  PlaceInv'
<1>1. CASE NewCall
  BY <1>1, DriverAssumption, SMTT(20)
  DEF PlaceInv, BufferOwnership, Places, NewCall, Open, BeginWorks, OpenFails,
      Failure, Cancel
<1>2. CASE Caller
  BY <1>2, DriverAssumption, SMTT(20)
  DEF PlaceInv, BufferOwnership, Places, Caller, Join, Quiet, DrainEmpty,
      DrainCompletes, CompleteRead, Benign, Refused, Returned, DrainAborts,
      Quarantine, CloseEnds
<1>3. CASE Reader
  BY <1>3, DriverAssumption, SMTT(20)
  DEF PlaceInv, BufferOwnership, Places, Reader, ReaderEnters, StopRequested,
      Quiet, ReaderLooks, ReaderBegins, BeginWorks, BeginFails, Failure,
      ReaderCompletes, CompleteRead, Benign, Refused, ReaderGivesUp
<1>4. CASE Bus
  BY <1>4, DriverAssumption, SMTT(20)
  DEF PlaceInv, BufferOwnership, Places, Bus, RequestCompletes, InFlight,
      RequestedBytes, RequestOnly, RequestFails, Failure, RequestAborts
<1> QED
  BY <1>1, <1>2, <1>3, <1>4 DEF Next

\* An error needs a cause.
LEMMA CauseInvStep ==
  ASSUME Flags, Places, Numbers, BufferOwnership, PlaceInv, CauseInv,
         StreamInv, EndInv, Next
  PROVE  CauseInv'
<1>1. CASE NewCall
  BY <1>1, DriverAssumption, SMTT(20)
  DEF CauseInv, BufferOwnership, PlaceInv, Places, Numbers, NewCall, Open,
      BeginWorks, OpenFails, Failure, Cancel
<1>2. CASE Caller
  <2>1. CASE DrainCompletes
    <3>1. failed' => failed \/ (status # "completed" /\ ~(cancelled /\ status = "cancelled"))
      BY <2>1, Zenon DEF DrainCompletes, CompleteRead, Benign
    <3>2. request = "done" /\ request' = "none"
          /\ UNCHANGED <<quarantined, cancelled, failures>>
      BY <2>1 DEF DrainCompletes, CompleteRead
    <3>3. status \in {"completed", "error", "cancelled"}
      BY DEF Places
    <3> QED
      BY <3>1, <3>2, <3>3 DEF CauseInv
  <2>2. CASE Caller /\ ~DrainCompletes
    BY <2>2, DriverAssumption, SMTT(20)
    DEF CauseInv, BufferOwnership, PlaceInv, Places, Numbers, Caller, Join,
        Quiet, DrainEmpty, DrainAborts, Quarantine, CloseEnds
  <2> QED
    BY <1>2, <2>1, <2>2
<1>3. CASE Reader
  <2>1. CASE ReaderCompletes
    <3>1. failed' => failed \/ (status # "completed" /\ ~(cancelled /\ status = "cancelled"))
      BY <2>1, Zenon DEF ReaderCompletes, CompleteRead, Benign
    <3>2. request = "done" /\ request' = "none"
          /\ UNCHANGED <<quarantined, cancelled, failures>>
      BY <2>1 DEF ReaderCompletes, CompleteRead
    <3>3. status \in {"completed", "error", "cancelled"}
      BY DEF Places
    <3> QED
      BY <3>1, <3>2, <3>3 DEF CauseInv
  <2>2. CASE Reader /\ ~ReaderCompletes
    BY <2>2, DriverAssumption, SMTT(20)
    DEF CauseInv, BufferOwnership, PlaceInv, Places, Numbers, Reader,
        ReaderEnters, StopRequested, Quiet, ReaderLooks, ReaderBegins,
        BeginWorks, BeginFails, Failure, ReaderGivesUp
  <2> QED
    BY <1>3, <2>1, <2>2
<1>4. CASE Bus
  BY <1>4, DriverAssumption, SMTT(20)
  DEF CauseInv, BufferOwnership, PlaceInv, Places, Numbers, Bus,
      RequestCompletes, InFlight, RequestedBytes, RequestOnly, RequestFails,
      Failure, RequestAborts
<1> QED
  BY <1>1, <1>2, <1>3, <1>4 DEF Next

\* The stream begins empty and ends complete.
LEMMA EndInvStep ==
  ASSUME Flags, Places, Numbers, BufferOwnership, PlaceInv, CauseInv,
         StreamInv, EndInv, Next
  PROVE  EndInv'
<1>1. CASE NewCall
  BY <1>1, DriverAssumption, SMTT(20)
  DEF EndInv, BufferOwnership, PlaceInv, Places, NewCall, Open, BeginWorks,
      OpenFails, Failure, Cancel
<1>2. CASE Caller
  <2>1. CASE DrainCompletes
    <3>1. caller' = IF Refused \/ Returned = 0 THEN "close" ELSE "drain"
      BY <2>1 DEF DrainCompletes
    <3>2. drained' => Refused \/ Returned = 0
      BY <2>1, Zenon DEF DrainCompletes
    <3> QED
      BY <3>1, <3>2 DEF EndInv
  <2>2. CASE Caller /\ ~DrainCompletes
    BY <2>2, DriverAssumption, SMTT(20)
    DEF EndInv, BufferOwnership, PlaceInv, Places, Caller, Join, Quiet,
        DrainEmpty, DrainAborts, Quarantine, CloseEnds
  <2> QED
    BY <1>2, <2>1, <2>2
<1>3. CASE Reader
  BY <1>3, DriverAssumption, SMTT(20)
  DEF EndInv, BufferOwnership, PlaceInv, Places, Reader, ReaderEnters,
      StopRequested, Quiet, ReaderLooks, ReaderBegins, BeginWorks, BeginFails,
      Failure, ReaderCompletes, CompleteRead, Benign, Refused, ReaderGivesUp
<1>4. CASE Bus
  BY <1>4, DriverAssumption, SMTT(20)
  DEF EndInv, BufferOwnership, PlaceInv, Places, Bus, RequestCompletes,
      InFlight, RequestedBytes, RequestOnly, RequestFails, Failure,
      RequestAborts
<1> QED
  BY <1>1, <1>2, <1>3, <1>4 DEF Next

-----------------------------------------------------------------------------
\* The stream.

\* A stream goes on with the bytes that follow it.
LEMMA Continued ==
  ASSUME NEW n \in Nat, NEW m \in Nat
  PROVE  Promise!Stream(n) \o [i \in 1..m |-> n + i] = Promise!Stream(n + m)
<1> DEFINE s == Promise!Stream(n)
           u == [i \in 1..m |-> n + i]
           t == s \o u
           r == Promise!Stream(n + m)
<1>1. s \in Seq(Nat) /\ Len(s) = n /\ \A i \in 1..n : s[i] = i
  BY DEF Promise!Stream
<1>2. u \in Seq(Nat) /\ Len(u) = m /\ \A i \in 1..m : u[i] = n + i
  OBVIOUS
<1>3. r \in Seq(Nat) /\ Len(r) = n + m /\ \A i \in 1..n + m : r[i] = i
  BY DEF Promise!Stream
<1> HIDE DEF s, u, r
<1>4. /\ t \in Seq(Nat) /\ Len(t) = Len(s) + Len(u)
      /\ \A i \in 1..Len(s) + Len(u) : t[i] = IF i <= Len(s) THEN s[i] ELSE u[i - Len(s)]
  BY <1>1, <1>2, ConcatProperties, Zenon
<1> HIDE DEF t
<1>5. /\ Len(t) = n + m
      /\ \A i \in 1..n + m : t[i] = IF i <= n THEN s[i] ELSE u[i - n]
  BY <1>1, <1>2, <1>4
<1>6. \A i \in 1..n + m : t[i] = i
  <2> TAKE i \in 1..n + m
  <2>1. CASE i <= n
    BY <1>1, <1>5, <2>1
  <2>2. CASE i > n
    <3>1. i - n \in 1..m
      BY <2>2
    <3>2. t[i] = u[i - n]
      BY <1>5, <2>2
    <3>3. u[i - n] = n + (i - n)
      BY <1>2, <3>1
    <3>4. n + (i - n) = i
      OBVIOUS
    <3> QED
      BY <3>2, <3>3, <3>4
  <2> QED
    BY <2>1, <2>2
<1>7. t = r
  BY <1>3, <1>4, <1>5, <1>6, SeqEqual
<1> QED
  BY <1>7 DEF s, t, u, r

\* A thread that completes a request hands over what it held.
LEMMA HandsOver ==
  ASSUME Numbers, StreamInv, CompleteRead, context
  PROVE  /\ UNCHANGED received /\ Held' = 0 /\ Len(taken) \in Nat
         /\ taken' = Promise!Stream(received)
         /\ taken' \in Seq(Nat) /\ Len(taken') = received
         /\ received = Len(taken) + Held
<1>1. UNCHANGED received /\ Held' = 0
  BY DEF CompleteRead, Held
<1>2. /\ received \in Nat /\ bytes \in Nat /\ Len(taken) \in Nat
      /\ received = Len(taken) + Held /\ taken = Promise!Stream(Len(taken))
  BY DEF Numbers, StreamInv
<1>3. taken' = Promise!Stream(received)
  <2>1. CASE status = "completed"
    <3>1. Held = bytes
      BY <2>1 DEF CompleteRead, Held
    <3>2. taken' = taken \o [i \in 1..bytes |-> received - bytes + i]
      BY <2>1, Zenon DEF CompleteRead
    <3>3. taken' = Promise!Stream(Len(taken)) \o [i \in 1..bytes |-> Len(taken) + i]
      <4>1. received - bytes = Len(taken)
        BY <1>2, <3>1
      <4> QED
        BY <1>2, <3>2, <4>1, Zenon
    <3>4. Promise!Stream(Len(taken)) \o [i \in 1..bytes |-> Len(taken) + i]
            = Promise!Stream(Len(taken) + bytes)
      BY <1>2, Continued
    <3> QED
      BY <1>2, <3>1, <3>3, <3>4
  <2>2. CASE status # "completed"
    <3>1. Held = 0 /\ taken' = taken
      BY <2>2 DEF CompleteRead, Held
    <3> QED
      BY <1>2, <3>1
  <2> QED
    BY <2>1, <2>2
<1>4. Promise!Stream(received) \in Seq(Nat) /\ Len(Promise!Stream(received)) = received
  BY <1>2 DEF Promise!Stream
<1> QED
  BY <1>1, <1>2, <1>3, <1>4

\* It hands over some bytes, or none and perhaps an error.
LEMMA Completing ==
  ASSUME Flags, Numbers, StreamInv, CompleteRead, context
  PROVE  \/ /\ status = "completed" /\ bytes # 0
            /\ UNCHANGED failed
            /\ taken' = Promise!Stream(received)
            /\ received \in Len(taken) + 1..received
         \/ /\ Returned = 0
            /\ UNCHANGED taken /\ taken = Promise!Stream(received)
            /\ failed' = failed \/ failed' = TRUE
<1>1. /\ taken' = Promise!Stream(received) /\ Len(taken) \in Nat
      /\ received = Len(taken) + Held /\ taken = Promise!Stream(Len(taken))
      /\ bytes \in Nat
  BY HandsOver DEF StreamInv, Numbers
<1>2. CASE status = "completed" /\ bytes # 0
  <2>1. Held = bytes /\ UNCHANGED failed
    BY <1>2 DEF CompleteRead, Held
  <2>2. received \in Len(taken) + 1..received
    BY <1>1, <1>2, <2>1
  <2> QED
    BY <1>1, <1>2, <2>1, <2>2
<1>3. CASE ~(status = "completed" /\ bytes # 0)
  <2>1. Held = 0 /\ Returned = 0
    BY <1>3 DEF Held, Returned
  <2>2. taken = Promise!Stream(received) /\ UNCHANGED taken
    BY <1>1, <2>1
  <2>3. failed' = failed \/ failed' = TRUE
    <3>1. failed' = failed \/ failed' = (failed \/ ~Benign)
      BY Zenon DEF CompleteRead
    <3> QED
      BY <3>1, Zenon DEF Flags
  <2> QED
    BY <2>1, <2>2, <2>3
<1> QED
  BY <1>2, <1>3

\* The reader and drain complete requests of the open device only.
LEMMA Owned ==
  ASSUME BufferOwnership, PlaceInv, ReaderCompletes \/ DrainCompletes
  PROVE  context /\ device /\ CompleteRead
BY DEF BufferOwnership, PlaceInv, ReaderCompletes, DrainCompletes, CompleteRead

\* Bytes are handed over once and in order.
LEMMA StreamStep ==
  ASSUME Flags, Places, Numbers, BufferOwnership, PlaceInv, CauseInv,
         StreamInv, EndInv, Next
  PROVE  StreamInv'
<1>1. CASE ReaderCompletes \/ DrainCompletes
  <2>1. context /\ CompleteRead
    BY <1>1, Owned
  <2>2. /\ UNCHANGED received /\ Held' = 0
        /\ taken' = Promise!Stream(received)
        /\ taken' \in Seq(Nat) /\ Len(taken') = received
    BY <2>1, HandsOver
  <2>3. received \in Nat
    BY DEF Numbers
  <2> QED
    BY <2>2, <2>3 DEF StreamInv
<1>2. CASE CloseEnds
  <2>1. taken' = <<>> /\ received' = 0 /\ Held' = 0
    BY <1>2 DEF CloseEnds, PlaceInv, Held
  <2>2. Promise!Stream(0) = <<>>
    BY DEF Promise!Stream
  <2> QED
    BY <2>1, <2>2 DEF StreamInv
<1>3. CASE RequestCompletes
  <2>1. UNCHANGED <<context, taken>> /\ Held = 0
        /\ \E n \in Nat : /\ received' = IF context THEN received + n ELSE received
                          /\ Held' = IF context THEN n ELSE 0
    BY <1>3, DriverAssumption
    DEF RequestCompletes, RequestOnly, InFlight, Held, RequestedBytes
  <2>2. received' = Len(taken) + Held'
    BY <2>1 DEF StreamInv
  <2> QED
    BY <2>1, <2>2 DEF StreamInv
<1>4. CASE UNCHANGED <<taken, received>> /\ Held' = Held
  BY <1>4 DEF StreamInv
<1>5. NewCall => UNCHANGED <<taken, received>> /\ Held' = Held
  BY DEF NewCall, Open, OpenFails, Cancel, BeginWorks, Held, PlaceInv
<1>6. Caller => \/ DrainCompletes \/ CloseEnds
                \/ UNCHANGED <<taken, received>> /\ Held' = Held
  BY DEF Caller, Join, DrainEmpty, DrainAborts, Quarantine, Quiet, Held
<1>7. Reader => \/ ReaderCompletes
                \/ UNCHANGED <<taken, received>> /\ Held' = Held
  BY DEF Reader, ReaderEnters, ReaderLooks, ReaderBegins, ReaderGivesUp, BeginWorks,
         BeginFails, Quiet, Held
<1>8. Bus => \/ RequestCompletes
             \/ UNCHANGED <<taken, received>> /\ Held' = Held
  BY DEF Bus, RequestFails, RequestAborts, RequestOnly, InFlight, Held
<1> QED
  BY <1>1, <1>2, <1>3, <1>4, <1>5, <1>6, <1>7, <1>8 DEF Next

-----------------------------------------------------------------------------
\* The invariant.

LEMMA TypeParts ==
  TypeOK <=> Flags /\ Places /\ Numbers /\ taken \in Seq(Nat)
BY DEF TypeOK, Flags, Places, Numbers

LEMMA InvInit == Init => IInv
<1> SUFFICES ASSUME Init PROVE IInv
  OBVIOUS
<1>1. Flags
  BY Zenon DEF Init, Flags
<1>2. Places /\ Numbers /\ taken \in Seq(Nat)
  BY DriverAssumption DEF Init, Places, Numbers
<1>3. BufferOwnership /\ PlaceInv /\ CauseInv /\ EndInv
  BY DEF Init, BufferOwnership, PlaceInv, CauseInv, EndInv
<1>4. StreamInv
  <2>1. Promise!Stream(0) = <<>>
    BY DEF Promise!Stream
  <2> QED
    BY <2>1 DEF Init, StreamInv, Held
<1> QED
  BY <1>1, <1>2, <1>3, <1>4, TypeParts DEF IInv

LEMMA InvStep == IInv /\ [Next]_vars => IInv'
<1> SUFFICES ASSUME IInv, [Next]_vars PROVE IInv'
  OBVIOUS
<1> Flags /\ Places /\ Numbers
  BY TypeParts DEF IInv
<1> BufferOwnership /\ PlaceInv /\ CauseInv /\ StreamInv /\ EndInv
  BY DEF IInv
<1>1. CASE Next
  <2>1. Flags' /\ Places' /\ Numbers' /\ StreamInv'
    BY <1>1, FlagsStep, PlacesStep, NumbersStep, StreamStep
  <2>2. TypeOK'
    BY <2>1 DEF TypeOK, Flags, Places, Numbers, StreamInv
  <2>3. BufferOwnership' /\ PlaceInv' /\ CauseInv' /\ EndInv'
    BY <1>1, BufferOwnershipStep, PlaceInvStep, CauseInvStep, EndInvStep
  <2> QED
    BY <2>1, <2>2, <2>3 DEF IInv
<1>2. CASE UNCHANGED vars
  BY <1>2
  DEF IInv, TypeOK, BufferOwnership, PlaceInv, CauseInv, StreamInv, Held, EndInv
<1> QED
  BY <1>1, <1>2

LEMMA Inductive == Spec => []IInv
BY InvInit, InvStep, PTL DEF Spec

(***************************************************************************)
(* Every variable keeps its type: no transfer writes past its buffer,      *)
(* however large a request is.                                             *)
(***************************************************************************)
THEOREM TypeCorrect == Spec => []TypeOK
<1>1. IInv => TypeOK
  BY DEF IInv
<1> QED
  BY <1>1, Inductive, PTL

(***************************************************************************)
(* Storage the kernel uses is never freed or used again, and no two        *)
(* threads use it: the request of the open device, or the one abandoned    *)
(* with a device that is never opened again.                               *)
(***************************************************************************)
THEOREM OwnershipCorrect == Spec => []BufferOwnership
<1>1. IInv => BufferOwnership
  BY DEF IInv
<1> QED
  BY <1>1, Inductive, PTL

(***************************************************************************)
(* The driver makes up no error: aborting the last request is none.        *)
(***************************************************************************)
THEOREM ErrorsCorrect == Spec => []ErrorsJustified
<1>1. IInv => ErrorsJustified
  BY DEF IInv, CauseInv, ErrorsJustified
<1> QED
  BY <1>1, Inductive, PTL

-----------------------------------------------------------------------------
\* The driver implements UsbDriver.

\* A step the stream does not see.
LEMMA Unseen ==
  ASSUME UNCHANGED <<caller, cancelled, received, taken, failed, drained>>
  PROVE  UNCHANGED Promise!streamVars
BY DEF Promise!streamVars

LEMMA RefinesInit == Init => Promise!StreamInit
BY DEF Init, Promise!StreamInit

LEMMA RefinesStep ==
  ASSUME IInv, Next
  PROVE  [Promise!StreamNext]_(Promise!streamVars)
<1> USE DEF Promise!StreamNext
<1> Flags /\ Places /\ Numbers
  BY TypeParts DEF IInv
<1> BufferOwnership /\ PlaceInv /\ StreamInv /\ EndInv
  BY DEF IInv
<1>1. CASE Open
  BY <1>1 DEF Open, BeginWorks, Promise!Start
<1>2. CASE OpenFails
  BY <1>2 DEF OpenFails, Promise!streamVars
<1>3. CASE Cancel
  BY <1>3 DEF Cancel, PlaceInv, Promise!Stop
<1>4. CASE RequestCompletes
  <2>1. UNCHANGED <<caller, cancelled, taken, failed, drained>>
        /\ received' \in Nat
        /\ (received' = received \/ (context /\ received' > received))
    BY <1>4, DriverAssumption
    DEF RequestCompletes, RequestOnly, RequestedBytes, Numbers
  <2>2. CASE received' = received
    BY <2>1, <2>2, Unseen
  <2>3. CASE context /\ received' > received
    <3>1. caller # "closed" /\ ~drained
      BY <2>3 DEF PlaceInv, EndInv
    <3> QED
      BY <2>1, <2>3, <3>1 DEF Promise!Receive
  <2> QED
    BY <2>1, <2>2, <2>3
<1>5. CASE ReaderBegins \/ ReaderGivesUp
  <2>1. caller # "closed" /\ UNCHANGED <<caller, cancelled, received, taken, drained>>
        /\ (UNCHANGED failed \/ failed' = TRUE)
    BY <1>5
    DEF ReaderBegins, ReaderGivesUp, BeginWorks, BeginFails, PlaceInv
  <2>2. CASE UNCHANGED failed
    BY <2>1, <2>2, Unseen
  <2>3. CASE failed' = TRUE
    BY <2>1, <2>3 DEF Promise!Fail
  <2> QED
    BY <2>1, <2>2, <2>3
<1>6. CASE ReaderCompletes
  <2>1. context /\ CompleteRead
    BY <1>6, Owned
  <2>2. caller # "closed" /\ ~drained
        /\ UNCHANGED <<caller, cancelled, received, drained>>
    BY <1>6 DEF ReaderCompletes, CompleteRead, PlaceInv, EndInv
  <2>3. CASE UNCHANGED failed /\ taken' = Promise!Stream(received)
             /\ received \in Len(taken) + 1..received
    BY <2>2, <2>3 DEF Promise!HandOver
  <2>4. CASE UNCHANGED <<taken, failed>>
    BY <2>2, <2>4, Unseen
  <2>5. CASE UNCHANGED taken /\ failed' = TRUE
    BY <2>2, <2>5 DEF Promise!Fail
  <2> QED
    BY <2>1, <2>3, <2>4, <2>5, Completing
<1>7. CASE DrainCompletes
  <2>1. context /\ CompleteRead
    BY <1>7, Owned
  <2>2. /\ caller # "closed" /\ caller' # "closed" /\ cancelled /\ ~drained
        /\ UNCHANGED <<cancelled, received>>
        /\ drained' = (Refused \/ Returned = 0)
    BY <1>7 DEF DrainCompletes, CompleteRead, PlaceInv, EndInv
  <2>3. CASE status = "completed" /\ bytes # 0 /\ UNCHANGED failed
             /\ taken' = Promise!Stream(received)
             /\ received \in Len(taken) + 1..received
    <3>1. ~(Refused \/ Returned = 0)
      BY <2>3 DEF Refused, Returned
    <3>2. drained = FALSE /\ drained' = FALSE
      BY <2>2, <3>1, Zenon DEF Flags
    <3> QED
      BY <2>2, <2>3, <3>2 DEF Promise!HandOver
  <2>4. CASE Returned = 0 /\ UNCHANGED taken /\ taken = Promise!Stream(received)
             /\ (failed' = failed \/ failed' = TRUE)
    <3>1. drained' = TRUE
      BY <2>2, <2>4
    <3>2. failed => failed'
      BY <2>4
    <3> QED
      BY <2>2, <2>4, <3>1, <3>2 DEF Promise!Drain
  <2> QED
    BY <2>1, <2>3, <2>4, Completing
<1>8. CASE DrainEmpty
  <2>1. taken = Promise!Stream(received)
    BY <1>8 DEF DrainEmpty, StreamInv, Held
  <2> QED
    BY <1>8, <2>1 DEF DrainEmpty, PlaceInv, Promise!Drain
<1>9. CASE Quarantine
  BY <1>9 DEF Quarantine, PlaceInv, Promise!Drain
<1>10. CASE CloseEnds
  BY <1>10 DEF CloseEnds, Promise!Close
<1>11. CASE \/ ReaderEnters \/ ReaderLooks
            \/ RequestFails \/ RequestAborts
  BY <1>11, Unseen
  DEF ReaderEnters, ReaderLooks, RequestFails, RequestAborts, RequestOnly, Quiet
<1>12. CASE Join \/ DrainAborts
  BY <1>12 DEF Join, DrainAborts, Quiet, Promise!streamVars
<1> QED
  <2>1. CASE NewCall
    BY <1>1, <1>2, <1>3, <2>1 DEF NewCall
  <2>2. CASE Caller
    BY <1>7, <1>8, <1>9, <1>10, <1>12, <2>2 DEF Caller
  <2>3. CASE Reader
    BY <1>5, <1>6, <1>11, <2>3 DEF Reader
  <2>4. CASE Bus
    BY <1>4, <1>11, <2>4 DEF Bus
  <2> QED
    BY <2>1, <2>2, <2>3, <2>4 DEF Next

(***************************************************************************)
(* The Windows driver implements UsbDriver: for requests of every size it  *)
(* hands over the bytes they complete with, once and in order, and a drain *)
(* that ends without an error left none behind.                            *)
(***************************************************************************)
THEOREM Implements == Spec => Contract
<1>1. Init => Promise!StreamInit
  BY RefinesInit
<1>2. IInv /\ [Next]_vars => [Promise!StreamNext]_(Promise!streamVars)
  <2>1. CASE Next
    BY <2>1, RefinesStep
  <2>2. CASE UNCHANGED vars
    BY <2>2, Unseen
  <2> QED
    BY <2>1, <2>2
<1> QED
  BY <1>1, <1>2, Inductive, PTL DEF Spec, Contract, Promise!StreamSpec
=============================================================================
