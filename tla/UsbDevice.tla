----------------------------- MODULE UsbDevice -----------------------------
(***************************************************************************)
(* The USB board backend, lib/Runtime/UsbCIMDevice.cpp: the calling thread *)
(* that opens, executes and closes under executionMutex_, the receive      *)
(* thread it starts, the state the two share under receiveMutex_, and, as  *)
(* their environment, the byte-stream driver (UsbDriver.h) and the board.  *)
(*                                                                         *)
(* One action is what a thread does between two points where the other     *)
(* thread can be seen: a critical section of receiveMutex_, a driver call  *)
(* or a serial transaction.  executionMutex_ admits one API call at a      *)
(* time, so one program counter stands for every calling thread.           *)
(***************************************************************************)
EXTENDS Integers, Sequences, FiniteSets

CONSTANTS
    Slots,           \* physical Core/Macro weight slots
    Images,          \* weight identity and compensation mode, compared as one
    Macros,          \* Macro selections
    Keys,            \* (Core, Cache row) of a reply header
    Channels,        \* logical USB channels
    PLLWords,        \* words the PLL register can hold
    PLLWord,         \* the configured word of each phase
    PLLConfigured,   \* whether the configuration names a PLL port
    PacketFlits,     \* kResponseRecords: flits of a reply packet
    WriteChunks,     \* driver writes one operation needs at most
    ReadRecords,     \* records that fit one driver read
    Programs,        \* the programs callers execute
    BoardQuiet,      \* no reply to an earlier session is left when a driver opens
    None,            \* no value
    Torn,            \* board state after a write of which a part landed
    MaxCalls,        \* bound: API calls
    MaxMishaps       \* bound: environment failures

Phases == {"Configuration", "Work", "Readback"}

Operation == [phase : Phases, deferred : BOOLEAN,
              slot : Slots \cup {None}, image : Images \cup {None}]
Batch == [macro : Macros, targets : Seq(Keys)]
Program == [residency : BOOLEAN, capture : BOOLEAN,
            operations : Seq(Operation), batches : Seq(Batch)]

(***************************************************************************)
(* CIMBoardRunner builds a program for the residency table from deferred   *)
(* weights only; a raw program carries pre-encoded weight flits, and those *)
(* clear the table first.  Only Configuration operations carry weights.    *)
(***************************************************************************)
ProgramAssumption ==
    \A p \in Programs :
        /\ p \in Program
        /\ \A i \in DOMAIN p.operations :
              LET op == p.operations[i]
              IN  /\ op.deferred => op.slot \in Slots /\ op.image \in Images
                  /\ op.slot # None => op.image # None
                  /\ p.residency /\ ~op.deferred => op.slot = None
                  /\ op.phase # "Configuration" => op.slot = None

ASSUME ConstantAssumption ==
    /\ None \notin Slots \cup Images \cup Macros \cup Keys \cup PLLWords
    /\ None \notin {"driver", "format", "overflow"}
    /\ Torn \notin Images \cup Macros \cup PLLWords
    /\ Torn # None
    /\ IsFiniteSet(Channels)
    /\ PLLWord \in [Phases -> PLLWords]
    /\ PLLConfigured \in BOOLEAN
    /\ BoardQuiet \in BOOLEAN
    /\ PacketFlits \in Nat \ {0}
    /\ WriteChunks \in Nat \ {0}
    /\ ReadRecords \in Nat \ {0}
    /\ MaxCalls \in Nat
    /\ MaxMishaps \in Nat
ASSUME ProgramsAssumption == ProgramAssumption

VARIABLES
    \* What executionMutex_ protects.
    opened, faulted, verifiedPLL, resident,
    \* What receiveMutex_ protects.
    stopRequested, loopStarted, receiveError,
    responses, partial, remaining, codecHalf,
    \* The receive thread: its place, and the bytes it read but has not
    \* appended yet.  closeUnlocked uses them too once the thread is joined.
    reader, chunk, chunkHalf,
    \* The call in progress: its place, and the locals of open and execute.
    pc, after, program, opIndex, workPhase, phase, job, chunksLeft, batchIndex,
    pending, asked, wanted, readbacks, pllVerified, result, calls,
    \* The driver: its handle, and the bytes the host controller holds.
    driverOpen, cancelled, linkUp, wire, wireHalf,
    \* The board.
    slots, pllRegister, selected, work, owed, sending,
    \* How often the environment failed so far, and whether a wait ran out.
    mishaps, timedOut

sessionVars == <<opened, faulted, verifiedPLL, resident>>
receiveVars == <<stopRequested, loopStarted, receiveError,
                 responses, partial, remaining, codecHalf>>
readerVars == <<reader, chunk, chunkHalf>>
localVars == <<after, program, opIndex, workPhase, phase, job, chunksLeft,
               batchIndex, pending, asked, wanted, readbacks, pllVerified>>
callerVars == <<pc, localVars, result, calls>>
driverVars == <<driverOpen, cancelled, linkUp, wire, wireHalf>>
boardVars == <<slots, pllRegister, selected, work, owed, sending>>
ghostVars == <<mishaps, timedOut>>
vars == <<sessionVars, receiveVars, readerVars, callerVars, driverVars,
          boardVars, ghostVars>>

-----------------------------------------------------------------------------
\* Values.

Weights == [Slots -> Images \cup {None, Torn}]
NoWeights == [s \in Slots |-> None]
\* What a Work operation computed from, and in which call.
Computation == [call : 0..MaxCalls, weights : Weights,
                pll : PLLWords \cup {None, Torn}]
NoComputation == [call |-> 0, weights |-> NoWeights, pll |-> None]
\* What the board sends for one target of a readback request.
Reply == [key : Keys, macro : Macros \cup {None, Torn}, work : Computation,
          call : 0..MaxCalls, pll : PLLWords \cup {None, Torn}]
\* One flit: the reply it belongs to and its place in the packet.  A flit is
\* sound, damaged where only the packet decoder can tell, or damaged in the
\* reserved bits of its record.
Damage == {"sound", "content", "record"}
Flit == [reply : Reply, place : 1..PacketFlits, damage : Damage]
Record == [channel : Channels, flit : Flit]
Packet == [1..PacketFlits -> Flit]
\* The flit a channel sends next is not the lack of one.
ASSUME SendingAssumption == None \notin [reply : Reply, place : 1..PacketFlits]

Targets(batch) == {batch.targets[i] : i \in DOMAIN batch.targets}
CurrentOp == program.operations[opIndex]
CurrentBatch == program.batches[batchIndex]

Init ==
    /\ opened = FALSE /\ faulted = FALSE
    /\ verifiedPLL = None /\ resident = NoWeights
    /\ stopRequested = TRUE /\ loopStarted = FALSE /\ receiveError = None
    /\ responses = <<>> /\ partial = [c \in Channels |-> <<>>]
    /\ remaining = PacketFlits /\ codecHalf = FALSE
    /\ reader = "none" /\ chunk = <<>> /\ chunkHalf = FALSE
    /\ pc = "idle" /\ after = "closed" /\ program = None
    /\ opIndex = 1 /\ workPhase = FALSE /\ phase = "Configuration"
    /\ job = "operation" /\ chunksLeft = 0 /\ batchIndex = 1
    /\ pending = NoWeights /\ asked = {} /\ wanted = {} /\ readbacks = {}
    /\ pllVerified = [p \in Phases |-> FALSE]
    /\ result = "none" /\ calls = 0
    /\ driverOpen = FALSE /\ cancelled = FALSE /\ linkUp = TRUE
    /\ wire = <<>> /\ wireHalf = FALSE
    /\ slots = [s \in Slots |-> Torn] /\ pllRegister = Torn
    /\ selected = None /\ work = NoComputation
    /\ owed = {} /\ sending = [c \in Channels |-> None]
    /\ mishaps = 0 /\ timedOut = FALSE

-----------------------------------------------------------------------------
\* Shared receive state.

\* The receive thread keeps receiveMutex_ while it delivers a chunk.
LockFree == reader # "deliver"

HasPendingResponse ==
    \/ responses # <<>>
    \/ codecHalf
    \/ \E c \in Channels : partial[c] # <<>>

BoundaryClean == receiveError = None /\ ~HasPendingResponse

IsFaulted == faulted \/ receiveError # None \/ HasPendingResponse

\* A failure of the environment; the bound caps how many a behaviour has.
Mishap ==
    /\ mishaps < MaxMishaps
    /\ mishaps' = mishaps + 1
    /\ UNCHANGED timedOut

\* A driver call returns the next n whole records of the stream and, when
\* half is set, the first bytes of the record after them.
TakeFromWire ==
    \E n \in 0..ReadRecords, half \in BOOLEAN :
        /\ n <= Len(wire)
        /\ half => n < Len(wire)
        /\ n > 0 \/ (half /\ ~wireHalf)
        /\ chunk' = SubSeq(wire, 1, n)
        /\ chunkHalf' = half
        /\ wire' = SubSeq(wire, n + 1, Len(wire))
        /\ wireHalf' = half

\* Why appendReceived would refuse the chunk, or None.
Refusal ==
    IF \E i \in DOMAIN chunk : chunk[i].flit.damage = "record" THEN "format"
    ELSE IF Len(chunk) > remaining THEN "overflow" ELSE None

\* Mutant: accepted records are not taken off the budget.
AcceptChunk_WithoutBudget ==
    /\ Refusal = None
    /\ codecHalf' = chunkHalf
    /\ UNCHANGED <<stopRequested, loopStarted, receiveError, responses,
                   partial, remaining, chunk, chunkHalf>>

AcceptChunk ==
    /\ Refusal = None
    /\ remaining' = remaining - Len(chunk)
    /\ codecHalf' = chunkHalf
    /\ UNCHANGED <<stopRequested, loopStarted, receiveError, responses,
                   partial, chunk, chunkHalf>>

\* Mutant: the thread stops without recording why.
RefuseChunk_Silently ==
    /\ Refusal # None
    /\ chunk' = <<>> /\ chunkHalf' = FALSE
    /\ codecHalf' = chunkHalf
    /\ UNCHANGED <<stopRequested, loopStarted, receiveError, responses, partial,
                   remaining>>

RefuseChunk ==
    /\ Refusal # None
    /\ receiveError' = IF receiveError = None THEN Refusal ELSE receiveError
    /\ codecHalf' \in IF Refusal = "format" THEN {TRUE, chunkHalf} ELSE {chunkHalf}
    /\ chunk' = <<>> /\ chunkHalf' = FALSE
    /\ UNCHANGED <<stopRequested, loopStarted, responses, partial, remaining>>

\* Mutant: a complete packet is queued but its channel is not reset.
DeliverRecord_NoReset ==
    LET c == Head(chunk).channel
        packet == Append(partial[c], Head(chunk).flit)
    IN  /\ chunk # <<>>
        /\ chunk' = Tail(chunk)
        /\ partial' = [partial EXCEPT ![c] = packet]
        /\ responses' = IF Len(packet) = PacketFlits
                        THEN Append(responses, packet) ELSE responses
        /\ UNCHANGED <<stopRequested, loopStarted, receiveError, remaining,
                       codecHalf, chunkHalf>>

\* Deliver the first record of the chunk to the packet of its channel.
DeliverRecord ==
    LET c == Head(chunk).channel
        packet == Append(partial[c], Head(chunk).flit)
    IN  /\ chunk # <<>>
        /\ chunk' = Tail(chunk)
        /\ IF Len(packet) = PacketFlits
           THEN /\ responses' = Append(responses, packet)
                /\ partial' = [partial EXCEPT ![c] = <<>>]
           ELSE /\ partial' = [partial EXCEPT ![c] = packet]
                /\ UNCHANGED responses
        /\ UNCHANGED <<stopRequested, loopStarted, receiveError, remaining,
                       codecHalf, chunkHalf>>

-----------------------------------------------------------------------------
\* The board.

NextFlit(c, reply, place, damage) ==
    [channel |-> c, flit |-> [reply |-> reply, place |-> place, damage |-> damage]]

\* What remains to be sent of the packet whose flit at this place was sent.
Rest(reply, place) ==
    IF place = PacketFlits THEN None ELSE [reply |-> reply, place |-> place + 1]

\* The board takes the next flit of channel c: of the packet it is sending
\* there or, between packets, of any reply it owes.
TakeFlit(c, reply, place) ==
    /\ \/ /\ sending[c] # None
          /\ reply = sending[c].reply /\ place = sending[c].place
          /\ UNCHANGED owed
       \/ /\ sending[c] = None /\ place = 1 /\ reply \in owed
          /\ owed' = owed \ {reply}
    /\ sending' = [sending EXCEPT ![c] = Rest(reply, place)]
    /\ UNCHANGED <<slots, pllRegister, selected, work>>

InFlight == owed \cup {sending[c].reply : c \in {d \in Channels : sending[d] # None}}

BoardSend(c) ==
    /\ \E reply \in InFlight, place \in 1..PacketFlits :
          /\ TakeFlit(c, reply, place)
          /\ wire' = Append(wire, NextFlit(c, reply, place, "sound"))
    /\ linkUp
    /\ UNCHANGED <<sessionVars, receiveVars, readerVars, callerVars,
                   driverOpen, cancelled, linkUp, wireHalf, ghostVars>>

\* A flit is damaged on its way, or lost.
BoardSpoil(c) ==
    /\ Mishap
    /\ \E reply \in InFlight, place \in 1..PacketFlits :
          /\ TakeFlit(c, reply, place)
          /\ \/ UNCHANGED wire
             \/ \E damage \in Damage \ {"sound"} :
                   wire' = Append(wire, NextFlit(c, reply, place, damage))
    /\ linkUp
    /\ UNCHANGED <<sessionVars, receiveVars, readerVars, callerVars,
                   driverOpen, cancelled, linkUp, wireHalf>>

\* The board loses power or leaves the bus.
LinkDrop ==
    /\ linkUp
    /\ Mishap
    /\ linkUp' = FALSE
    /\ slots' = [s \in Slots |-> Torn] /\ pllRegister' = Torn
    /\ selected' = Torn /\ work' = NoComputation
    /\ owed' = {} /\ sending' = [c \in Channels |-> None]
    /\ UNCHANGED <<sessionVars, receiveVars, readerVars, callerVars,
                   driverOpen, cancelled, wire, wireHalf>>

Environment ==
    \/ \E c \in Channels : BoardSend(c) \/ BoardSpoil(c)
    \/ LinkDrop

-----------------------------------------------------------------------------
\* The receive thread, receiveLoop.

ReaderOnly ==
    UNCHANGED <<sessionVars, callerVars, driverOpen, cancelled, linkUp, boardVars>>

ReaderStart ==
    /\ reader = "start"
    /\ loopStarted' = TRUE
    /\ reader' = "check"
    /\ UNCHANGED <<stopRequested, receiveError, responses, partial, remaining,
                   codecHalf, chunk, chunkHalf, wire, wireHalf, ghostVars>>
    /\ ReaderOnly

\* Mutant: the receive thread does not look at stopRequested_.
ReaderCheck_NeverStops ==
    /\ reader = "check"
    /\ reader' = "read"
    /\ UNCHANGED <<receiveVars, chunk, chunkHalf, wire, wireHalf, ghostVars>>
    /\ ReaderOnly

ReaderCheck ==
    /\ reader = "check"
    /\ reader' = IF stopRequested THEN "exited" ELSE "read"
    /\ UNCHANGED <<receiveVars, chunk, chunkHalf, wire, wireHalf, ghostVars>>
    /\ ReaderOnly

ReaderRead ==
    /\ reader = "read"
    /\ TakeFromWire
    /\ reader' = "append"
    /\ UNCHANGED <<receiveVars, ghostVars>>
    /\ ReaderOnly

\* A poll timeout, or an expected cancellation.
ReaderReadNothing ==
    /\ reader = "read"
    /\ reader' = "check"
    /\ UNCHANGED <<receiveVars, chunk, chunkHalf, wire, wireHalf, ghostVars>>
    /\ ReaderOnly

ReaderReadError ==
    /\ reader = "read"
    /\ Mishap \/ (~linkUp /\ UNCHANGED ghostVars)
    /\ receiveError' = "driver"
    /\ reader' = "exited"
    /\ UNCHANGED <<stopRequested, loopStarted, responses, partial, remaining,
                   codecHalf, chunk, chunkHalf, wire, wireHalf>>
    /\ ReaderOnly

ReaderAppend ==
    /\ reader = "append"
    /\ \/ AcceptChunk /\ reader' = "deliver"
       \/ RefuseChunk /\ reader' = "exited"
    /\ UNCHANGED <<wire, wireHalf, ghostVars>>
    /\ ReaderOnly

ReaderDeliver ==
    /\ reader = "deliver"
    /\ DeliverRecord
    /\ UNCHANGED <<reader, wire, wireHalf, ghostVars>>
    /\ ReaderOnly

ReaderDelivered ==
    /\ reader = "deliver" /\ chunk = <<>>
    /\ reader' = "check"
    /\ UNCHANGED <<receiveVars, chunk, chunkHalf, wire, wireHalf, ghostVars>>
    /\ ReaderOnly

Reader ==
    \/ ReaderStart \/ ReaderCheck \/ ReaderRead \/ ReaderReadNothing
    \/ ReaderReadError \/ ReaderAppend \/ ReaderDeliver \/ ReaderDelivered

-----------------------------------------------------------------------------
\* closeUnlocked, called by close, by open and by an open that fails.

NewCall == pc = "idle" /\ calls < MaxCalls /\ calls' = calls + 1

\* Forget the caches and stop the receive thread; then go on at "cancel".
BeginClose(next) ==
    /\ LockFree
    /\ verifiedPLL' = None
    /\ resident' = NoWeights
    /\ stopRequested' = TRUE
    /\ pc' = "cancel" /\ after' = next
    /\ UNCHANGED <<opened, faulted, loopStarted, receiveError, responses,
                   partial, remaining, codecHalf, readerVars, program, opIndex,
                   workPhase, phase, job, chunksLeft, batchIndex, pending,
                   asked, wanted, readbacks, pllVerified, driverVars, boardVars>>

Close == NewCall /\ BeginClose("closed") /\ result' = "none" /\ UNCHANGED ghostVars
Open == NewCall /\ BeginClose("reopen") /\ result' = "none" /\ UNCHANGED ghostVars

DriverCancel ==
    /\ pc = "cancel"
    /\ cancelled' = TRUE
    /\ pc' = "join"
    /\ UNCHANGED <<sessionVars, receiveVars, readerVars, localVars, result,
                   calls, driverOpen, linkUp, wire, wireHalf, boardVars, ghostVars>>

\* Mutant: close goes on without waiting for the receive thread.
Join_Detached ==
    /\ pc = "join"
    /\ pc' = IF opened THEN "drain" ELSE "driverClose"
    /\ UNCHANGED <<sessionVars, receiveVars, readerVars, localVars,
                   result, calls, driverVars, boardVars, ghostVars>>

\* Join the receive thread if there is one.
Join ==
    /\ pc = "join" /\ reader \in {"none", "exited"}
    /\ reader' = "none"
    /\ pc' = IF opened THEN "drain" ELSE "driverClose"
    /\ UNCHANGED <<sessionVars, receiveVars, chunk, chunkHalf, localVars,
                   result, calls, driverVars, boardVars, ghostVars>>

DrainOnly ==
    UNCHANGED <<sessionVars, reader, localVars, result, calls, driverOpen,
                cancelled, linkUp, boardVars>>

DrainRead ==
    /\ pc = "drain"
    /\ TakeFromWire
    /\ pc' = "drainAppend"
    /\ UNCHANGED <<receiveVars, ghostVars>>
    /\ DrainOnly

DrainEmpty ==
    /\ pc = "drain"
    /\ pc' = "driverClose"
    /\ UNCHANGED <<receiveVars, chunk, chunkHalf, wire, wireHalf, ghostVars>>
    /\ DrainOnly

DrainError ==
    /\ pc = "drain"
    /\ Mishap \/ (~linkUp /\ UNCHANGED ghostVars)
    /\ receiveError' = IF receiveError = None THEN "driver" ELSE receiveError
    /\ pc' = "driverClose"
    /\ UNCHANGED <<stopRequested, loopStarted, responses, partial, remaining,
                   codecHalf, chunk, chunkHalf, wire, wireHalf>>
    /\ DrainOnly

DrainAppend ==
    /\ pc = "drainAppend"
    /\ \/ AcceptChunk /\ pc' = "drainDeliver"
       \/ RefuseChunk /\ pc' = "driverClose"
    /\ UNCHANGED <<wire, wireHalf, ghostVars>>
    /\ DrainOnly

DrainDeliver ==
    /\ pc = "drainDeliver"
    /\ DeliverRecord
    /\ UNCHANGED <<pc, wire, wireHalf, ghostVars>>
    /\ DrainOnly

DrainDelivered ==
    /\ pc = "drainDeliver" /\ chunk = <<>>
    /\ pc' = "drain"
    /\ UNCHANGED <<receiveVars, chunk, chunkHalf, wire, wireHalf, ghostVars>>
    /\ DrainOnly

\* What the host controller still holds is lost with the handle.
DriverClose ==
    /\ pc = "driverClose"
    /\ driverOpen' = FALSE /\ opened' = FALSE
    /\ wire' = <<>> /\ wireHalf' = FALSE
    /\ pc' = IF after = "reopen" THEN "openDriver" ELSE "idle"
    /\ UNCHANGED <<faulted, verifiedPLL, resident, receiveVars, readerVars,
                   localVars, result, calls, cancelled, linkUp, boardVars, ghostVars>>

Closing ==
    \/ DriverCancel \/ Join \/ DrainRead \/ DrainEmpty \/ DrainError
    \/ DrainAppend \/ DrainDeliver \/ DrainDelivered \/ DriverClose

-----------------------------------------------------------------------------
\* open, after it closed the previous session.

\* An invalid configuration, a missing driver, or a driver that fails to open.
OpenFails ==
    /\ pc = "openDriver"
    /\ pc' = "idle"
    /\ UNCHANGED <<sessionVars, receiveVars, readerVars, localVars, result,
                   calls, driverVars, boardVars, ghostVars>>

\* A fresh receive session.  Recovering the board is not open's work: only
\* with BoardQuiet has somebody else seen to it that no old reply is left.
OpenDriver ==
    /\ pc = "openDriver"
    /\ driverOpen' = TRUE /\ cancelled' = FALSE /\ linkUp' = TRUE
    /\ responses' = <<>> /\ partial' = [c \in Channels |-> <<>>]
    /\ remaining' = PacketFlits
    /\ receiveError' = None /\ faulted' = FALSE
    /\ stopRequested' = FALSE /\ opened' = TRUE /\ loopStarted' = FALSE
    /\ codecHalf' = FALSE
    /\ reader' = "start"
    /\ pc' = "await"
    /\ IF BoardQuiet
       THEN owed' = {} /\ sending' = [c \in Channels |-> None] /\ wire' = <<>>
       ELSE UNCHANGED <<owed, sending, wire>>
    /\ UNCHANGED <<verifiedPLL, resident, chunk, chunkHalf, localVars, result,
                   calls, wireHalf, slots, pllRegister, selected, work,
                   ghostVars>>

SessionStarts ==
    /\ LockFree
    /\ \/ pc = "await" /\ loopStarted /\ pc' = "settle"
       \/ pc = "settle" /\ pc' = "idle"
    /\ receiveError = None
    /\ UNCHANGED <<sessionVars, receiveVars, readerVars, localVars, result,
                   calls, driverVars, boardVars, ghostVars>>

\* The first reads already failed.
SessionFails ==
    /\ pc \in {"await", "settle"}
    /\ receiveError # None
    /\ BeginClose("failed")
    /\ UNCHANGED <<result, calls, ghostVars>>

\* The receive thread did not start in time.
SessionTimeout ==
    /\ pc = "await"
    /\ ~loopStarted /\ receiveError = None
    /\ BeginClose("failed")
    /\ timedOut' = TRUE
    /\ UNCHANGED <<result, calls, mishaps>>

Opening ==
    \/ OpenFails \/ OpenDriver \/ SessionStarts \/ SessionFails \/ SessionTimeout

-----------------------------------------------------------------------------
\* execute.

Return(outcome) == pc' = "idle" /\ result' = outcome

\* Mutants: a fault forgets only one of the two caches.
Fault_KeepsTable ==
    /\ Return("error")
    /\ verifiedPLL' = None
    /\ faulted' = TRUE
    /\ UNCHANGED <<opened, resident>>

Fault_KeepsClock ==
    /\ Return("error")
    /\ resident' = NoWeights
    /\ faulted' = TRUE
    /\ UNCHANGED <<opened, verifiedPLL>>

\* fault(): the chip's last completed operation is unknown.
Fault ==
    /\ Return("error")
    /\ verifiedPLL' = None
    /\ resident' = NoWeights
    /\ faulted' = TRUE
    /\ UNCHANGED opened

\* What a step of execute leaves alone, except what it says it changes.
ExecuteOnly == UNCHANGED <<readerVars, stopRequested, loopStarted, receiveError,
                           partial, codecHalf, calls, after, program,
                           driverVars, selected>>

\* A closed or faulted session is refused without touching anything.
ExecuteRefused ==
    /\ NewCall
    /\ ~opened \/ faulted
    /\ result' = "error"
    /\ readbacks' = {}
    /\ pllVerified' = [p \in Phases |-> FALSE]
    /\ UNCHANGED <<pc, sessionVars, receiveVars, readerVars, after, program,
                   opIndex, workPhase, phase, job, chunksLeft, batchIndex,
                   pending, asked, wanted, driverVars, boardVars, ghostVars>>

Execute(p) ==
    /\ NewCall
    /\ opened /\ ~faulted
    /\ program' = p
    /\ resident' = IF p.residency THEN resident ELSE NoWeights
    /\ opIndex' = 1 /\ batchIndex' = 1 /\ workPhase' = FALSE
    /\ pending' = NoWeights /\ asked' = {} /\ wanted' = {} /\ readbacks' = {}
    /\ pllVerified' = [ph \in Phases |-> FALSE]
    /\ result' = "none"
    /\ pc' = "begin"
    /\ UNCHANGED <<opened, faulted, verifiedPLL, receiveVars, readerVars, after,
                   phase, job, chunksLeft, driverVars, boardVars, ghostVars>>

ClearWeightResidency ==
    /\ NewCall
    /\ resident' = NoWeights
    /\ result' = "none"
    /\ UNCHANGED <<opened, faulted, verifiedPLL, pc, receiveVars, readerVars,
                   localVars, driverVars, boardVars, ghostVars>>

\* No reply may be left over from the calls before.
Begin ==
    /\ pc = "begin" /\ LockFree
    /\ IF BoundaryClean
       THEN /\ pc' = "pll" /\ phase' = "Configuration"
            /\ UNCHANGED <<sessionVars, result>>
       ELSE Fault /\ UNCHANGED phase
    /\ UNCHANGED <<responses, remaining, opIndex, workPhase, job, chunksLeft,
                   batchIndex, pending, asked, wanted, readbacks, pllVerified,
                   slots, pllRegister, work, owed, sending, ghostVars>>
    /\ ExecuteOnly

-----------------------------------------------------------------------------
\* configurePhase.

PLLOnly ==
    /\ UNCHANGED <<responses, remaining, opIndex, workPhase, phase, job,
                   chunksLeft, batchIndex, pending, asked, wanted, readbacks,
                   slots, work, owed, sending>>
    /\ ExecuteOnly

AfterPhase == IF phase = "Readback" THEN "batch" ELSE "operation"

\* The clock of the next phase has to be set.
MustConfigure ==
    /\ pc = "pll" /\ LockFree /\ receiveError = None
    /\ PLLConfigured /\ verifiedPLL # PLLWord[phase]

PhaseAborted ==
    /\ pc = "pll" /\ LockFree /\ receiveError # None
    /\ Fault
    /\ UNCHANGED <<pllVerified, pllRegister, ghostVars>>
    /\ PLLOnly

\* There is no PLL port, or the word of this phase is already verified.
PhaseKept ==
    /\ pc = "pll" /\ LockFree /\ receiveError = None
    /\ ~PLLConfigured \/ verifiedPLL = PLLWord[phase]
    /\ pllVerified' = [pllVerified EXCEPT ![phase] = PLLConfigured]
    /\ pc' = AfterPhase
    /\ UNCHANGED <<sessionVars, result, pllRegister, ghostVars>>
    /\ PLLOnly

PLLEchoed ==
    /\ MustConfigure
    /\ pllRegister' = PLLWord[phase]
    /\ verifiedPLL' = PLLWord[phase]
    /\ pllVerified' = [pllVerified EXCEPT ![phase] = TRUE]
    /\ pc' = AfterPhase
    /\ UNCHANGED <<opened, faulted, resident, result, ghostVars>>
    /\ PLLOnly

\* The serial port does not exist: the clock is set by hand.
PLLPortMissing ==
    /\ MustConfigure
    /\ verifiedPLL' = None
    /\ pc' = AfterPhase
    /\ UNCHANGED <<opened, faulted, resident, result, pllVerified, pllRegister,
                   ghostVars>>
    /\ PLLOnly

\* A wrong echo, a deadline, or a serial error: the word may have landed.
PLLFails ==
    /\ MustConfigure
    /\ Mishap
    /\ pllRegister' \in {pllRegister, PLLWord[phase], Torn}
    /\ Fault
    /\ UNCHANGED pllVerified
    /\ PLLOnly

ConfigurePhase ==
    PhaseAborted \/ PhaseKept \/ PLLEchoed \/ PLLPortMissing \/ PLLFails

-----------------------------------------------------------------------------
\* The Configuration and Work operations.

StartWrite(kind) ==
    job' = kind /\ chunksLeft' = WriteChunks /\ pc' = "write"

OperationsLeft == opIndex <= Len(program.operations)
EntersWork == CurrentOp.phase = "Work" /\ ~workPhase

\* Configuration before Work, no other phase, and deferred weights only where
\* the residency table is in use.
Valid ==
    /\ CurrentOp.phase = "Configuration" => ~workPhase
    /\ CurrentOp.phase # "Readback"
    /\ CurrentOp.deferred => program.residency /\ CurrentOp.phase = "Configuration"

OperationOnly ==
    /\ UNCHANGED <<responses, remaining, batchIndex, pending, asked, wanted,
                   readbacks, pllVerified, slots, pllRegister, work, owed,
                   sending, ghostVars>>
    /\ ExecuteOnly

EnterWork ==
    /\ pc = "operation" /\ OperationsLeft /\ EntersWork
    /\ workPhase' = TRUE
    /\ pc' = "pll" /\ phase' = "Work"
    /\ UNCHANGED <<sessionVars, opIndex, job, chunksLeft, result>>
    /\ OperationOnly

InvalidOperation ==
    /\ pc = "operation" /\ OperationsLeft /\ ~EntersWork /\ ~Valid
    /\ Fault
    /\ UNCHANGED <<opIndex, workPhase, phase, job, chunksLeft>>
    /\ OperationOnly

\* What this transaction knows a slot to hold: a write it staged replaced
\* what the table says.
Holds(s) == IF pending[s] # None THEN pending[s] ELSE resident[s]

\* Mutant: a write staged earlier in the transaction is overlooked.
Hit_IgnoresPending ==
    CurrentOp.deferred /\ resident[CurrentOp.slot] = CurrentOp.image

Hit == CurrentOp.deferred /\ Holds(CurrentOp.slot) = CurrentOp.image

WeightHit ==
    /\ pc = "operation" /\ OperationsLeft /\ ~EntersWork /\ Valid
    /\ Hit
    /\ opIndex' = opIndex + 1
    /\ UNCHANGED <<sessionVars, pc, workPhase, phase, job, chunksLeft, result>>
    /\ OperationOnly

StartOperation ==
    /\ pc = "operation" /\ OperationsLeft /\ ~EntersWork /\ Valid
    /\ ~Hit
    /\ StartWrite("operation")
    /\ UNCHANGED <<sessionVars, opIndex, workPhase, phase, result>>
    /\ OperationOnly

OperationsDone ==
    /\ pc = "operation" /\ ~OperationsLeft
    /\ IF program.batches = <<>>
       THEN pc' = "finish" /\ UNCHANGED phase
       ELSE pc' = "pll" /\ phase' = "Readback"
    /\ UNCHANGED <<sessionVars, opIndex, workPhase, job, chunksLeft, result>>
    /\ OperationOnly

Operations ==
    EnterWork \/ InvalidOperation \/ WeightHit \/ StartOperation \/ OperationsDone

-----------------------------------------------------------------------------
\* writeFlits.

\* What the board does with the bytes of an operation, in part or complete.
OperationLands(whole) ==
    /\ slots' = IF CurrentOp.slot = None THEN slots
                ELSE [slots EXCEPT ![CurrentOp.slot] =
                        IF whole THEN CurrentOp.image ELSE Torn]
    /\ work' = IF whole /\ CurrentOp.phase = "Work"
               THEN [call |-> calls, weights |-> slots, pll |-> pllRegister]
               ELSE work
    /\ UNCHANGED <<selected, asked, owed>>

SelectionLands(whole) ==
    /\ selected' = IF whole THEN CurrentBatch.macro ELSE Torn
    /\ UNCHANGED <<slots, work, asked, owed>>

\* A part of the request may already make the board answer some targets.
RequestLands(whole) ==
    \E new \in SUBSET (Targets(CurrentBatch) \ asked) :
        /\ whole => new = Targets(CurrentBatch) \ asked
        /\ asked' = asked \cup new
        /\ owed' = owed \cup
              {[key |-> k, macro |-> selected, work |-> work,
                call |-> calls, pll |-> pllRegister] : k \in new}
        /\ UNCHANGED <<slots, work, selected>>

Lands(whole) ==
    \/ job = "operation" /\ OperationLands(whole)
    \/ job = "selection" /\ SelectionLands(whole)
    \/ job = "request" /\ RequestLands(whole)

WriteOnly ==
    UNCHANGED <<receiveVars, readerVars, calls, after, program, phase, job,
                workPhase, batchIndex, wanted, pllVerified,
                driverVars, pllRegister, sending>>

\* One driver write.  It may transfer less than it was given.
WriteChunk ==
    /\ pc = "write" /\ LockFree /\ receiveError = None /\ linkUp
    /\ \E n \in 1..chunksLeft : chunksLeft' = chunksLeft - n
    /\ Lands(chunksLeft' = 0)
    /\ IF chunksLeft' = 0 /\ job = "operation"
       THEN /\ opIndex' = opIndex + 1
            /\ pending' = IF CurrentOp.deferred
                          THEN [pending EXCEPT ![CurrentOp.slot] = CurrentOp.image]
                          ELSE pending
       ELSE UNCHANGED <<opIndex, pending>>
    /\ pc' = IF chunksLeft' # 0 THEN "write"
             ELSE CASE job = "operation" -> "operation"
                    [] job = "selection" -> "arm"
                    [] job = "request" -> "take"
    /\ UNCHANGED <<sessionVars, result, readbacks, ghostVars>>
    /\ WriteOnly

\* The driver reports a failure, and how much landed is unknown; or a receive
\* error stops the rest of the operation.
WriteFails ==
    /\ pc = "write" /\ LockFree
    /\ \/ /\ receiveError = None /\ linkUp /\ Mishap
          /\ \E whole \in BOOLEAN : Lands(whole)
       \/ /\ receiveError # None \/ ~linkUp
          /\ UNCHANGED <<slots, work, selected, asked, owed, ghostVars>>
    /\ Fault
    /\ readbacks' = IF job = "operation" THEN readbacks ELSE {}
    /\ UNCHANGED <<opIndex, pending, chunksLeft>>
    /\ WriteOnly

Write == WriteChunk \/ WriteFails

-----------------------------------------------------------------------------
\* executeReadback.

ReadbackOnly ==
    /\ UNCHANGED <<opIndex, workPhase, phase, pending, asked, pllVerified,
                   slots, pllRegister, work, owed, sending>>
    /\ ExecuteOnly

\* The readbacks of an execute that fails here are dropped.
FaultReadback == Fault /\ readbacks' = {}

WellFormedBatch(batch) ==
    /\ batch.targets # <<>>
    /\ Cardinality(Targets(batch)) = Len(batch.targets)

BatchesLeft == batchIndex <= Len(program.batches)

\* Select the Macro of the next batch, if nothing is left of the last one.
StartBatch ==
    /\ pc = "batch" /\ BatchesLeft
    /\ LockFree
    /\ IF WellFormedBatch(CurrentBatch) /\ BoundaryClean
       THEN StartWrite("selection") /\ UNCHANGED <<sessionVars, result, readbacks>>
       ELSE FaultReadback /\ UNCHANGED <<job, chunksLeft>>
    /\ UNCHANGED <<responses, remaining, batchIndex, wanted, ghostVars>>
    /\ ReadbackOnly

\* Mutant: one record short.
Budget_OneShort(batch) == Len(batch.targets) * PacketFlits - 1

\* The records a batch admits.
Budget(batch) == Len(batch.targets) * PacketFlits

\* Nothing came while the selection settled: admit the replies of this batch
\* and request them.
Arm ==
    /\ pc = "arm" /\ LockFree
    /\ IF BoundaryClean
       THEN /\ remaining' = Budget(CurrentBatch)
            /\ wanted' = Targets(CurrentBatch)
            /\ StartWrite("request")
            /\ UNCHANGED <<sessionVars, result, readbacks>>
       ELSE FaultReadback /\ UNCHANGED <<remaining, wanted, job, chunksLeft>>
    /\ UNCHANGED <<responses, batchIndex, ghostVars>>
    /\ asked' = {}
    /\ UNCHANGED <<opIndex, workPhase, phase, pending, pllVerified,
                   slots, pllRegister, work, owed, sending>>
    /\ ExecuteOnly

\* Mutant: the body goes unchecked.
Acceptable_AnyBody(packet) ==
    /\ packet[1].damage = "sound"
    /\ packet[1].reply.key \in wanted

\* The header decodes to a target that still waits; the body is checked
\* unless the caller captures raw packets.
Acceptable(packet) ==
    /\ packet[1].damage = "sound"
    /\ packet[1].reply.key \in wanted
    /\ program.capture \/ \A i \in 2..PacketFlits : packet[i].damage = "sound"

TakeResponse ==
    /\ pc = "take" /\ LockFree
    /\ receiveError = None /\ responses # <<>>
    /\ LET packet == Head(responses)
           key == packet[1].reply.key
       IN  IF Acceptable(packet)
           THEN /\ wanted' = wanted \ {key}
                /\ readbacks' = readbacks \cup
                      {[batch |-> batchIndex, key |-> key, packet |-> packet]}
                /\ pc' = IF wanted' = {} THEN "seal" ELSE "take"
                /\ UNCHANGED <<sessionVars, result>>
           ELSE FaultReadback /\ UNCHANGED wanted
    /\ responses' = Tail(responses)
    /\ UNCHANGED <<remaining, job, chunksLeft, batchIndex, ghostVars>>
    /\ ReadbackOnly

\* The wait ends without a packet: an error, or all records of the batch came
\* and do not make packets, or the deadline passed.  stopRequested_ is not set
\* while execute holds executionMutex_.
NoResponse ==
    /\ pc = "take" /\ LockFree
    /\ \/ receiveError # None /\ UNCHANGED timedOut
       \/ receiveError = None /\ responses = <<>> /\ remaining = 0 /\ UNCHANGED timedOut
       \/ receiveError = None /\ responses = <<>> /\ remaining # 0 /\ timedOut' = TRUE
    /\ FaultReadback
    /\ UNCHANGED <<responses, remaining, wanted, job, chunksLeft, batchIndex, mishaps>>
    /\ ReadbackOnly

\* The batch leaves nothing behind.
Seal ==
    /\ pc = "seal" /\ LockFree
    /\ IF BoundaryClean
       THEN /\ batchIndex' = batchIndex + 1
            /\ pc' = "batch"
            /\ UNCHANGED <<sessionVars, result, readbacks>>
       ELSE FaultReadback /\ UNCHANGED batchIndex
    /\ UNCHANGED <<responses, remaining, wanted, job, chunksLeft, ghostVars>>
    /\ ReadbackOnly

BatchesDone ==
    /\ pc = "batch" /\ ~BatchesLeft
    /\ pc' = "finish"
    /\ UNCHANGED <<sessionVars, result, readbacks, batchIndex, responses,
                   remaining, wanted, job, chunksLeft, ghostVars>>
    /\ ReadbackOnly

\* The table learns of the writes only with the complete response.
Finish ==
    /\ pc = "finish" /\ LockFree
    /\ IF BoundaryClean
       THEN /\ resident' = [s \in Slots |-> Holds(s)]
            /\ Return("ok")
            /\ UNCHANGED <<opened, faulted, verifiedPLL>>
       ELSE Fault
    /\ UNCHANGED <<readbacks, batchIndex, responses, remaining, wanted, job,
                   chunksLeft, ghostVars>>
    /\ ReadbackOnly

Readback ==
    \/ StartBatch \/ Arm \/ TakeResponse \/ NoResponse \/ Seal
    \/ BatchesDone \/ Finish

-----------------------------------------------------------------------------

Call == Open \/ Close \/ ClearWeightResidency \/ ExecuteRefused
        \/ \E p \in Programs : Execute(p)

Caller == Closing \/ Opening \/ Begin \/ ConfigurePhase \/ Operations \/ Write
          \/ Readback

Next == Call \/ Caller \/ Reader \/ Environment

(***************************************************************************)
(* Both threads are scheduled, and a driver call returns: read polls with  *)
(* a timeout and cancel ends it, write has a transfer timeout.  No reply   *)
(* has to come.                                                            *)
(***************************************************************************)
Fairness == WF_vars(Caller) /\ WF_vars(Reader)

Spec == Init /\ [][Next]_vars /\ Fairness

-----------------------------------------------------------------------------
\* Properties.

ReceiveErrors == {None, "driver", "format", "overflow"}
ReaderPlaces == {"none", "start", "check", "read", "append", "deliver", "exited"}
ClosePlaces == {"cancel", "join", "drain", "drainAppend", "drainDeliver", "driverClose"}
OpenPlaces == {"openDriver", "await", "settle"}
ReadbackPlaces == {"batch", "arm", "take", "seal"}
ExecutePlaces == {"begin", "pll", "operation", "write", "finish"} \cup ReadbackPlaces

FlagType ==
    /\ opened \in BOOLEAN /\ faulted \in BOOLEAN
    /\ stopRequested \in BOOLEAN /\ loopStarted \in BOOLEAN
    /\ codecHalf \in BOOLEAN /\ chunkHalf \in BOOLEAN /\ wireHalf \in BOOLEAN
    /\ driverOpen \in BOOLEAN /\ cancelled \in BOOLEAN /\ linkUp \in BOOLEAN
    /\ workPhase \in BOOLEAN /\ pllVerified \in [Phases -> BOOLEAN]
    /\ timedOut \in BOOLEAN

SessionType ==
    /\ verifiedPLL \in PLLWords \cup {None}
    /\ resident \in [Slots -> Images \cup {None}]
    /\ pending \in [Slots -> Images \cup {None}]

ReceiveType ==
    /\ receiveError \in ReceiveErrors
    /\ responses \in Seq(Packet)
    /\ partial \in [Channels -> Seq(Flit)]
    /\ \A c \in Channels : Len(partial[c]) < PacketFlits
    /\ remaining \in Nat
    /\ reader \in ReaderPlaces
    /\ chunk \in Seq(Record) /\ wire \in Seq(Record)

CallerType ==
    /\ pc \in {"idle"} \cup ClosePlaces \cup OpenPlaces \cup ExecutePlaces
    /\ after \in {"closed", "reopen", "failed"}
    /\ program \in Programs \cup {None}
    /\ opIndex \in Nat \ {0} /\ batchIndex \in Nat \ {0} /\ phase \in Phases
    /\ job \in {"operation", "selection", "request"}
    /\ chunksLeft \in 0..WriteChunks
    /\ asked \subseteq Keys /\ wanted \subseteq Keys
    /\ readbacks \subseteq [batch : Nat, key : Keys, packet : Packet]
    /\ result \in {"none", "ok", "error"}
    /\ calls \in 0..MaxCalls /\ mishaps \in 0..MaxMishaps

BoardType ==
    /\ slots \in [Slots -> Images \cup {Torn}]
    /\ pllRegister \in PLLWords \cup {Torn}
    /\ selected \in Macros \cup {None, Torn}
    /\ work \in Computation
    /\ owed \subseteq Reply
    /\ sending \in [Channels -> [reply : Reply, place : 1..PacketFlits] \cup {None}]

(***************************************************************************)
(* Every variable holds a value of the type the class gives it; partial    *)
(* packets are shorter than a packet, and queued packets are whole.        *)
(***************************************************************************)
TypeOK ==
    FlagType /\ SessionType /\ ReceiveType /\ CallerType /\ BoardType

(***************************************************************************)
(* The residency table never claims a weight the chip does not hold: what  *)
(* a transaction would skip as a hit is in the physical slot, through      *)
(* partial writes, failures, raw programs and reopening.  While a slot is  *)
(* being written nothing is claimed of it.                                 *)
(***************************************************************************)
BeingWritten(s) == pc = "write" /\ job = "operation" /\ CurrentOp.slot = s
Believed(s) == IF pc \in ExecutePlaces THEN Holds(s) ELSE resident[s]

ResidencyPhysical ==
    linkUp => \A s \in Slots :
        Believed(s) # None /\ ~BeingWritten(s) => slots[s] = Believed(s)

(***************************************************************************)
(* verifiedPLLWord_ is the word in the PLL register whenever it has a      *)
(* value, so that skipping configurePLL leaves the right clock.            *)
(***************************************************************************)
PLLPhysical == linkUp /\ verifiedPLL # None => pllRegister = verifiedPLL

(***************************************************************************)
(* A reply has no Macro identifier and packets of one channel have no      *)
(* boundary marks.  Still, an execute that succeeds returns one readback   *)
(* per target, and each is a whole packet, in order, of the reply this     *)
(* call asked for under the Macro of its batch -- whatever was lost,       *)
(* damaged, split or interleaved.                                          *)
(***************************************************************************)
ReadbacksOf(i) == {r \in readbacks : r.batch = i}

AnswersComplete ==
    result = "ok" =>
        \A i \in DOMAIN program.batches :
            /\ {r.key : r \in ReadbacksOf(i)} = Targets(program.batches[i])
            /\ Cardinality(ReadbacksOf(i)) = Len(program.batches[i].targets)
            /\ \A r \in ReadbacksOf(i), j \in 1..PacketFlits :
                  LET flit == r.packet[j]
                  IN  /\ flit.place = j
                      /\ flit.reply.key = r.key
                      /\ flit.reply.macro = program.batches[i].macro
                      /\ flit.reply.call = calls
                      /\ flit.damage # "sound" => program.capture /\ j > 1

(***************************************************************************)
(* What a successful execute returns was computed in this call, from the   *)
(* weights its program asks for, hits included, and under the clocks       *)
(* pllVerified reports.                                                    *)
(***************************************************************************)
Configures(i, s) ==
    /\ program.operations[i].phase = "Configuration"
    /\ program.operations[i].slot = s

ComputedAsAsked ==
    result = "ok" =>
        \A r \in readbacks, j \in 1..PacketFlits :
            LET reply == r.packet[j].reply
            IN  /\ pllVerified["Readback"] => reply.pll = PLLWord["Readback"]
                /\ workPhase =>
                      /\ reply.work.call = calls
                      /\ pllVerified["Work"] => reply.work.pll = PLLWord["Work"]
                      /\ \A s \in Slots, i \in DOMAIN program.operations :
                            /\ Configures(i, s)
                            /\ \A k \in DOMAIN program.operations :
                                  Configures(k, s) => k <= i
                            => reply.work.weights[s] = program.operations[i].image

(***************************************************************************)
(* The driver contract of UsbDriver.h: no read, write or drain without an  *)
(* open driver, no write once cancelled, and drain only when cancelled and *)
(* with no reader left to share the stream.                                *)
(***************************************************************************)
DriverProtocol ==
    /\ reader # "none" => driverOpen
    /\ pc \in {"write", "drain"} => driverOpen
    /\ pc = "write" => ~cancelled
    /\ pc = "drain" => cancelled /\ reader = "none"

(***************************************************************************)
(* Once a batch is armed, the records still admitted, those in delivery,   *)
(* in partial packets and queued, and those taken make up the batch: the   *)
(* budget neither refuses a reply that is due nor admits one that is not.  *)
(***************************************************************************)
PartialCells ==
    {cell \in Channels \X (1..PacketFlits) : cell[2] <= Len(partial[cell[1]])}
InPartialPackets == Cardinality(PartialCells)

BudgetExact ==
    \/ pc = "write" /\ job = "request"
    \/ pc = "take"
    =>  remaining + (IF reader = "deliver" THEN Len(chunk) ELSE 0)
            + InPartialPackets
            + PacketFlits * (Len(responses) + Len(CurrentBatch.targets)
                                - Cardinality(wanted))
          = PacketFlits * Len(CurrentBatch.targets)

(***************************************************************************)
(* The checks have no false alarm: while the environment did not fail, no  *)
(* wait ran out and the programs were well formed, the session is never    *)
(* faulted, however replies interleave with the calls.                     *)
(***************************************************************************)
WellFormed(p) ==
    /\ \A i \in DOMAIN p.batches : WellFormedBatch(p.batches[i])
    /\ \A i \in DOMAIN p.operations :
          LET op == p.operations[i]
          IN  /\ op.phase # "Readback"
              /\ op.deferred => p.residency /\ op.phase = "Configuration"
              /\ \A k \in 1..i - 1 :
                    op.phase = "Configuration" => p.operations[k].phase # "Work"

NoFalseAlarm ==
    /\ BoardQuiet
    /\ mishaps = 0 /\ ~timedOut
    /\ \A p \in Programs : WellFormed(p)
    => ~faulted /\ receiveError = None

(***************************************************************************)
(* A transport fault blocks execution until an explicit open: while the    *)
(* session is faulted nothing reaches the board, and only a driver that    *)
(* opens clears the fault.                                                 *)
(***************************************************************************)
FaultSticks ==
    [][faulted =>
        /\ linkUp' /\ linkUp => UNCHANGED <<slots, pllRegister, selected, work>>
        /\ ~faulted' => pc = "openDriver" /\ driverOpen']_vars

(***************************************************************************)
(* No byte the driver handed over disappears: from the moment a read or    *)
(* drain returned it, it keeps the session suspect -- in the reader's      *)
(* hands, in a partial record or packet, in the queue, or as the error it  *)
(* caused -- until a readback takes it or a new session starts.  In        *)
(* particular isFaulted after close reports tail data.                     *)
(***************************************************************************)
Evidence ==
    \/ IsFaulted
    \/ reader = "append"
    \/ pc = "drainAppend"
    \/ (reader = "deliver" \/ pc = "drainDeliver") /\ chunk # <<>>

EvidenceKept ==
    [][Evidence /\ pc \notin {"take", "openDriver"} => Evidence']_vars

(***************************************************************************)
(* Every call returns: no reply, a stuck board or a receive error keeps    *)
(* execute waiting, and close always joins the receive thread.             *)
(***************************************************************************)
CallsReturn == pc # "idle" ~> pc = "idle"
=============================================================================
