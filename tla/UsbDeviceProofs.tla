-------------------------- MODULE UsbDeviceProofs --------------------------
(***************************************************************************)
(* Proofs about UsbDevice, for every value of its constants.               *)
(***************************************************************************)
EXTENDS UsbDevice, TLAPS

USE DEF Phases, vars, sessionVars, receiveVars, readerVars, callerVars,
        localVars, driverVars, boardVars, ghostVars

\* The locals of execute agree with its place.
InOperation == pc = "write" /\ job = "operation"
InBatch == pc \in {"arm", "take", "seal"} \/ (pc = "write" /\ job # "operation")

ControlOK ==
    /\ pc \in ExecutePlaces => program \in Programs
    /\ InOperation => opIndex \in DOMAIN program.operations
    /\ InBatch => batchIndex \in DOMAIN program.batches

-----------------------------------------------------------------------------
\* Programs.

\* The current operation is one of the program, as ProgramAssumption says.
LEMMA OperationKnown ==
  ASSUME CallerType, ControlOK, pc = "write", job = "operation"
  PROVE  /\ CurrentOp.deferred => CurrentOp.slot \in Slots /\ CurrentOp.image \in Images
         /\ CurrentOp.slot \in Slots \cup {None}
         /\ CurrentOp.slot # None => CurrentOp.image \in Images
         /\ program.residency /\ ~CurrentOp.deferred => CurrentOp.slot = None
<1>1. program \in Programs /\ opIndex \in DOMAIN program.operations
  BY DEF ControlOK, InOperation, ExecutePlaces, ReadbackPlaces
<1>2. program \in Program
  BY <1>1, ProgramsAssumption DEF ProgramAssumption
<1>3. CurrentOp \in Operation
  BY <1>1, <1>2 DEF CurrentOp, Program
<1> QED
  BY <1>1, <1>3, ProgramsAssumption DEF ProgramAssumption, CurrentOp, Operation

\* The current batch is one of the program, and its targets are keys.
LEMMA BatchKnown ==
  ASSUME CallerType, ControlOK, InBatch
  PROVE  CurrentBatch \in Batch /\ Targets(CurrentBatch) \subseteq Keys
<1>1. program \in Programs /\ batchIndex \in DOMAIN program.batches
  BY DEF ControlOK, InBatch, ExecutePlaces, ReadbackPlaces
<1>2. program \in Program
  BY <1>1, ProgramsAssumption DEF ProgramAssumption
<1>3. CurrentBatch \in Batch
  BY <1>1, <1>2 DEF CurrentBatch, Program
<1> QED
  BY <1>3 DEF Batch, Targets

-----------------------------------------------------------------------------
\* What the shared operators do to the types.

\* What lands on the board keeps its type.
LEMMA LandsType ==
  ASSUME BoardType, CallerType, ControlOK, pc = "write",
         NEW whole \in BOOLEAN, Lands(whole), UNCHANGED pllRegister
  PROVE  /\ slots' \in [Slots -> Images \cup {Torn}]
         /\ selected' \in Macros \cup {None, Torn}
         /\ work' \in Computation
         /\ owed' \subseteq Reply
         /\ asked' \subseteq Keys
<1>1. CASE job = "operation" /\ OperationLands(whole)
  <2>1. slots' \in [Slots -> Images \cup {Torn}]
    BY <1>1, OperationKnown DEF OperationLands, BoardType
  <2>2. work' \in Computation
    <3>1. [call |-> calls, weights |-> slots, pll |-> pllRegister] \in Computation
      BY DEF BoardType, CallerType, Computation, Weights
    <3> QED
      BY <1>1, <3>1 DEF OperationLands, BoardType
  <2> QED
    BY <1>1, <2>1, <2>2 DEF OperationLands, BoardType, CallerType
<1>2. CASE job = "selection" /\ SelectionLands(whole)
  <2>1. CurrentBatch.macro \in Macros
    BY <1>2, BatchKnown DEF InBatch, Batch
  <2> QED
    BY <1>2, <2>1 DEF SelectionLands, BoardType, CallerType
<1>3. CASE job = "request" /\ RequestLands(whole)
  <2>1. PICK new \in SUBSET (Targets(CurrentBatch) \ asked) :
           /\ asked' = asked \cup new
           /\ owed' = owed \cup
                {[key |-> k, macro |-> selected, work |-> work,
                  call |-> calls, pll |-> pllRegister] : k \in new}
    BY <1>3 DEF RequestLands
  <2>2. new \subseteq Keys
    BY <1>3, <2>1, BatchKnown DEF InBatch
  <2>3. {[key |-> k, macro |-> selected, work |-> work,
          call |-> calls, pll |-> pllRegister] : k \in new} \subseteq Reply
    BY <2>2 DEF Reply, BoardType, CallerType
  <2> QED
    BY <1>3, <2>1, <2>2, <2>3 DEF RequestLands, BoardType, CallerType
<1> QED
  BY <1>1, <1>2, <1>3 DEF Lands

\* A flit the board sends is one of a reply it owes.
LEMMA TakeFlitType ==
  ASSUME BoardType, NEW c \in Channels, NEW reply \in InFlight,
         NEW place \in 1..PacketFlits, TakeFlit(c, reply, place)
  PROVE  /\ BoardType'
         /\ \A damage \in Damage : NextFlit(c, reply, place, damage) \in Record
<1>1. reply \in Reply
  BY ConstantAssumption DEF BoardType, InFlight
<1>2. Rest(reply, place) \in [reply : Reply, place : 1..PacketFlits] \cup {None}
  BY <1>1, ConstantAssumption DEF Rest
<1>3. BoardType'
  BY <1>2 DEF BoardType, TakeFlit
<1> QED
  BY <1>1, <1>3 DEF NextFlit, Record, Flit

\* A chunk and what is left of the stream are records.
LEMMA TakeFromWireType ==
  ASSUME ReceiveType, TakeFromWire
  PROVE  chunk' \in Seq(Record) /\ wire' \in Seq(Record)
  BY DEF ReceiveType, TakeFromWire

\* Accepting a chunk never makes the budget negative.
LEMMA AcceptChunkType ==
  ASSUME ReceiveType, AcceptChunk
  PROVE  /\ remaining' \in Nat
         /\ UNCHANGED <<receiveError, responses, partial, chunk>>
  BY ConstantAssumption DEF ReceiveType, AcceptChunk, Refusal

\* Refusing a chunk records one of the known errors.
LEMMA RefuseChunkType ==
  ASSUME ReceiveType, RefuseChunk
  PROVE  /\ receiveError' \in ReceiveErrors /\ chunk' \in Seq(Record)
         /\ UNCHANGED <<responses, partial, remaining>>
  BY DEF ReceiveType, RefuseChunk, Refusal, ReceiveErrors

\* A packet is queued when it is whole and shorter before.
LEMMA DeliverRecordType ==
  ASSUME ReceiveType, DeliverRecord
  PROVE  /\ responses' \in Seq(Packet)
         /\ partial' \in [Channels -> Seq(Flit)]
         /\ \A c \in Channels : Len(partial'[c]) < PacketFlits
         /\ chunk' \in Seq(Record)
         /\ UNCHANGED <<receiveError, remaining>>
<1> DEFINE c == Head(chunk).channel
           packet == Append(partial[c], Head(chunk).flit)
<1>1. Head(chunk) \in Record
  BY DEF ReceiveType, DeliverRecord
<1>2. c \in Channels /\ Head(chunk).flit \in Flit
  BY <1>1 DEF Record
<1>3. packet \in Seq(Flit) /\ Len(packet) = Len(partial[c]) + 1
  BY <1>2 DEF ReceiveType
<1>4. Len(packet) <= PacketFlits
  BY <1>2, <1>3, ConstantAssumption DEF ReceiveType
<1>5. chunk' \in Seq(Record) /\ UNCHANGED <<receiveError, remaining>>
  BY DEF ReceiveType, DeliverRecord
<1>6. CASE Len(packet) = PacketFlits
  <2>1. packet \in Packet
    <3> HIDE DEF packet
    <3>1. packet \in [1..Len(packet) -> Flit]
      BY <1>3
    <3> QED
      BY <3>1, <1>6 DEF Packet
  <2>2. /\ responses' = Append(responses, packet)
        /\ partial' = [partial EXCEPT ![c] = <<>>]
    BY <1>6 DEF DeliverRecord
  <2> QED
    BY <1>2, <1>5, <2>1, <2>2, ConstantAssumption DEF ReceiveType
<1>7. CASE Len(packet) # PacketFlits
  <2>1. UNCHANGED responses /\ partial' = [partial EXCEPT ![c] = packet]
    BY <1>7 DEF DeliverRecord
  <2> QED
    BY <1>2, <1>3, <1>4, <1>5, <1>7, <2>1, ConstantAssumption DEF ReceiveType
<1> QED
  BY <1>6, <1>7

-----------------------------------------------------------------------------
\* Each part of TypeOK is kept by every step.

\* The caches hold weights and clock words.
LEMMA SessionStep ==
  ASSUME SessionType, CallerType, ControlOK, [Next]_vars
  PROVE  SessionType'
<1>1. CASE Call
  BY <1>1, SMTT(30), ConstantAssumption
  DEF Call, Open, Close, ClearWeightResidency, ExecuteRefused, Execute,
      NewCall, BeginClose, NoWeights, SessionType
<1>2. CASE Closing
  BY <1>2, SMTT(30), ConstantAssumption
  DEF Closing, DriverCancel, Join, DrainRead, DrainEmpty, DrainError,
      DrainAppend, DrainDeliver, DrainDelivered, DriverClose, DrainOnly,
      Mishap, SessionType
<1>3. CASE Opening
  BY <1>3, SMTT(30), ConstantAssumption
  DEF Opening, OpenFails, OpenDriver, SessionStarts, SessionFails,
      SessionTimeout, BeginClose, NoWeights, SessionType
<1>4. CASE Begin
  BY <1>4, SMTT(30), ConstantAssumption
  DEF Begin, Fault, Return, ExecuteOnly, NoWeights, SessionType
<1>5. CASE ConfigurePhase
  BY <1>5, SMTT(30), ConstantAssumption
  DEF ConfigurePhase, PhaseAborted, PhaseKept, PLLEchoed, PLLPortMissing,
      PLLFails, MustConfigure, AfterPhase, PLLOnly, ExecuteOnly, Fault,
      Return, Mishap, NoWeights, CallerType, SessionType
<1>6. CASE Operations
  BY <1>6, SMTT(30), ConstantAssumption
  DEF Operations, EnterWork, InvalidOperation, WeightHit, StartOperation,
      OperationsDone, StartWrite, OperationOnly, ExecuteOnly, Fault, Return,
      NoWeights, SessionType
<1>7. CASE Write
  <2>1. CASE WriteChunk
    <3>1. CASE CurrentOp.deferred /\ job = "operation"
      BY <2>1, <3>1, OperationKnown DEF WriteChunk, SessionType
    <3>2. CASE ~(CurrentOp.deferred /\ job = "operation")
      BY <2>1, <3>2 DEF WriteChunk, SessionType
    <3> QED
      BY <3>1, <3>2
  <2>2. CASE WriteFails
    BY <2>2 DEF WriteFails, Fault, NoWeights, SessionType
  <2> QED
    BY <1>7, <2>1, <2>2 DEF Write
<1>8. CASE Readback
  BY <1>8, SMTT(30), ConstantAssumption
  DEF Readback, StartBatch, Arm, TakeResponse, NoResponse, Seal,
      BatchesDone, Finish, ReadbackOnly, ExecuteOnly, FaultReadback,
      StartWrite, Fault, Return, Budget, NoWeights, Holds, SessionType
<1>9. CASE Reader
  BY <1>9, SMTT(30), ConstantAssumption
  DEF Reader, ReaderStart, ReaderCheck, ReaderRead, ReaderReadNothing,
      ReaderReadError, ReaderAppend, ReaderDeliver, ReaderDelivered,
      ReaderOnly, Mishap, SessionType
<1>10. CASE Environment
  BY <1>10, SMTT(30), ConstantAssumption
  DEF Environment, BoardSend, BoardSpoil, LinkDrop, TakeFlit, Mishap,
      SessionType
<1>11. CASE UNCHANGED vars
  BY <1>11
  DEF SessionType
<1> QED
  BY <1>1, <1>2, <1>3, <1>4, <1>5, <1>6, <1>7, <1>8, <1>9, <1>10, <1>11
  DEF Next, Caller

\* The locals of execute stay within the program.
LEMMA ControlStep ==
  ASSUME CallerType, ControlOK, [Next]_vars
  PROVE  ControlOK'
<1>1. CASE Call
  BY <1>1, SMTT(30), ConstantAssumption
  DEF Call, Open, Close, ClearWeightResidency, ExecuteRefused, Execute,
      NewCall, BeginClose, CallerType, ControlOK, InBatch, InOperation,
      ExecutePlaces, ReadbackPlaces
<1>2. CASE Closing
  BY <1>2, SMTT(30), ConstantAssumption
  DEF Closing, DriverCancel, Join, DrainRead, DrainEmpty, DrainError,
      DrainAppend, DrainDeliver, DrainDelivered, DriverClose, DrainOnly,
      Mishap, ControlOK, InBatch, InOperation, ExecutePlaces, ReadbackPlaces
<1>3. CASE Opening
  BY <1>3, SMTT(30), ConstantAssumption
  DEF Opening, OpenFails, OpenDriver, SessionStarts, SessionFails,
      SessionTimeout, BeginClose, ControlOK, InBatch, InOperation,
      ExecutePlaces, ReadbackPlaces
<1>4. CASE Begin
  BY <1>4, SMTT(30), ConstantAssumption
  DEF Begin, Fault, Return, ExecuteOnly, ControlOK, InBatch, InOperation,
      ExecutePlaces, ReadbackPlaces
<1>5. CASE ConfigurePhase
  BY <1>5, SMTT(30), ConstantAssumption
  DEF ConfigurePhase, PhaseAborted, PhaseKept, PLLEchoed, PLLPortMissing,
      PLLFails, MustConfigure, AfterPhase, PLLOnly, ExecuteOnly, Fault,
      Return, Mishap, ControlOK, InBatch, InOperation, ExecutePlaces,
      ReadbackPlaces
<1>6. CASE Operations
  BY <1>6, SMTT(30), ConstantAssumption
  DEF Operations, EnterWork, InvalidOperation, WeightHit, StartOperation,
      OperationsDone, StartWrite, OperationOnly, ExecuteOnly, Fault, Return,
      CallerType, OperationsLeft, ControlOK, InBatch, InOperation,
      ExecutePlaces, ReadbackPlaces
<1>7. CASE Write
  BY <1>7, SMTT(30), ConstantAssumption
  DEF Write, WriteChunk, WriteFails, WriteOnly, Lands, OperationLands,
      SelectionLands, RequestLands, Fault, Return, Mishap, CallerType,
      ControlOK, InBatch, InOperation, ExecutePlaces, ReadbackPlaces
<1>8. CASE Readback
  BY <1>8, SMTT(30), ConstantAssumption
  DEF Readback, StartBatch, Arm, TakeResponse, NoResponse, Seal,
      BatchesDone, Finish, ReadbackOnly, ExecuteOnly, FaultReadback,
      StartWrite, Fault, Return, Budget, CallerType, BatchesLeft, ControlOK,
      InBatch, InOperation, ExecutePlaces, ReadbackPlaces
<1>9. CASE Reader
  BY <1>9, SMTT(30), ConstantAssumption
  DEF Reader, ReaderStart, ReaderCheck, ReaderRead, ReaderReadNothing,
      ReaderReadError, ReaderAppend, ReaderDeliver, ReaderDelivered,
      ReaderOnly, Mishap, ControlOK, InBatch, InOperation, ExecutePlaces,
      ReadbackPlaces
<1>10. CASE Environment
  BY <1>10, SMTT(30), ConstantAssumption
  DEF Environment, BoardSend, BoardSpoil, LinkDrop, TakeFlit, Mishap,
      ControlOK, InBatch, InOperation, ExecutePlaces, ReadbackPlaces
<1>11. CASE UNCHANGED vars
  BY <1>11
  DEF ControlOK, InBatch, InOperation, ExecutePlaces, ReadbackPlaces
<1> QED
  BY <1>1, <1>2, <1>3, <1>4, <1>5, <1>6, <1>7, <1>8, <1>9, <1>10, <1>11
  DEF Next, Caller

\* The caller's locals keep their types.
LEMMA CallerStep ==
  ASSUME ReceiveType, CallerType, BoardType, ControlOK, [Next]_vars
  PROVE  CallerType'
<1>1. CASE Call
  BY <1>1, SMTT(30), ConstantAssumption
  DEF Call, Open, Close, ClearWeightResidency, ExecuteRefused, Execute,
      NewCall, BeginClose, ExecutePlaces, ReadbackPlaces, ClosePlaces,
      OpenPlaces, CallerType
<1>2. CASE Closing
  BY <1>2, SMTT(30), ConstantAssumption
  DEF Closing, DriverCancel, Join, DrainRead, DrainEmpty, DrainError,
      DrainAppend, DrainDeliver, DrainDelivered, DriverClose, DrainOnly,
      Mishap, ExecutePlaces, ReadbackPlaces, ClosePlaces, OpenPlaces,
      CallerType
<1>3. CASE Opening
  BY <1>3, SMTT(30), ConstantAssumption
  DEF Opening, OpenFails, OpenDriver, SessionStarts, SessionFails,
      SessionTimeout, BeginClose, ExecutePlaces, ReadbackPlaces,
      ClosePlaces, OpenPlaces, CallerType
<1>4. CASE Begin
  BY <1>4, SMTT(30), ConstantAssumption
  DEF Begin, Fault, Return, ExecuteOnly, ExecutePlaces, ReadbackPlaces,
      ClosePlaces, OpenPlaces, CallerType
<1>5. CASE ConfigurePhase
  BY <1>5, SMTT(30), ConstantAssumption
  DEF ConfigurePhase, PhaseAborted, PhaseKept, PLLEchoed, PLLPortMissing,
      PLLFails, MustConfigure, AfterPhase, PLLOnly, ExecuteOnly, Fault,
      Return, Mishap, ExecutePlaces, ReadbackPlaces, ClosePlaces,
      OpenPlaces, CallerType
<1>6. CASE Operations
  BY <1>6, SMTT(30), ConstantAssumption
  DEF Operations, EnterWork, InvalidOperation, WeightHit, StartOperation,
      OperationsDone, StartWrite, OperationOnly, ExecuteOnly, Fault, Return,
      ExecutePlaces, ReadbackPlaces, ClosePlaces, OpenPlaces, CallerType
<1>7. CASE Write
  <2>1. CASE WriteChunk
    <3>1. chunksLeft' \in 0..WriteChunks
      BY <2>1, ConstantAssumption DEF WriteChunk, CallerType
    <3>2. asked' \subseteq Keys
      <4>1. (chunksLeft' = 0) \in BOOLEAN
        OBVIOUS
      <4> QED
        BY <2>1, <4>1, LandsType DEF WriteChunk, WriteOnly
    <3> QED
      BY <2>1, <3>1, <3>2
      DEF WriteChunk, WriteOnly, CallerType, ExecutePlaces, ReadbackPlaces
  <2>2. CASE WriteFails
    <3>1. asked' \subseteq Keys
      BY <2>2, LandsType DEF WriteFails, WriteOnly, CallerType
    <3> QED
      BY <2>2, <3>1, ConstantAssumption
      DEF WriteFails, WriteOnly, Fault, Return, Mishap, CallerType
  <2> QED
    BY <1>7, <2>1, <2>2 DEF Write
<1>8. CASE Readback
  <2>1. CASE TakeResponse
    <3> DEFINE packet == Head(responses)
    <3>1. packet \in Packet
      BY <2>1 DEF TakeResponse, ReceiveType
    <3>2. packet[1].reply.key \in Keys
      <4>1. packet[1] \in Flit
        BY <3>1, ConstantAssumption DEF Packet
      <4> QED
        BY <4>1 DEF Flit, Reply
    <3>3. readbacks' \subseteq [batch : Nat, key : Keys, packet : Packet]
      BY <2>1, <3>1, <3>2 DEF TakeResponse, FaultReadback, CallerType
    <3>4. wanted' \subseteq Keys
      BY <2>1 DEF TakeResponse, CallerType
    <3> QED
      BY <2>1, <3>3, <3>4
      DEF TakeResponse, ReadbackOnly, ExecuteOnly, FaultReadback, Fault, Return,
          CallerType, ExecutePlaces, ReadbackPlaces
  <2>2. CASE Arm
    <3>1. Targets(CurrentBatch) \subseteq Keys
      BY <2>2, BatchKnown DEF Arm, InBatch
    <3> QED
      BY <2>2, <3>1, ConstantAssumption
      DEF Arm, ExecuteOnly, FaultReadback, StartWrite, Fault, Return,
          CallerType, ExecutePlaces, ReadbackPlaces
  <2>3. CASE StartBatch \/ NoResponse \/ Seal \/ BatchesDone \/ Finish
    BY <2>3, ConstantAssumption
    DEF StartBatch, NoResponse, Seal, BatchesDone, Finish, ReadbackOnly,
        ExecuteOnly, FaultReadback, StartWrite, Fault, Return, CallerType,
        ExecutePlaces, ReadbackPlaces
  <2> QED
    BY <1>8, <2>1, <2>2, <2>3 DEF Readback
<1>9. CASE Reader
  BY <1>9, SMTT(30), ConstantAssumption
  DEF Reader, ReaderStart, ReaderCheck, ReaderRead, ReaderReadNothing,
      ReaderReadError, ReaderAppend, ReaderDeliver, ReaderDelivered,
      ReaderOnly, Mishap, CallerType
<1>10. CASE Environment
  BY <1>10, SMTT(30), ConstantAssumption
  DEF Environment, BoardSend, BoardSpoil, LinkDrop, TakeFlit, Mishap,
      CallerType
<1>11. CASE UNCHANGED vars
  BY <1>11
  DEF CallerType
<1> QED
  BY <1>1, <1>2, <1>3, <1>4, <1>5, <1>6, <1>7, <1>8, <1>9, <1>10, <1>11
  DEF Next, Caller

\* The board's state keeps its type.
LEMMA BoardStep ==
  ASSUME CallerType, BoardType, ControlOK, [Next]_vars
  PROVE  BoardType'
<1>1. CASE Call
  BY <1>1, SMTT(30), ConstantAssumption
  DEF Call, Open, Close, ClearWeightResidency, ExecuteRefused, Execute,
      NewCall, BeginClose, BoardType
<1>2. CASE Closing
  BY <1>2, SMTT(30), ConstantAssumption
  DEF Closing, DriverCancel, Join, DrainRead, DrainEmpty, DrainError,
      DrainAppend, DrainDeliver, DrainDelivered, DriverClose, DrainOnly,
      Mishap, BoardType
<1>3. CASE Opening
  BY <1>3, SMTT(30), ConstantAssumption
  DEF Opening, OpenFails, OpenDriver, SessionStarts, SessionFails,
      SessionTimeout, BeginClose, BoardType
<1>4. CASE Begin
  BY <1>4, SMTT(30), ConstantAssumption
  DEF Begin, Fault, Return, ExecuteOnly, BoardType
<1>5. CASE ConfigurePhase
  BY <1>5, SMTT(30), ConstantAssumption
  DEF ConfigurePhase, PhaseAborted, PhaseKept, PLLEchoed, PLLPortMissing,
      PLLFails, MustConfigure, AfterPhase, PLLOnly, ExecuteOnly, Fault,
      Return, Mishap, CallerType, BoardType
<1>6. CASE Operations
  BY <1>6, SMTT(30), ConstantAssumption
  DEF Operations, EnterWork, InvalidOperation, WeightHit, StartOperation,
      OperationsDone, StartWrite, OperationOnly, ExecuteOnly, Fault, Return,
      BoardType
<1>7. CASE Write
  <2>1. CASE WriteChunk
    <3>1. (chunksLeft' = 0) \in BOOLEAN
      OBVIOUS
    <3> QED
      BY <2>1, <3>1, LandsType DEF WriteChunk, WriteOnly, BoardType
  <2>2. CASE WriteFails
    BY <2>2, LandsType DEF WriteFails, WriteOnly, BoardType
  <2> QED
    BY <1>7, <2>1, <2>2 DEF Write
<1>8. CASE Readback
  BY <1>8, SMTT(30), ConstantAssumption
  DEF Readback, StartBatch, Arm, TakeResponse, NoResponse, Seal,
      BatchesDone, Finish, ReadbackOnly, ExecuteOnly, FaultReadback,
      StartWrite, Fault, Return, Budget, BoardType
<1>9. CASE Reader
  BY <1>9, SMTT(30), ConstantAssumption
  DEF Reader, ReaderStart, ReaderCheck, ReaderRead, ReaderReadNothing,
      ReaderReadError, ReaderAppend, ReaderDeliver, ReaderDelivered,
      ReaderOnly, Mishap, BoardType
<1>10. CASE Environment
  <2>1. CASE \E c \in Channels : BoardSend(c) \/ BoardSpoil(c)
    BY <2>1, TakeFlitType DEF BoardSend, BoardSpoil
  <2>2. CASE LinkDrop
    BY <2>2, ConstantAssumption
    DEF LinkDrop, BoardType, NoComputation, NoWeights, Computation, Weights
  <2> QED
    BY <1>10, <2>1, <2>2 DEF Environment
<1>11. CASE UNCHANGED vars
  BY <1>11
  DEF BoardType
<1> QED
  BY <1>1, <1>2, <1>3, <1>4, <1>5, <1>6, <1>7, <1>8, <1>9, <1>10, <1>11
  DEF Next, Caller

\* The receive state keeps its type; partial packets stay short.
LEMMA ReceiveStep ==
  ASSUME ReceiveType, CallerType, BoardType, ControlOK, [Next]_vars
  PROVE  ReceiveType'
<1>1. CASE Call
  BY <1>1, SMTT(30), ConstantAssumption
  DEF Call, Open, Close, ClearWeightResidency, ExecuteRefused, Execute,
      NewCall, BeginClose, ReceiveType
<1>2. CASE Closing
  <2>1. CASE DrainRead
    BY <2>1, TakeFromWireType DEF DrainRead, DrainOnly, ReceiveType
  <2>2. CASE DrainAppend
    BY <2>2, AcceptChunkType, RefuseChunkType
    DEF DrainAppend, DrainOnly, ReceiveType
  <2>3. CASE DrainDeliver
    BY <2>3, DeliverRecordType DEF DrainDeliver, DrainOnly, ReceiveType
  <2>4. CASE DriverClose
    BY <2>4 DEF DriverClose, ReceiveType
  <2>5. CASE DriverCancel \/ Join \/ DrainEmpty \/ DrainError \/ DrainDelivered
    BY <2>5
    DEF DriverCancel, Join, DrainEmpty, DrainError, DrainDelivered, DrainOnly,
        Mishap, ReceiveType, ReceiveErrors, ReaderPlaces
  <2> QED
    BY <1>2, <2>1, <2>2, <2>3, <2>4, <2>5 DEF Closing
<1>3. CASE Opening
  <2>1. CASE OpenDriver
    <3>1. partial' \in [Channels -> Seq(Flit)]
      BY <2>1 DEF OpenDriver
    <3>2. \A c \in Channels : Len(partial'[c]) < PacketFlits
      BY <2>1, ConstantAssumption DEF OpenDriver
    <3>3. responses' \in Seq(Packet)
      BY <2>1 DEF OpenDriver
    <3>4. ASSUME BoardQuiet PROVE wire' \in Seq(Record)
      <4>1. wire' = <<>>
        BY <2>1, <3>4 DEF OpenDriver
      <4> QED
        BY <4>1
    <3>5. ASSUME ~BoardQuiet PROVE wire' \in Seq(Record)
      <4>1. UNCHANGED wire
        BY <2>1, <3>5 DEF OpenDriver
      <4> QED
        BY <4>1 DEF ReceiveType
    <3>6. wire' \in Seq(Record)
      BY <3>4, <3>5
    <3> QED
      BY <2>1, <3>1, <3>2, <3>3, <3>6, ConstantAssumption
      DEF OpenDriver, ReceiveType, ReceiveErrors, ReaderPlaces
  <2>2. CASE OpenFails \/ SessionStarts \/ SessionFails \/ SessionTimeout
    BY <2>2
    DEF OpenFails, SessionStarts, SessionFails, SessionTimeout, BeginClose, ReceiveType
  <2> QED
    BY <1>3, <2>1, <2>2 DEF Opening
<1>4. CASE Begin
  BY <1>4, SMTT(30), ConstantAssumption
  DEF Begin, Fault, Return, ExecuteOnly, ReceiveType
<1>5. CASE ConfigurePhase
  BY <1>5, SMTT(30), ConstantAssumption
  DEF ConfigurePhase, PhaseAborted, PhaseKept, PLLEchoed, PLLPortMissing,
      PLLFails, MustConfigure, AfterPhase, PLLOnly, ExecuteOnly, Fault,
      Return, Mishap, ReceiveType
<1>6. CASE Operations
  BY <1>6, SMTT(30), ConstantAssumption
  DEF Operations, EnterWork, InvalidOperation, WeightHit, StartOperation,
      OperationsDone, StartWrite, OperationOnly, ExecuteOnly, Fault, Return,
      ReceiveType
<1>7. CASE Write
  BY <1>7, SMTT(30), ConstantAssumption
  DEF Write, WriteChunk, WriteFails, WriteOnly, Lands, OperationLands,
      SelectionLands, RequestLands, Fault, Return, Mishap, ReceiveType
<1>8. CASE Readback
  <2>1. CASE TakeResponse
    BY <2>1 DEF TakeResponse, ReadbackOnly, ExecuteOnly, ReceiveType
  <2>2. CASE Arm
    <3>1. Len(CurrentBatch.targets) * PacketFlits \in Nat
      BY <2>2, BatchKnown, ConstantAssumption DEF Arm, InBatch, Batch
    <3> QED
      BY <2>2, <3>1 DEF Arm, ExecuteOnly, Budget, ReceiveType
  <2>3. CASE StartBatch \/ NoResponse \/ Seal \/ BatchesDone \/ Finish
    BY <2>3
    DEF StartBatch, NoResponse, Seal, BatchesDone, Finish, ReadbackOnly,
        ExecuteOnly, ReceiveType
  <2> QED
    BY <1>8, <2>1, <2>2, <2>3 DEF Readback
<1>9. CASE Reader
  <2>1. CASE ReaderRead
    BY <2>1, TakeFromWireType DEF ReaderRead, ReaderOnly, ReceiveType, ReaderPlaces
  <2>2. CASE ReaderAppend
    BY <2>2, AcceptChunkType, RefuseChunkType
    DEF ReaderAppend, ReaderOnly, ReceiveType, ReaderPlaces
  <2>3. CASE ReaderDeliver
    BY <2>3, DeliverRecordType DEF ReaderDeliver, ReaderOnly, ReceiveType
  <2>4. CASE ReaderStart \/ ReaderCheck \/ ReaderReadNothing
             \/ ReaderReadError \/ ReaderDelivered
    BY <2>4
    DEF ReaderStart, ReaderCheck, ReaderReadNothing, ReaderReadError,
        ReaderDelivered, ReaderOnly, Mishap, ReceiveType, ReceiveErrors, ReaderPlaces
  <2> QED
    BY <1>9, <2>1, <2>2, <2>3, <2>4 DEF Reader
<1>10. CASE Environment
  <2>1. ASSUME NEW c \in Channels, BoardSend(c) \/ BoardSpoil(c)
        PROVE  wire' \in Seq(Record)
    <3>1. PICK reply \in InFlight, place \in 1..PacketFlits :
             /\ TakeFlit(c, reply, place)
             /\ \/ UNCHANGED wire
                \/ \E damage \in Damage :
                      wire' = Append(wire, NextFlit(c, reply, place, damage))
      BY <2>1 DEF BoardSend, BoardSpoil, Damage
    <3>2. \A damage \in Damage : NextFlit(c, reply, place, damage) \in Record
      BY <2>1, <3>1, TakeFlitType
    <3>3. CASE UNCHANGED wire
      BY <3>3 DEF ReceiveType
    <3>4. ASSUME NEW damage \in Damage,
                 wire' = Append(wire, NextFlit(c, reply, place, damage))
          PROVE  wire' \in Seq(Record)
      <4>1. NextFlit(c, reply, place, damage) \in Record
        BY <3>2, <3>4
      <4> QED
        BY <3>4, <4>1 DEF ReceiveType
    <3> QED
      BY <3>1, <3>3, <3>4
  <2>2. CASE \E c \in Channels : BoardSend(c) \/ BoardSpoil(c)
    BY <2>1, <2>2 DEF BoardSend, BoardSpoil, ReceiveType
  <2>3. CASE LinkDrop
    BY <2>3 DEF LinkDrop, ReceiveType
  <2> QED
    BY <1>10, <2>2, <2>3 DEF Environment
<1>11. CASE UNCHANGED vars
  BY <1>11
  DEF ReceiveType
<1> QED
  BY <1>1, <1>2, <1>3, <1>4, <1>5, <1>6, <1>7, <1>8, <1>9, <1>10, <1>11
  DEF Next, Caller

\* Flags stay Boolean.
LEMMA FlagStep ==
  ASSUME FlagType, [Next]_vars
  PROVE  FlagType'
<1>1. CASE Open
  BY <1>1, ZenonT(30), ConstantAssumption
  DEF FlagType, Open, NewCall, BeginClose
<1>2. CASE Close
  BY <1>2, ZenonT(30), ConstantAssumption
  DEF FlagType, Close, NewCall, BeginClose
<1>3. CASE ClearWeightResidency
  BY <1>3, ZenonT(30), ConstantAssumption DEF FlagType, ClearWeightResidency
<1>4. CASE ExecuteRefused
  BY <1>4, ZenonT(30), ConstantAssumption DEF FlagType, ExecuteRefused
<1>5. CASE DriverCancel
  BY <1>5, ZenonT(30), ConstantAssumption DEF FlagType, DriverCancel
<1>6. CASE Join
  BY <1>6, ZenonT(30), ConstantAssumption DEF FlagType, Join
<1>7. CASE DrainRead
  BY <1>7, ZenonT(30), ConstantAssumption
  DEF FlagType, DrainRead, TakeFromWire, DrainOnly
<1>8. CASE DrainEmpty
  BY <1>8, ZenonT(30), ConstantAssumption DEF FlagType, DrainEmpty, DrainOnly
<1>9. CASE DrainError
  BY <1>9, ZenonT(30), ConstantAssumption
  DEF FlagType, DrainError, DrainOnly, Mishap
<1>10. CASE DrainAppend
  BY <1>10, ZenonT(30), ConstantAssumption
  DEF FlagType, DrainAppend, DrainOnly, AcceptChunk, RefuseChunk
<1>11. CASE DrainDeliver
  BY <1>11, ZenonT(30), ConstantAssumption
  DEF FlagType, DrainDeliver, DrainOnly, DeliverRecord
<1>12. CASE DrainDelivered
  BY <1>12, ZenonT(30), ConstantAssumption
  DEF FlagType, DrainDelivered, DrainOnly
<1>13. CASE DriverClose
  BY <1>13, ZenonT(30), ConstantAssumption DEF FlagType, DriverClose
<1>14. CASE OpenFails
  BY <1>14, ZenonT(30), ConstantAssumption DEF FlagType, OpenFails
<1>15. CASE OpenDriver
  BY <1>15, ZenonT(30), ConstantAssumption DEF FlagType, OpenDriver
<1>16. CASE SessionStarts
  BY <1>16, ZenonT(30), ConstantAssumption DEF FlagType, SessionStarts
<1>17. CASE SessionFails
  BY <1>17, ZenonT(30), ConstantAssumption
  DEF FlagType, SessionFails, BeginClose
<1>18. CASE SessionTimeout
  BY <1>18, ZenonT(30), ConstantAssumption
  DEF FlagType, SessionTimeout, BeginClose
<1>19. CASE Begin
  BY <1>19, ZenonT(30), ConstantAssumption
  DEF FlagType, Begin, ExecuteOnly, Fault
<1>20. CASE PhaseAborted
  BY <1>20, ZenonT(30), ConstantAssumption
  DEF FlagType, PhaseAborted, PLLOnly, ExecuteOnly, Fault
<1>21. CASE PhaseKept
  BY <1>21, ZenonT(30), ConstantAssumption
  DEF FlagType, PhaseKept, PLLOnly, ExecuteOnly
<1>22. CASE PLLEchoed
  BY <1>22, ZenonT(30), ConstantAssumption
  DEF FlagType, PLLEchoed, PLLOnly, ExecuteOnly
<1>23. CASE PLLPortMissing
  BY <1>23, ZenonT(30), ConstantAssumption
  DEF FlagType, PLLPortMissing, PLLOnly, ExecuteOnly
<1>24. CASE PLLFails
  BY <1>24, ZenonT(30), ConstantAssumption
  DEF FlagType, PLLFails, PLLOnly, ExecuteOnly, Fault, Mishap
<1>25. CASE EnterWork
  BY <1>25, ZenonT(30), ConstantAssumption
  DEF FlagType, EnterWork, OperationOnly, ExecuteOnly
<1>26. CASE InvalidOperation
  BY <1>26, ZenonT(30), ConstantAssumption
  DEF FlagType, InvalidOperation, OperationOnly, ExecuteOnly, Fault
<1>27. CASE WeightHit
  BY <1>27, ZenonT(30), ConstantAssumption
  DEF FlagType, WeightHit, OperationOnly, ExecuteOnly
<1>28. CASE StartOperation
  BY <1>28, ZenonT(30), ConstantAssumption
  DEF FlagType, StartOperation, OperationOnly, ExecuteOnly
<1>29. CASE OperationsDone
  BY <1>29, ZenonT(30), ConstantAssumption
  DEF FlagType, OperationsDone, OperationOnly, ExecuteOnly
<1>30. CASE WriteChunk
  BY <1>30, ZenonT(30), ConstantAssumption DEF FlagType, WriteChunk, WriteOnly
<1>31. CASE WriteFails
  BY <1>31, ZenonT(30), ConstantAssumption
  DEF FlagType, WriteFails, WriteOnly, Fault, Mishap
<1>32. CASE StartBatch
  BY <1>32, ZenonT(30), ConstantAssumption
  DEF FlagType, StartBatch, ReadbackOnly, ExecuteOnly, FaultReadback, Fault
<1>33. CASE Arm
  BY <1>33, ZenonT(30), ConstantAssumption
  DEF FlagType, Arm, ExecuteOnly, FaultReadback, Fault
<1>34. CASE TakeResponse
  BY <1>34, ZenonT(30), ConstantAssumption
  DEF FlagType, TakeResponse, ReadbackOnly, ExecuteOnly, FaultReadback,
      Fault
<1>35. CASE NoResponse
  BY <1>35, ZenonT(30), ConstantAssumption
  DEF FlagType, NoResponse, ReadbackOnly, ExecuteOnly, FaultReadback, Fault
<1>36. CASE Seal
  BY <1>36, ZenonT(30), ConstantAssumption
  DEF FlagType, Seal, ReadbackOnly, ExecuteOnly, FaultReadback, Fault
<1>37. CASE BatchesDone
  BY <1>37, ZenonT(30), ConstantAssumption
  DEF FlagType, BatchesDone, ReadbackOnly, ExecuteOnly
<1>38. CASE Finish
  BY <1>38, ZenonT(30), ConstantAssumption
  DEF FlagType, Finish, ReadbackOnly, ExecuteOnly, Fault
<1>39. CASE ReaderStart
  BY <1>39, ZenonT(30), ConstantAssumption
  DEF FlagType, ReaderStart, ReaderOnly
<1>40. CASE ReaderCheck
  BY <1>40, ZenonT(30), ConstantAssumption
  DEF FlagType, ReaderCheck, ReaderOnly
<1>41. CASE ReaderRead
  BY <1>41, ZenonT(30), ConstantAssumption
  DEF FlagType, ReaderRead, ReaderOnly, TakeFromWire
<1>42. CASE ReaderReadNothing
  BY <1>42, ZenonT(30), ConstantAssumption
  DEF FlagType, ReaderReadNothing, ReaderOnly
<1>43. CASE ReaderReadError
  BY <1>43, ZenonT(30), ConstantAssumption
  DEF FlagType, ReaderReadError, ReaderOnly, Mishap
<1>44. CASE ReaderAppend
  BY <1>44, ZenonT(30), ConstantAssumption
  DEF FlagType, ReaderAppend, ReaderOnly, AcceptChunk, RefuseChunk
<1>45. CASE ReaderDeliver
  BY <1>45, ZenonT(30), ConstantAssumption
  DEF FlagType, ReaderDeliver, ReaderOnly, DeliverRecord
<1>46. CASE ReaderDelivered
  BY <1>46, ZenonT(30), ConstantAssumption
  DEF FlagType, ReaderDelivered, ReaderOnly
<1>47. CASE LinkDrop
  BY <1>47, ZenonT(30), ConstantAssumption DEF FlagType, LinkDrop, Mishap
<1>48. CASE \E p \in Programs : Execute(p)
  BY <1>48, ZenonT(30), ConstantAssumption DEF FlagType, Execute
<1>49. CASE \E c \in Channels : BoardSend(c) \/ BoardSpoil(c)
  BY <1>49, ZenonT(30), ConstantAssumption
  DEF FlagType, BoardSend, BoardSpoil, Mishap
<1>50. CASE UNCHANGED vars
  BY <1>50, ZenonT(30), ConstantAssumption DEF FlagType, vars
<1> QED
  BY <1>1, <1>2, <1>3, <1>4, <1>5, <1>6, <1>7, <1>8, <1>9, <1>10, <1>11,
     <1>12, <1>13, <1>14, <1>15, <1>16, <1>17, <1>18, <1>19, <1>20, <1>21,
     <1>22, <1>23, <1>24, <1>25, <1>26, <1>27, <1>28, <1>29, <1>30, <1>31,
     <1>32, <1>33, <1>34, <1>35, <1>36, <1>37, <1>38, <1>39, <1>40, <1>41,
     <1>42, <1>43, <1>44, <1>45, <1>46, <1>47, <1>48, <1>49, <1>50
  DEF Next, Call, Caller, Closing, Opening, ConfigurePhase, Operations, Write,
      Readback, Reader, Environment

-----------------------------------------------------------------------------
\* What the session forgets, and when.

Forgotten == resident = NoWeights /\ verifiedPLL = None
RawForgets ==
    pc \in ExecutePlaces /\ ~program.residency =>
        resident = NoWeights /\ pending = NoWeights
ForgetInv ==
    /\ pc \in ClosePlaces \cup {"openDriver"} => Forgotten
    /\ RawForgets
    /\ InOperation /\ CurrentOp.deferred => program.residency

\* Closing and raw programs have forgotten the caches.
LEMMA ForgetStep ==
  ASSUME SessionType, CallerType, ControlOK, ForgetInv, [Next]_vars
  PROVE  ForgetInv'
<1>1. CASE Call
  BY <1>1, SMTT(30), ConstantAssumption
  DEF Call, Open, Close, ClearWeightResidency, ExecuteRefused, Execute,
      NewCall, BeginClose, Holds, ForgetInv, Forgotten, RawForgets,
      NoWeights, InOperation, CurrentOp, ExecutePlaces, ReadbackPlaces,
      ClosePlaces
<1>2. CASE Closing
  BY <1>2, SMTT(30), ConstantAssumption
  DEF Closing, DriverCancel, Join, DrainRead, DrainEmpty, DrainError,
      DrainAppend, DrainDeliver, DrainDelivered, DriverClose, DrainOnly,
      Mishap, ForgetInv, Forgotten, RawForgets, NoWeights, InOperation,
      CurrentOp, ExecutePlaces, ReadbackPlaces, ClosePlaces
<1>3. CASE Opening
  BY <1>3, SMTT(30), ConstantAssumption
  DEF Opening, OpenFails, OpenDriver, SessionStarts, SessionFails,
      SessionTimeout, BeginClose, ForgetInv, Forgotten, RawForgets,
      NoWeights, InOperation, CurrentOp, ExecutePlaces, ReadbackPlaces,
      ClosePlaces
<1>4. CASE Begin
  BY <1>4, SMTT(30), ConstantAssumption
  DEF Begin, Fault, Return, ExecuteOnly, ForgetInv, Forgotten, RawForgets,
      NoWeights, InOperation, CurrentOp, ExecutePlaces, ReadbackPlaces,
      ClosePlaces
<1>5. CASE ConfigurePhase
  BY <1>5, SMTT(30), ConstantAssumption
  DEF ConfigurePhase, PhaseAborted, PhaseKept, PLLEchoed, PLLPortMissing,
      PLLFails, MustConfigure, AfterPhase, PLLOnly, ExecuteOnly, Fault,
      Return, Mishap, ForgetInv, Forgotten, RawForgets, NoWeights,
      InOperation, CurrentOp, ExecutePlaces, ReadbackPlaces, ClosePlaces
<1>6. CASE Operations
  BY <1>6, SMTT(30), ConstantAssumption
  DEF Operations, EnterWork, InvalidOperation, WeightHit, StartOperation,
      OperationsDone, StartWrite, OperationOnly, ExecuteOnly, Fault, Return,
      Valid, ForgetInv, Forgotten, RawForgets, NoWeights, InOperation,
      CurrentOp, ExecutePlaces, ReadbackPlaces, ClosePlaces
<1>7. CASE Write
  BY <1>7, SMTT(30), ConstantAssumption
  DEF Write, WriteChunk, WriteFails, WriteOnly, Lands, OperationLands,
      SelectionLands, RequestLands, Fault, Return, Mishap, ForgetInv,
      Forgotten, RawForgets, NoWeights, InOperation, CurrentOp,
      ExecutePlaces, ReadbackPlaces, ClosePlaces
<1>8. CASE Readback
  BY <1>8, SMTT(30), ConstantAssumption
  DEF Readback, StartBatch, Arm, TakeResponse, NoResponse, Seal,
      BatchesDone, Finish, ReadbackOnly, ExecuteOnly, FaultReadback,
      StartWrite, Fault, Return, Budget, Holds, ForgetInv, Forgotten,
      RawForgets, NoWeights, InOperation, CurrentOp, ExecutePlaces,
      ReadbackPlaces, ClosePlaces
<1>9. CASE Reader
  BY <1>9, SMTT(30), ConstantAssumption
  DEF Reader, ReaderStart, ReaderCheck, ReaderRead, ReaderReadNothing,
      ReaderReadError, ReaderAppend, ReaderDeliver, ReaderDelivered,
      ReaderOnly, Mishap, ForgetInv, Forgotten, RawForgets, NoWeights,
      InOperation, CurrentOp, ExecutePlaces, ReadbackPlaces, ClosePlaces
<1>10. CASE Environment
  BY <1>10, SMTT(30), ConstantAssumption
  DEF Environment, BoardSend, BoardSpoil, LinkDrop, TakeFlit, Mishap,
      ForgetInv, Forgotten, RawForgets, NoWeights, InOperation, CurrentOp,
      ExecutePlaces, ReadbackPlaces, ClosePlaces
<1>11. CASE UNCHANGED vars
  BY <1>11
  DEF ForgetInv, Forgotten, RawForgets, NoWeights, InOperation, CurrentOp,
      ExecutePlaces, ReadbackPlaces, ClosePlaces
<1> QED
  BY <1>1, <1>2, <1>3, <1>4, <1>5, <1>6, <1>7, <1>8, <1>9, <1>10, <1>11
  DEF Next, Caller

-----------------------------------------------------------------------------
\* The verified clock and the PLL register.

\* A step that leaves the clock alone, or forgets it.
LEMMA ClockKept ==
  ASSUME PLLPhysical, UNCHANGED <<linkUp, pllRegister>>,
         verifiedPLL' \in {verifiedPLL, None}
  PROVE  PLLPhysical'
  BY DEF PLLPhysical

\* No step leaves a stale verified PLL word.
LEMMA ClockStep ==
  ASSUME SessionType, ForgetInv, PLLPhysical, [Next]_vars
  PROVE  PLLPhysical'
<1>1. CASE Call
  <2>1. UNCHANGED <<linkUp, pllRegister>> /\ verifiedPLL' \in {verifiedPLL, None}
    BY <1>1, SMTT(30)
    DEF Call, Open, Close, ClearWeightResidency, ExecuteRefused, Execute,
        NewCall, BeginClose
  <2> QED
    BY <2>1, ClockKept
<1>2. CASE Closing
  <2>1. UNCHANGED <<linkUp, pllRegister>> /\ verifiedPLL' \in {verifiedPLL, None}
    BY <1>2, SMTT(30)
    DEF Closing, DriverCancel, Join, DrainRead, DrainEmpty, DrainError,
        DrainAppend, DrainDeliver, DrainDelivered, DriverClose, DrainOnly,
        Mishap
  <2> QED
    BY <2>1, ClockKept
<1>3. CASE Begin
  <2>1. UNCHANGED <<linkUp, pllRegister>> /\ verifiedPLL' \in {verifiedPLL, None}
    BY <1>3, SMTT(30) DEF Begin, Fault, Return, ExecuteOnly
  <2> QED
    BY <2>1, ClockKept
<1>4. CASE Operations
  <2>1. UNCHANGED <<linkUp, pllRegister>> /\ verifiedPLL' \in {verifiedPLL, None}
    BY <1>4, SMTT(30)
    DEF Operations, EnterWork, InvalidOperation, WeightHit, StartOperation,
        OperationsDone, StartWrite, OperationOnly, ExecuteOnly, Fault,
        Return
  <2> QED
    BY <2>1, ClockKept
<1>5. CASE Write
  <2>1. UNCHANGED <<linkUp, pllRegister>> /\ verifiedPLL' \in {verifiedPLL, None}
    BY <1>5, SMTT(30)
    DEF Write, WriteChunk, WriteFails, WriteOnly, Lands, OperationLands,
        SelectionLands, RequestLands, Fault, Return, Mishap
  <2> QED
    BY <2>1, ClockKept
<1>6. CASE Readback
  <2>1. UNCHANGED <<linkUp, pllRegister>> /\ verifiedPLL' \in {verifiedPLL, None}
    BY <1>6, SMTT(30)
    DEF Readback, StartBatch, Arm, TakeResponse, NoResponse, Seal,
        BatchesDone, Finish, ReadbackOnly, ExecuteOnly, FaultReadback,
        StartWrite, Fault, Return, Budget
  <2> QED
    BY <2>1, ClockKept
<1>7. CASE Reader
  <2>1. UNCHANGED <<linkUp, pllRegister>> /\ verifiedPLL' \in {verifiedPLL, None}
    BY <1>7, SMTT(30)
    DEF Reader, ReaderStart, ReaderCheck, ReaderRead, ReaderReadNothing,
        ReaderReadError, ReaderAppend, ReaderDeliver, ReaderDelivered,
        ReaderOnly, Mishap
  <2> QED
    BY <2>1, ClockKept
<1>8. CASE Opening
  <2>1. CASE OpenDriver
    <3>1. verifiedPLL' = None
      BY <2>1 DEF OpenDriver, ForgetInv, Forgotten
    <3> QED
      BY <3>1 DEF PLLPhysical
  <2>2. CASE OpenFails \/ SessionStarts \/ SessionFails \/ SessionTimeout
    <3>1. UNCHANGED <<linkUp, pllRegister>> /\ verifiedPLL' \in {verifiedPLL, None}
      BY <2>2 DEF OpenFails, SessionStarts, SessionFails, SessionTimeout, BeginClose
    <3> QED
      BY <3>1, ClockKept
  <2> QED
    BY <1>8, <2>1, <2>2 DEF Opening
<1>9. CASE ConfigurePhase
  <2>1. CASE PLLEchoed
    BY <2>1 DEF PLLEchoed, PLLPhysical
  <2>2. CASE PLLFails
    <3>1. verifiedPLL' = None
      BY <2>2 DEF PLLFails, Fault
    <3> QED
      BY <3>1 DEF PLLPhysical
  <2>3. CASE PhaseAborted \/ PhaseKept \/ PLLPortMissing
    <3>1. UNCHANGED <<linkUp, pllRegister>> /\ verifiedPLL' \in {verifiedPLL, None}
      BY <2>3
      DEF PhaseAborted, PhaseKept, PLLPortMissing, PLLOnly, ExecuteOnly, Fault
    <3> QED
      BY <3>1, ClockKept
  <2> QED
    BY <1>9, <2>1, <2>2, <2>3 DEF ConfigurePhase
<1>10. CASE Environment
  <2>1. CASE \E c \in Channels : BoardSend(c) \/ BoardSpoil(c)
    <3>1. UNCHANGED <<linkUp, pllRegister, verifiedPLL>>
      BY <2>1 DEF BoardSend, BoardSpoil, TakeFlit
    <3> QED
      BY <3>1, ClockKept
  <2>2. CASE LinkDrop
    <3>1. ~linkUp'
      BY <2>2 DEF LinkDrop
    <3> QED
      BY <3>1 DEF PLLPhysical
  <2> QED
    BY <1>10, <2>1, <2>2 DEF Environment
<1>11. CASE UNCHANGED vars
  BY <1>11, ClockKept
<1> QED
  BY <1>1, <1>2, <1>3, <1>4, <1>5, <1>6, <1>7, <1>8, <1>9, <1>10, <1>11
  DEF Next, Caller

-----------------------------------------------------------------------------
\* The residency table and the slots.

\* A step leaves what is believed of a slot alone, or forgets it.
StillBelieved(s) ==
    Believed(s)' # None =>
        /\ Believed(s) = Believed(s)'
        /\ BeingWritten(s) => BeingWritten(s)'

\* Such a step leaves the slots and the link alone, and the table stays right.
LEMMA TableKept ==
  ASSUME ResidencyPhysical, UNCHANGED <<linkUp, slots>>,
         \A s \in Slots : StillBelieved(s)
  PROVE  ResidencyPhysical'
<1> SUFFICES ASSUME linkUp', NEW s \in Slots,
                    Believed(s)' # None, ~BeingWritten(s)'
             PROVE  slots'[s] = Believed(s)'
  BY DEF ResidencyPhysical
<1>1. linkUp /\ Believed(s) = Believed(s)' /\ ~BeingWritten(s)
  BY DEF StillBelieved
<1>2. slots[s] = Believed(s)
  BY <1>1 DEF ResidencyPhysical
<1> QED
  BY <1>1, <1>2

\* A step after which nothing is believed.
LEMMA TableForgotten ==
  ASSUME resident' = NoWeights, pc' \notin ExecutePlaces
  PROVE  ResidencyPhysical' /\ \A s \in Slots : StillBelieved(s)
<1>1. \A s \in Slots : Believed(s)' = None
  BY DEF Believed, NoWeights
<1> QED
  BY <1>1 DEF ResidencyPhysical, StillBelieved

\* No step leaves a stale entry in the residency table.
LEMMA ResidencyStep ==
  ASSUME SessionType, CallerType, BoardType, ControlOK, ForgetInv, ResidencyPhysical,
         [Next]_vars
  PROVE  ResidencyPhysical'
<1>1. CASE Call
  <2>1. UNCHANGED <<linkUp, slots>>
    BY <1>1, SMTT(30)
    DEF Call, Open, Close, ClearWeightResidency, ExecuteRefused, Execute,
        NewCall, BeginClose
  <2>2. \A s \in Slots : StillBelieved(s)
    BY <1>1, SMTT(30)
    DEF Call, Open, Close, ClearWeightResidency, ExecuteRefused, Execute,
        NewCall, BeginClose, StillBelieved, Believed, BeingWritten, Holds,
        CurrentOp, ExecutePlaces, ReadbackPlaces, NoWeights
  <2> QED
    BY <2>1, <2>2, TableKept
<1>2. CASE Closing
  <2>1. UNCHANGED <<linkUp, slots>>
    BY <1>2, SMTT(30)
    DEF Closing, DriverCancel, Join, DrainRead, DrainEmpty, DrainError,
        DrainAppend, DrainDeliver, DrainDelivered, DriverClose, DrainOnly,
        Mishap
  <2>2. \A s \in Slots : StillBelieved(s)
    BY <1>2, SMTT(30)
    DEF Closing, DriverCancel, Join, DrainRead, DrainEmpty, DrainError,
        DrainAppend, DrainDeliver, DrainDelivered, DriverClose, DrainOnly,
        Mishap, StillBelieved, Believed, BeingWritten, Holds, CurrentOp,
        ExecutePlaces, ReadbackPlaces, ClosePlaces
  <2> QED
    BY <2>1, <2>2, TableKept
<1>3. CASE Opening
  <2>1. CASE OpenFails \/ SessionStarts
    <3>1. UNCHANGED <<linkUp, slots>>
      BY <2>1, SMTT(30) DEF OpenFails, SessionStarts
    <3>2. \A s \in Slots : StillBelieved(s)
      BY <2>1, SMTT(30)
      DEF OpenFails, SessionStarts, StillBelieved, Believed, BeingWritten,
          Holds, CurrentOp, ExecutePlaces, ReadbackPlaces
    <3> QED
      BY <3>1, <3>2, TableKept
  <2>2. CASE OpenDriver
    <3>1. resident' = NoWeights /\ pc' \notin ExecutePlaces
      BY <2>2
      DEF OpenDriver, ForgetInv, Forgotten, ExecutePlaces, ReadbackPlaces
    <3> QED
      BY <3>1, TableForgotten
  <2>3. CASE SessionFails \/ SessionTimeout
    <3>1. resident' = NoWeights /\ pc' \notin ExecutePlaces
      BY <2>3, SMTT(30)
      DEF SessionFails, SessionTimeout, BeginClose, ExecutePlaces,
          ReadbackPlaces
    <3> QED
      BY <3>1, TableForgotten
  <2> QED
    BY <1>3, <2>1, <2>2, <2>3 DEF Opening
<1>4. CASE Begin
  <2>1. UNCHANGED <<linkUp, slots>>
    BY <1>4, SMTT(30) DEF Begin, Fault, Return, ExecuteOnly
  <2>2. \A s \in Slots : StillBelieved(s)
    BY <1>4, SMTT(30)
    DEF Begin, Fault, Return, ExecuteOnly, StillBelieved, Believed,
        BeingWritten, Holds, CurrentOp, ExecutePlaces, ReadbackPlaces,
        NoWeights
  <2> QED
    BY <2>1, <2>2, TableKept
<1>5. CASE ConfigurePhase
  <2>1. UNCHANGED <<linkUp, slots>>
    BY <1>5, SMTT(30)
    DEF ConfigurePhase, PhaseAborted, PhaseKept, PLLEchoed, PLLPortMissing,
        PLLFails, MustConfigure, AfterPhase, PLLOnly, ExecuteOnly, Fault,
        Return, Mishap
  <2>2. \A s \in Slots : StillBelieved(s)
    BY <1>5, SMTT(30)
    DEF ConfigurePhase, PhaseAborted, PhaseKept, PLLEchoed, PLLPortMissing,
        PLLFails, MustConfigure, AfterPhase, PLLOnly, ExecuteOnly, Fault,
        Return, Mishap, StillBelieved, Believed, BeingWritten, Holds,
        CurrentOp, ExecutePlaces, ReadbackPlaces, NoWeights
  <2> QED
    BY <2>1, <2>2, TableKept
<1>6. CASE Operations
  <2>1. UNCHANGED <<linkUp, slots>>
    BY <1>6, SMTT(30)
    DEF Operations, EnterWork, InvalidOperation, WeightHit, StartOperation,
        OperationsDone, StartWrite, OperationOnly, ExecuteOnly, Fault,
        Return
  <2>2. \A s \in Slots : StillBelieved(s)
    BY <1>6, SMTT(30)
    DEF Operations, EnterWork, InvalidOperation, WeightHit, StartOperation,
        OperationsDone, StartWrite, OperationOnly, ExecuteOnly, Fault,
        Return, StillBelieved, Believed, BeingWritten, Holds, CurrentOp,
        ExecutePlaces, ReadbackPlaces, NoWeights
  <2> QED
    BY <2>1, <2>2, TableKept
<1>7. CASE Write
  <2>1. CASE WriteChunk
    <3>1. CASE job = "operation"
      <4>1. InOperation /\ program \in Programs
        BY <2>1, <3>1 DEF WriteChunk, InOperation, ControlOK, ExecutePlaces
      <4>2. UNCHANGED <<linkUp, resident, program>> /\ pc' \in {"write", "operation"}
        BY <2>1, <3>1 DEF WriteChunk, WriteOnly
      <4> SUFFICES ASSUME NEW s \in Slots, Believed(s)' # None, ~BeingWritten(s)'
                   PROVE  linkUp' => slots'[s] = Believed(s)'
        BY DEF ResidencyPhysical
      <4>3. CASE CurrentOp.slot = s
        <5>1. chunksLeft' = 0
          <6>1. CASE chunksLeft' # 0
            <7>1. pc' = "write" /\ UNCHANGED <<job, opIndex, program>>
              BY <2>1, <6>1 DEF WriteChunk, WriteOnly
            <7> QED
              BY <3>1, <4>3, <7>1 DEF BeingWritten, CurrentOp
          <6> QED
            BY <6>1
        <5>2. slots'[s] = CurrentOp.image
          BY <2>1, <3>1, <4>3, <5>1, ConstantAssumption
          DEF WriteChunk, Lands, OperationLands, BoardType
        <5>3. CASE CurrentOp.deferred
          <6>1. pending'[s] = CurrentOp.image
            BY <2>1, <3>1, <4>3, <5>1, <5>3 DEF WriteChunk, SessionType
          <6>2. CurrentOp.image # None
            BY <2>1, <3>1, <5>3, OperationKnown, ConstantAssumption
            DEF WriteChunk
          <6> QED
            BY <4>2, <5>2, <6>1, <6>2
            DEF Believed, Holds, ExecutePlaces, ReadbackPlaces
        <5>4. CASE ~CurrentOp.deferred
          <6>1. ~program.residency
            BY <2>1, <3>1, <4>3, <5>4, OperationKnown, ConstantAssumption
            DEF WriteChunk
          <6>2. resident = NoWeights /\ pending = NoWeights
            BY <6>1, <4>1 DEF ForgetInv, RawForgets, InOperation, ExecutePlaces
          <6>3. resident' = NoWeights /\ pending' = NoWeights
            BY <2>1, <4>2, <5>4, <6>2 DEF WriteChunk
          <6> QED
            BY <6>3 DEF Believed, Holds, NoWeights
        <5> QED
          BY <5>3, <5>4
      <4>4. CASE CurrentOp.slot # s
        <5>1. slots'[s] = slots[s]
          <6> DEFINE outcome == IF chunksLeft' = 0 THEN CurrentOp.image ELSE Torn
          <6>1. slots' = IF CurrentOp.slot = None THEN slots
                         ELSE [slots EXCEPT ![CurrentOp.slot] = outcome]
            BY <2>1, <3>1 DEF WriteChunk, Lands, OperationLands
          <6> QED
            BY <4>4, <6>1 DEF BoardType
        <5>2. pending'[s] = pending[s]
          BY <2>1, <4>4 DEF WriteChunk, SessionType
        <5>3. Believed(s)' = Believed(s) /\ ~BeingWritten(s)
          BY <2>1, <4>2, <4>4, <5>2
          DEF WriteChunk, Believed, BeingWritten, Holds, ExecutePlaces, ReadbackPlaces
        <5> QED
          BY <4>2, <5>1, <5>3 DEF ResidencyPhysical
      <4> QED
        BY <4>3, <4>4
    <3>2. CASE job # "operation"
      <4>1. UNCHANGED <<linkUp, slots>>
        BY <2>1, <3>2 DEF WriteChunk, WriteOnly, Lands, SelectionLands, RequestLands
      <4>2. /\ UNCHANGED <<resident, pending>>
            /\ pc \in ExecutePlaces /\ pc' \in ExecutePlaces
        BY <2>1, <3>2, SMTT(30)
        DEF WriteChunk, WriteOnly, Lands, SelectionLands, RequestLands,
            ExecutePlaces, ReadbackPlaces
      <4>3. \A s \in Slots : StillBelieved(s)
        BY <3>2, <4>2 DEF StillBelieved, Believed, BeingWritten, Holds
      <4> QED
        BY <4>1, <4>3, TableKept
    <3> QED
      BY <3>1, <3>2
  <2>2. CASE WriteFails
    <3>1. resident' = NoWeights /\ pc' \notin ExecutePlaces
      BY <2>2, SMTT(30)
      DEF WriteFails, Fault, Return, ExecutePlaces, ReadbackPlaces
    <3> QED
      BY <3>1, TableForgotten
  <2> QED
    BY <1>7, <2>1, <2>2 DEF Write
<1>8. CASE Readback
  <2>1. UNCHANGED <<linkUp, slots>>
    BY <1>8, SMTT(30)
    DEF Readback, StartBatch, Arm, TakeResponse, NoResponse, Seal,
        BatchesDone, Finish, ReadbackOnly, ExecuteOnly, FaultReadback,
        StartWrite, Fault, Return, Budget
  <2>2. \A s \in Slots : StillBelieved(s)
    BY <1>8, SMTT(30)
    DEF Readback, StartBatch, Arm, TakeResponse, NoResponse, Seal,
        BatchesDone, Finish, ReadbackOnly, ExecuteOnly, FaultReadback,
        StartWrite, Fault, Return, Budget, StillBelieved, Believed,
        BeingWritten, Holds, CurrentOp, ExecutePlaces, ReadbackPlaces,
        NoWeights
  <2> QED
    BY <2>1, <2>2, TableKept
<1>9. CASE Reader
  <2>1. UNCHANGED <<linkUp, slots>>
    BY <1>9, SMTT(30)
    DEF Reader, ReaderStart, ReaderCheck, ReaderRead, ReaderReadNothing,
        ReaderReadError, ReaderAppend, ReaderDeliver, ReaderDelivered,
        ReaderOnly, Mishap
  <2>2. \A s \in Slots : StillBelieved(s)
    BY <1>9, SMTT(30)
    DEF Reader, ReaderStart, ReaderCheck, ReaderRead, ReaderReadNothing,
        ReaderReadError, ReaderAppend, ReaderDeliver, ReaderDelivered,
        ReaderOnly, Mishap, StillBelieved, Believed, BeingWritten, Holds,
        CurrentOp, ExecutePlaces, ReadbackPlaces
  <2> QED
    BY <2>1, <2>2, TableKept
<1>10. CASE Environment
  <2>1. CASE \E c \in Channels : BoardSend(c) \/ BoardSpoil(c)
    <3>1. UNCHANGED <<linkUp, slots>>
      BY <2>1, SMTT(30) DEF BoardSend, BoardSpoil, TakeFlit
    <3>2. \A s \in Slots : StillBelieved(s)
      BY <2>1, SMTT(30)
      DEF BoardSend, BoardSpoil, TakeFlit, StillBelieved, Believed,
          BeingWritten, Holds, CurrentOp, ExecutePlaces, ReadbackPlaces
    <3> QED
      BY <3>1, <3>2, TableKept
  <2>2. CASE LinkDrop
    <3>1. ~linkUp'
      BY <2>2 DEF LinkDrop
    <3> QED
      BY <3>1 DEF ResidencyPhysical
  <2> QED
    BY <1>10, <2>1, <2>2 DEF Environment
<1>11. CASE UNCHANGED vars
  <2>1. UNCHANGED <<linkUp, slots>>
    BY <1>11, SMTT(30)
  <2>2. \A s \in Slots : StillBelieved(s)
    BY <1>11, SMTT(30)
    DEF StillBelieved, Believed, BeingWritten, Holds, CurrentOp,
        ExecutePlaces, ReadbackPlaces
  <2> QED
    BY <2>1, <2>2, TableKept
<1> QED
  BY <1>1, <1>2, <1>3, <1>4, <1>5, <1>6, <1>7, <1>8, <1>9, <1>10, <1>11
  DEF Next, Caller

-----------------------------------------------------------------------------
\* The session, the receive thread and the driver agree.
DriverInv ==
    /\ opened => driverOpen
    /\ reader # "none" => driverOpen
    /\ pc \in ExecutePlaces \cup {"await", "settle"} => opened
    /\ pc \in ExecutePlaces \cup {"await", "settle", "idle"} =>
          (opened => ~cancelled)
    /\ pc \in ClosePlaces \ {"cancel"} => cancelled
    /\ pc \in {"drain", "drainAppend", "drainDeliver"} => opened
    /\ pc \in {"drain", "drainAppend", "drainDeliver", "driverClose", "openDriver"} =>
          reader = "none"
    /\ pc = "openDriver" => ~opened
    /\ pc \in ExecutePlaces => ~faulted

\* Session, reader and driver stay in agreement.
LEMMA DriverStep ==
  ASSUME CallerType, FlagType, DriverInv, [Next]_vars
  PROVE  DriverInv'
<1>1. CASE Call
  BY <1>1, SMTT(30), ConstantAssumption
  DEF Call, Open, Close, ClearWeightResidency, ExecuteRefused, Execute,
      NewCall, BeginClose, DriverInv, FlagType, ExecutePlaces,
      ReadbackPlaces, ClosePlaces
<1>2. CASE Closing
  BY <1>2, SMTT(30), ConstantAssumption
  DEF Closing, DriverCancel, Join, DrainRead, DrainEmpty, DrainError,
      DrainAppend, DrainDeliver, DrainDelivered, DriverClose, DrainOnly,
      Mishap, DriverInv, FlagType, ExecutePlaces, ReadbackPlaces,
      ClosePlaces
<1>3. CASE Opening
  BY <1>3, SMTT(30), ConstantAssumption
  DEF Opening, OpenFails, OpenDriver, SessionStarts, SessionFails,
      SessionTimeout, BeginClose, DriverInv, FlagType, ExecutePlaces,
      ReadbackPlaces, ClosePlaces
<1>4. CASE Begin
  <2>1. /\ UNCHANGED <<opened, driverOpen, cancelled, reader>>
        /\ pc = "begin"
        /\ (pc' = "pll" /\ UNCHANGED faulted) \/ pc' = "idle"
    BY <1>4 DEF Begin, ExecuteOnly, Fault, Return
  <2> QED
    BY <2>1 DEF DriverInv, ExecutePlaces, ReadbackPlaces, ClosePlaces
<1>5. CASE ConfigurePhase
  BY <1>5, SMTT(30), ConstantAssumption
  DEF ConfigurePhase, PhaseAborted, PhaseKept, PLLEchoed, PLLPortMissing,
      PLLFails, MustConfigure, AfterPhase, PLLOnly, ExecuteOnly, Fault,
      Return, Mishap, CallerType, DriverInv, FlagType, ExecutePlaces,
      ReadbackPlaces, ClosePlaces
<1>6. CASE Operations
  BY <1>6, SMTT(30), ConstantAssumption
  DEF Operations, EnterWork, InvalidOperation, WeightHit, StartOperation,
      OperationsDone, StartWrite, OperationOnly, ExecuteOnly, Fault, Return,
      DriverInv, FlagType, ExecutePlaces, ReadbackPlaces, ClosePlaces
<1>7. CASE Write
  BY <1>7, SMTT(30), ConstantAssumption
  DEF Write, WriteChunk, WriteFails, WriteOnly, Lands, OperationLands,
      SelectionLands, RequestLands, Fault, Return, Mishap, DriverInv,
      FlagType, ExecutePlaces, ReadbackPlaces, ClosePlaces
<1>8. CASE Readback
  BY <1>8, SMTT(30), ConstantAssumption
  DEF Readback, StartBatch, Arm, TakeResponse, NoResponse, Seal,
      BatchesDone, Finish, ReadbackOnly, ExecuteOnly, FaultReadback,
      StartWrite, Fault, Return, Budget, DriverInv, FlagType, ExecutePlaces,
      ReadbackPlaces, ClosePlaces
<1>9. CASE Reader
  BY <1>9, SMTT(30), ConstantAssumption
  DEF Reader, ReaderStart, ReaderCheck, ReaderRead, ReaderReadNothing,
      ReaderReadError, ReaderAppend, ReaderDeliver, ReaderDelivered,
      ReaderOnly, Mishap, DriverInv, FlagType, ExecutePlaces,
      ReadbackPlaces, ClosePlaces
<1>10. CASE Environment
  BY <1>10, SMTT(30), ConstantAssumption
  DEF Environment, BoardSend, BoardSpoil, LinkDrop, TakeFlit, Mishap,
      DriverInv, FlagType, ExecutePlaces, ReadbackPlaces, ClosePlaces
<1>11. CASE UNCHANGED vars
  BY <1>11
  DEF DriverInv, FlagType, ExecutePlaces, ReadbackPlaces, ClosePlaces
<1> QED
  BY <1>1, <1>2, <1>3, <1>4, <1>5, <1>6, <1>7, <1>8, <1>9, <1>10, <1>11
  DEF Next, Caller

\* The agreement is the caller's side of the driver contract.
LEMMA DriverProtocolHolds ==
  ASSUME DriverInv
  PROVE  DriverProtocol
  BY DEF DriverInv, DriverProtocol, ExecutePlaces, ClosePlaces

\* While faulted, the board is left alone and only OpenDriver recovers.
LEMMA FaultStep ==
  ASSUME CallerType, DriverInv, [Next]_vars, faulted
  PROVE  /\ linkUp' /\ linkUp => UNCHANGED <<slots, pllRegister, selected, work>>
         /\ ~faulted' => pc = "openDriver" /\ driverOpen'
<1>1. CASE Call \/ Closing \/ Reader
  <2>1. UNCHANGED <<slots, pllRegister, selected, work, faulted>>
    <3>1. CASE Call
      BY <3>1
      DEF Call, Open, Close, ClearWeightResidency, ExecuteRefused, Execute,
          NewCall, BeginClose
    <3>2. CASE Closing
      BY <3>2
      DEF Closing, DriverCancel, Join, DrainRead, DrainEmpty, DrainError,
          DrainAppend, DrainDeliver, DrainDelivered, DriverClose, DrainOnly,
          Mishap
    <3>3. CASE Reader
      BY <3>3
      DEF Reader, ReaderStart, ReaderCheck, ReaderRead, ReaderReadNothing,
          ReaderReadError, ReaderAppend, ReaderDeliver, ReaderDelivered,
          ReaderOnly, Mishap
    <3> QED
      BY <1>1, <3>1, <3>2, <3>3
  <2> QED
    BY <2>1
<1>2. CASE Opening
  <2>1. UNCHANGED <<slots, pllRegister, selected, work>>
    BY <1>2
    DEF Opening, OpenFails, OpenDriver, SessionStarts, SessionFails,
        SessionTimeout, BeginClose
  <2>2. ~faulted' => pc = "openDriver" /\ driverOpen'
    BY <1>2
    DEF Opening, OpenFails, OpenDriver, SessionStarts, SessionFails,
        SessionTimeout, BeginClose
  <2> QED
    BY <2>1, <2>2
<1>3. CASE Begin \/ ConfigurePhase \/ Operations \/ Write \/ Readback
  <2>1. pc \in ExecutePlaces
    BY <1>3
    DEF Begin, ConfigurePhase, PhaseAborted, PhaseKept, PLLEchoed,
        PLLPortMissing, PLLFails, MustConfigure, Operations, EnterWork,
        InvalidOperation, WeightHit, StartOperation, OperationsDone, Write,
        WriteChunk, WriteFails, Readback, StartBatch, Arm, TakeResponse,
        NoResponse, Seal, BatchesDone, Finish, ExecutePlaces, ReadbackPlaces
  <2> QED
    BY <2>1 DEF DriverInv
<1>4. CASE Environment
  <2>1. CASE \E c \in Channels : BoardSend(c) \/ BoardSpoil(c)
    <3>1. UNCHANGED <<slots, pllRegister, selected, work, faulted>>
      BY <2>1 DEF BoardSend, BoardSpoil, TakeFlit
    <3> QED
      BY <3>1
  <2>2. CASE LinkDrop
    <3>1. ~linkUp' /\ UNCHANGED faulted
      BY <2>2 DEF LinkDrop
    <3> QED
      BY <3>1
  <2> QED
    BY <1>4, <2>1, <2>2 DEF Environment
<1>5. CASE UNCHANGED vars
  BY <1>5
<1> QED
  BY <1>1, <1>2, <1>3, <1>4, <1>5 DEF Next, Caller

-----------------------------------------------------------------------------
\* What the reader or the draining close is about to append is not empty.
ChunkInv ==
    reader = "append" \/ pc = "drainAppend" => chunk # <<>> \/ chunkHalf = TRUE

\* A driver call that returns data returns at least one byte.
LEMMA TakenNotEmpty ==
  ASSUME ReceiveType, TakeFromWire
  PROVE  chunk' # <<>> \/ chunkHalf' = TRUE
<1>1. PICK n \in 0..ReadRecords, half \in BOOLEAN :
         /\ n <= Len(wire)
         /\ n > 0 \/ half = TRUE
         /\ chunk' = SubSeq(wire, 1, n)
         /\ chunkHalf' = half
  BY DEF TakeFromWire
<1>2. CASE n > 0
  <2>1. Len(chunk') = n
    BY <1>1, <1>2, ConstantAssumption DEF ReceiveType
  <2> QED
    BY <1>2, <2>1
<1>3. CASE half = TRUE
  BY <1>1, <1>3
<1> QED
  BY <1>1, <1>2, <1>3

\* What waits to be appended is not empty.
LEMMA ChunkStep ==
  ASSUME ReceiveType, CallerType, DriverInv, ChunkInv, [Next]_vars
  PROVE  ChunkInv'
<1>1. CASE Call
  BY <1>1, SMTT(30), ConstantAssumption
  DEF Call, Open, Close, ClearWeightResidency, ExecuteRefused, Execute,
      NewCall, BeginClose, ChunkInv, ExecutePlaces, ReadbackPlaces,
      ClosePlaces
<1>2. CASE Closing
  <2>1. CASE DrainRead
    BY <2>1, TakenNotEmpty DEF DrainRead, ChunkInv
  <2>2. CASE DrainAppend \/ DrainDeliver
    BY <2>2 DEF DrainAppend, DrainDeliver, DrainOnly, DriverInv, ChunkInv
  <2>3. CASE DriverCancel \/ Join \/ DrainEmpty \/ DrainError \/ DrainDelivered
             \/ DriverClose
    BY <2>3
    DEF DriverCancel, Join, DrainEmpty, DrainError, DrainDelivered, DriverClose,
        DrainOnly, ChunkInv
  <2> QED
    BY <1>2, <2>1, <2>2, <2>3 DEF Closing
<1>3. CASE Opening
  BY <1>3, SMTT(30), ConstantAssumption
  DEF Opening, OpenFails, OpenDriver, SessionStarts, SessionFails,
      SessionTimeout, BeginClose, DriverInv, ChunkInv, ExecutePlaces,
      ReadbackPlaces, ClosePlaces
<1>4. CASE Begin
  BY <1>4, SMTT(30), ConstantAssumption
  DEF Begin, Fault, Return, ExecuteOnly, ChunkInv, ExecutePlaces,
      ReadbackPlaces, ClosePlaces
<1>5. CASE ConfigurePhase
  BY <1>5, SMTT(30), ConstantAssumption
  DEF ConfigurePhase, PhaseAborted, PhaseKept, PLLEchoed, PLLPortMissing,
      PLLFails, MustConfigure, AfterPhase, PLLOnly, ExecuteOnly, Fault,
      Return, Mishap, CallerType, ChunkInv, ExecutePlaces, ReadbackPlaces,
      ClosePlaces
<1>6. CASE Operations
  BY <1>6, SMTT(30), ConstantAssumption
  DEF Operations, EnterWork, InvalidOperation, WeightHit, StartOperation,
      OperationsDone, StartWrite, OperationOnly, ExecuteOnly, Fault, Return,
      ChunkInv, ExecutePlaces, ReadbackPlaces, ClosePlaces
<1>7. CASE Write
  BY <1>7, SMTT(30), ConstantAssumption
  DEF Write, WriteChunk, WriteFails, WriteOnly, Lands, OperationLands,
      SelectionLands, RequestLands, Fault, Return, Mishap, ChunkInv,
      ExecutePlaces, ReadbackPlaces, ClosePlaces
<1>8. CASE Readback
  BY <1>8, SMTT(30), ConstantAssumption
  DEF Readback, StartBatch, Arm, TakeResponse, NoResponse, Seal,
      BatchesDone, Finish, ReadbackOnly, ExecuteOnly, FaultReadback,
      StartWrite, Fault, Return, Budget, ChunkInv, ExecutePlaces,
      ReadbackPlaces, ClosePlaces
<1>9. CASE Reader
  <2>1. CASE ReaderRead
    BY <2>1, TakenNotEmpty DEF ReaderRead, ChunkInv
  <2>2. CASE ReaderAppend \/ ReaderDeliver
    <3>1. reader' # "append" /\ pc' # "drainAppend"
      BY <2>2
      DEF ReaderAppend, ReaderDeliver, ReaderOnly, DriverInv
    <3> QED
      BY <3>1 DEF ChunkInv
  <2>3. CASE ReaderStart \/ ReaderCheck \/ ReaderReadNothing
             \/ ReaderReadError \/ ReaderDelivered
    BY <2>3
    DEF ReaderStart, ReaderCheck, ReaderReadNothing, ReaderReadError,
        ReaderDelivered, ReaderOnly, ChunkInv
  <2> QED
    BY <1>9, <2>1, <2>2, <2>3 DEF Reader
<1>10. CASE Environment
  BY <1>10, SMTT(30), ConstantAssumption
  DEF Environment, BoardSend, BoardSpoil, LinkDrop, TakeFlit, Mishap,
      ChunkInv, ExecutePlaces, ReadbackPlaces, ClosePlaces
<1>11. CASE UNCHANGED vars
  BY <1>11
  DEF ChunkInv, ExecutePlaces, ReadbackPlaces, ClosePlaces
<1> QED
  BY <1>1, <1>2, <1>3, <1>4, <1>5, <1>6, <1>7, <1>8, <1>9, <1>10, <1>11
  DEF Next, Caller

\* A step that leaves the receive state alone keeps the evidence.
LEMMA EvidenceFrame ==
  ASSUME Evidence, pc # "drainAppend", pc # "drainDeliver",
         UNCHANGED <<receiveError, responses, partial, codecHalf, chunk, reader>>,
         (UNCHANGED faulted) \/ faulted'
  PROVE  Evidence'
<1>1. faulted => faulted'
  BY Zenon
<1> QED
  BY <1>1, Zenon DEF Evidence, IsFaulted, HasPendingResponse

\* An accepted chunk remains evidence in delivery or as a partial record.
LEMMA AcceptKeeps ==
  ASSUME Evidence, AcceptChunk, chunk # <<>> \/ chunkHalf = TRUE,
         UNCHANGED faulted,
         reader' = "deliver" \/ pc' = "drainDeliver"
  PROVE  Evidence'
<1>1. CASE chunk # <<>>
  BY <1>1 DEF AcceptChunk, Evidence
<1>2. CASE chunkHalf = TRUE
  <2>1. codecHalf' = TRUE
    BY <1>2 DEF AcceptChunk
  <2> QED
    BY <2>1 DEF Evidence, IsFaulted, HasPendingResponse
<1> QED
  BY <1>1, <1>2

\* A refused chunk leaves its error.
LEMMA RefuseKeeps ==
  ASSUME RefuseChunk
  PROVE  Evidence'
<1>1. receiveError' # None
  BY ConstantAssumption DEF RefuseChunk, Refusal
<1> QED
  BY <1>1 DEF Evidence, IsFaulted

\* A delivered record is in a partial packet or in the queue.
LEMMA DeliverKeeps ==
  ASSUME ReceiveType, DeliverRecord
  PROVE  Evidence'
<1> DEFINE c == Head(chunk).channel
           packet == Append(partial[c], Head(chunk).flit)
<1>1. Head(chunk) \in Record
  BY DEF ReceiveType, DeliverRecord
<1>2. c \in Channels /\ Head(chunk).flit \in Flit
  BY <1>1 DEF Record
<1>3. packet # <<>>
  <2>1. Len(packet) = Len(partial[c]) + 1 /\ Len(partial[c]) \in Nat
    BY <1>2 DEF ReceiveType
  <2> QED
    BY <2>1
<1>4. responses' # <<>> \/ partial'[c] # <<>>
  <2>1. CASE Len(packet) = PacketFlits
    <3>1. packet \in Seq(Flit)
      BY <1>2 DEF ReceiveType
    <3>2. responses' = Append(responses, packet)
      BY <2>1 DEF DeliverRecord
    <3>3. Len(responses') = Len(responses) + 1 /\ Len(responses) \in Nat
      BY <3>2 DEF ReceiveType
    <3> QED
      BY <3>3
  <2>2. CASE Len(packet) # PacketFlits
    <3>1. partial' = [partial EXCEPT ![c] = packet]
      BY <2>2 DEF DeliverRecord
    <3> QED
      BY <1>2, <1>3, <3>1 DEF ReceiveType
  <2> QED
    BY <2>1, <2>2
<1> QED
  BY <1>2, <1>4 DEF Evidence, IsFaulted, HasPendingResponse

\* No step outside a readback loses the evidence.
LEMMA EvidenceStep ==
  ASSUME ReceiveType, CallerType, DriverInv, ChunkInv, [Next]_vars,
         Evidence, pc \notin {"take", "openDriver"}
  PROVE  Evidence'
<1>1. CASE Call
  <2>1. UNCHANGED <<receiveError, responses, partial, codecHalf, chunk, reader>>
    BY <1>1, SMTT(30)
    DEF Call, Open, Close, ClearWeightResidency, ExecuteRefused, Execute,
        NewCall, BeginClose
  <2>2. pc # "drainAppend" /\ pc # "drainDeliver"
    BY <1>1
    DEF Call, Open, Close, ClearWeightResidency, ExecuteRefused, Execute,
        NewCall, BeginClose
  <2>3. (UNCHANGED faulted) \/ faulted'
    BY <1>1, SMTT(30)
    DEF Call, Open, Close, ClearWeightResidency, ExecuteRefused, Execute,
        NewCall, BeginClose
  <2> QED
    BY <2>1, <2>2, <2>3, EvidenceFrame
<1>2. CASE Closing
  <2>1. CASE DriverCancel
    <3>1. UNCHANGED <<receiveError, responses, partial, codecHalf, chunk, reader>>
      BY <2>1, SMTT(30) DEF DriverCancel
    <3>2. pc # "drainAppend" /\ pc # "drainDeliver"
      BY <2>1 DEF DriverCancel
    <3>3. (UNCHANGED faulted) \/ faulted'
      BY <2>1, SMTT(30) DEF DriverCancel
    <3> QED
      BY <3>1, <3>2, <3>3, EvidenceFrame
  <2>2. CASE Join
    BY <2>2, Zenon DEF Join, Evidence, IsFaulted, HasPendingResponse
  <2>3. CASE DrainRead
    BY <2>3 DEF DrainRead, Evidence
  <2>4. CASE DrainAppend
    <3>1. chunk # <<>> \/ chunkHalf = TRUE
      BY <2>4 DEF DrainAppend, ChunkInv
    <3>2. CASE AcceptChunk /\ pc' = "drainDeliver"
      <4>1. UNCHANGED faulted
        BY <2>4 DEF DrainAppend, DrainOnly
      <4> QED
        BY <3>1, <3>2, <4>1, AcceptKeeps
    <3> QED
      BY <2>4, <3>2, RefuseKeeps DEF DrainAppend
  <2>5. CASE DrainDeliver
    BY <2>5, DeliverKeeps DEF DrainDeliver
  <2>6. CASE DrainDelivered
    BY <2>6, Zenon
    DEF DrainDelivered, DrainOnly, DriverInv, Evidence, IsFaulted, HasPendingResponse
  <2>7. CASE DrainEmpty
    <3>1. UNCHANGED <<receiveError, responses, partial, codecHalf, chunk, reader>>
      BY <2>7, SMTT(30) DEF DrainEmpty, DrainOnly
    <3>2. pc # "drainAppend" /\ pc # "drainDeliver"
      BY <2>7 DEF DrainEmpty
    <3>3. (UNCHANGED faulted) \/ faulted'
      BY <2>7, SMTT(30) DEF DrainEmpty, DrainOnly
    <3> QED
      BY <3>1, <3>2, <3>3, EvidenceFrame
  <2>8. CASE DrainError
    <3>1. receiveError' # None
      BY <2>8, ConstantAssumption DEF DrainError
    <3> QED
      BY <3>1 DEF Evidence, IsFaulted
  <2>9. CASE DriverClose
    <3>1. UNCHANGED <<receiveError, responses, partial, codecHalf, chunk, reader>>
      BY <2>9, SMTT(30) DEF DriverClose
    <3>2. pc # "drainAppend" /\ pc # "drainDeliver"
      BY <2>9 DEF DriverClose
    <3>3. (UNCHANGED faulted) \/ faulted'
      BY <2>9, SMTT(30) DEF DriverClose
    <3> QED
      BY <3>1, <3>2, <3>3, EvidenceFrame
  <2> QED
    BY <1>2, <2>1, <2>2, <2>3, <2>4, <2>5, <2>6, <2>7, <2>8, <2>9 DEF Closing
<1>3. CASE Opening
  <2>1. CASE OpenFails \/ OpenDriver
    BY <2>1 DEF OpenFails, OpenDriver
  <2>2. CASE SessionStarts \/ SessionFails \/ SessionTimeout
    <3>1. UNCHANGED <<receiveError, responses, partial, codecHalf, chunk, reader>>
      BY <2>2, SMTT(30)
      DEF SessionStarts, SessionFails, SessionTimeout, BeginClose
    <3>2. pc # "drainAppend" /\ pc # "drainDeliver"
      BY <2>2 DEF SessionStarts, SessionFails, SessionTimeout, BeginClose
    <3>3. (UNCHANGED faulted) \/ faulted'
      BY <2>2, SMTT(30)
      DEF SessionStarts, SessionFails, SessionTimeout, BeginClose
    <3> QED
      BY <3>1, <3>2, <3>3, EvidenceFrame
  <2> QED
    BY <1>3, <2>1, <2>2 DEF Opening
<1>4. CASE Begin
  <2>1. UNCHANGED <<receiveError, responses, partial, codecHalf, chunk, reader>>
    BY <1>4, SMTT(30) DEF Begin, Fault, Return, ExecuteOnly
  <2>2. pc # "drainAppend" /\ pc # "drainDeliver"
    BY <1>4 DEF Begin
  <2>3. (UNCHANGED faulted) \/ faulted'
    BY <1>4, SMTT(30) DEF Begin, Fault, Return, ExecuteOnly
  <2> QED
    BY <2>1, <2>2, <2>3, EvidenceFrame
<1>5. CASE ConfigurePhase
  <2>1. UNCHANGED <<receiveError, responses, partial, codecHalf, chunk, reader>>
    BY <1>5, SMTT(30)
    DEF ConfigurePhase, PhaseAborted, PhaseKept, PLLEchoed, PLLPortMissing,
        PLLFails, MustConfigure, AfterPhase, PLLOnly, ExecuteOnly, Fault,
        Return, Mishap
  <2>2. pc # "drainAppend" /\ pc # "drainDeliver"
    BY <1>5
    DEF ConfigurePhase, PhaseAborted, PhaseKept, PLLEchoed, PLLPortMissing,
        PLLFails, MustConfigure
  <2>3. (UNCHANGED faulted) \/ faulted'
    BY <1>5, SMTT(30)
    DEF ConfigurePhase, PhaseAborted, PhaseKept, PLLEchoed, PLLPortMissing,
        PLLFails, MustConfigure, AfterPhase, PLLOnly, ExecuteOnly, Fault,
        Return, Mishap
  <2> QED
    BY <2>1, <2>2, <2>3, EvidenceFrame
<1>6. CASE Operations
  <2>1. UNCHANGED <<receiveError, responses, partial, codecHalf, chunk, reader>>
    BY <1>6, SMTT(30)
    DEF Operations, EnterWork, InvalidOperation, WeightHit, StartOperation,
        OperationsDone, StartWrite, OperationOnly, ExecuteOnly, Fault,
        Return
  <2>2. pc # "drainAppend" /\ pc # "drainDeliver"
    BY <1>6
    DEF Operations, EnterWork, InvalidOperation, WeightHit, StartOperation,
        OperationsDone
  <2>3. (UNCHANGED faulted) \/ faulted'
    BY <1>6, SMTT(30)
    DEF Operations, EnterWork, InvalidOperation, WeightHit, StartOperation,
        OperationsDone, StartWrite, OperationOnly, ExecuteOnly, Fault,
        Return
  <2> QED
    BY <2>1, <2>2, <2>3, EvidenceFrame
<1>7. CASE Write
  <2>1. UNCHANGED <<receiveError, responses, partial, codecHalf, chunk, reader>>
    BY <1>7, SMTT(30)
    DEF Write, WriteChunk, WriteFails, WriteOnly, Lands, OperationLands,
        SelectionLands, RequestLands, Fault, Return, Mishap
  <2>2. pc # "drainAppend" /\ pc # "drainDeliver"
    BY <1>7 DEF Write, WriteChunk, WriteFails
  <2>3. (UNCHANGED faulted) \/ faulted'
    BY <1>7, SMTT(30)
    DEF Write, WriteChunk, WriteFails, WriteOnly, Lands, OperationLands,
        SelectionLands, RequestLands, Fault, Return, Mishap
  <2> QED
    BY <2>1, <2>2, <2>3, EvidenceFrame
<1>8. CASE Readback
  <2>1. CASE TakeResponse \/ NoResponse
    BY <2>1 DEF TakeResponse, NoResponse
  <2>2. CASE StartBatch \/ Arm \/ Seal \/ BatchesDone \/ Finish
    <3>1. UNCHANGED <<receiveError, responses, partial, codecHalf, chunk, reader>>
      BY <2>2, SMTT(30)
      DEF StartBatch, Arm, Seal, BatchesDone, Finish, ReadbackOnly,
          ExecuteOnly, FaultReadback, StartWrite, Fault, Return, Budget
    <3>2. pc # "drainAppend" /\ pc # "drainDeliver"
      BY <2>2 DEF StartBatch, Arm, Seal, BatchesDone, Finish
    <3>3. (UNCHANGED faulted) \/ faulted'
      BY <2>2, SMTT(30)
      DEF StartBatch, Arm, Seal, BatchesDone, Finish, ReadbackOnly,
          ExecuteOnly, FaultReadback, StartWrite, Fault, Return, Budget
    <3> QED
      BY <3>1, <3>2, <3>3, EvidenceFrame
  <2> QED
    BY <1>8, <2>1, <2>2 DEF Readback
<1>9. CASE Reader
  <2>1. CASE ReaderRead
    BY <2>1 DEF ReaderRead, Evidence
  <2>2. CASE ReaderAppend
    <3>1. chunk # <<>> \/ chunkHalf = TRUE
      BY <2>2 DEF ReaderAppend, ChunkInv
    <3>2. CASE AcceptChunk /\ reader' = "deliver"
      <4>1. UNCHANGED faulted
        BY <2>2 DEF ReaderAppend, ReaderOnly
      <4> QED
        BY <3>1, <3>2, <4>1, AcceptKeeps
    <3> QED
      BY <2>2, <3>2, RefuseKeeps DEF ReaderAppend
  <2>3. CASE ReaderDeliver
    BY <2>3, DeliverKeeps DEF ReaderDeliver
  <2>4. CASE ReaderReadError
    <3>1. receiveError' # None
      BY <2>4, ConstantAssumption DEF ReaderReadError
    <3> QED
      BY <3>1 DEF Evidence, IsFaulted
  <2>5. CASE ReaderStart \/ ReaderCheck \/ ReaderReadNothing \/ ReaderDelivered
    <3>1. UNCHANGED <<pc, faulted, receiveError, responses, partial, codecHalf, chunk>>
      BY <2>5
      DEF ReaderStart, ReaderCheck, ReaderReadNothing, ReaderDelivered, ReaderOnly
    <3>2. reader # "append" /\ (reader = "deliver" => chunk = <<>>)
      BY <2>5 DEF ReaderStart, ReaderCheck, ReaderReadNothing, ReaderDelivered
    <3> QED
      BY <3>1, <3>2, Zenon DEF Evidence, IsFaulted, HasPendingResponse
  <2> QED
    BY <1>9, <2>1, <2>2, <2>3, <2>4, <2>5 DEF Reader
<1>10. CASE Environment
  <2>1. UNCHANGED <<pc, faulted, receiveError, responses, partial, codecHalf,
                    chunk, reader>>
    BY <1>10, SMTT(30)
    DEF Environment, BoardSend, BoardSpoil, LinkDrop, TakeFlit, Mishap
  <2> QED
    BY <2>1, Zenon DEF Evidence, IsFaulted, HasPendingResponse
<1>11. CASE UNCHANGED vars
  BY <1>11, Zenon DEF Evidence, IsFaulted, HasPendingResponse
<1> QED
  BY <1>1, <1>2, <1>3, <1>4, <1>5, <1>6, <1>7, <1>8, <1>9, <1>10, <1>11
  DEF Next, Caller

-----------------------------------------------------------------------------
\* The inductive invariant and the theorems.

(***************************************************************************)
(* The invariants and what they need to be inductive: the locals of        *)
(* execute fit its place, a session that closes or runs a raw program has  *)
(* forgotten its caches, the driver's state follows the session, and the   *)
(* reader appends no empty chunk.                                          *)
(***************************************************************************)
IInv ==
    /\ TypeOK /\ ControlOK
    /\ ForgetInv /\ PLLPhysical /\ ResidencyPhysical
    /\ DriverInv /\ ChunkInv

\* The initial state has the types.
LEMMA TypeInit ==
  ASSUME Init
  PROVE  TypeOK /\ ControlOK
<1>1. FlagType
  BY Zenon DEF Init, FlagType
<1>2. SessionType
  BY SMT DEF Init, SessionType, NoWeights
<1>3. ReceiveType
  BY SMT, ConstantAssumption DEF Init, ReceiveType, ReaderPlaces, ReceiveErrors
<1>4. CallerType
  BY SMT, ConstantAssumption DEF Init, CallerType
<1>5. BoardType
  <2>1. work \in Computation
    BY ConstantAssumption DEF Init, NoComputation, NoWeights, Computation, Weights
  <2> QED
    BY <2>1 DEF Init, BoardType
<1>6. ControlOK
  BY DEF Init, ControlOK, InOperation, InBatch, ExecutePlaces, ReadbackPlaces
<1> QED
  BY <1>1, <1>2, <1>3, <1>4, <1>5, <1>6 DEF TypeOK

\* The inductive invariant holds initially.
LEMMA InvInit ==
  ASSUME Init
  PROVE  IInv
<1>1. pc = "idle" /\ resident = NoWeights /\ verifiedPLL = None /\ reader = "none"
  BY DEF Init
<1>2. ForgetInv /\ PLLPhysical
  BY <1>1
  DEF ForgetInv, Forgotten, RawForgets, InOperation, PLLPhysical, ExecutePlaces,
      ReadbackPlaces, ClosePlaces
<1>3. ResidencyPhysical
  BY <1>1
  DEF ResidencyPhysical, Believed, NoWeights, ExecutePlaces, ReadbackPlaces
<1>4. ~opened
  BY DEF Init
<1>5. DriverInv
  BY <1>1, <1>4 DEF DriverInv, ExecutePlaces, ReadbackPlaces, ClosePlaces
<1>6. ChunkInv
  BY <1>1 DEF ChunkInv
<1> QED
  BY <1>2, <1>3, <1>5, <1>6, TypeInit DEF IInv

\* The inductive invariant is kept by every step.
LEMMA InvStep ==
  ASSUME IInv, [Next]_vars
  PROVE  IInv'
<1>1. /\ FlagType /\ SessionType /\ ReceiveType /\ CallerType /\ BoardType
      /\ ControlOK /\ ForgetInv /\ PLLPhysical /\ ResidencyPhysical
      /\ DriverInv /\ ChunkInv
  BY DEF IInv, TypeOK
<1>2. TypeOK'
  BY <1>1, FlagStep, SessionStep, ReceiveStep, CallerStep, BoardStep DEF TypeOK
<1>3. ControlOK'
  BY <1>1, ControlStep
<1>4. ForgetInv' /\ PLLPhysical' /\ ResidencyPhysical'
  BY <1>1, ForgetStep, ClockStep, ResidencyStep
<1>5. DriverInv' /\ ChunkInv'
  BY <1>1, DriverStep, ChunkStep
<1> QED
  BY <1>2, <1>3, <1>4, <1>5 DEF IInv

\* The inductive invariant holds in every behaviour.
LEMMA Inductive == Spec => []IInv
<1>1. Init => IInv
  BY InvInit
<1>2. IInv /\ [Next]_vars => IInv'
  BY InvStep
<1> QED
  BY <1>1, <1>2, PTL DEF Spec

(***************************************************************************)
(* Every variable of UsbCIMDevice keeps its type, for every set of slots,  *)
(* programs, channels and packet size.                                     *)
(***************************************************************************)
THEOREM TypeCorrect == Spec => []TypeOK
<1>1. IInv => TypeOK
  BY DEF IInv
<1> QED
  BY <1>1, Inductive, PTL

(***************************************************************************)
(* The residency table of UsbCIMDevice never claims a weight the chip does *)
(* not hold, for every program callers may run and however writes fail.    *)
(***************************************************************************)
THEOREM ResidencyCorrect == Spec => []ResidencyPhysical
<1>1. IInv => ResidencyPhysical
  BY DEF IInv
<1> QED
  BY <1>1, Inductive, PTL

(***************************************************************************)
(* verifiedPLLWord_ is the word of the PLL register while it has a value.  *)
(***************************************************************************)
THEOREM ClockCorrect == Spec => []PLLPhysical
<1>1. IInv => PLLPhysical
  BY DEF IInv
<1> QED
  BY <1>1, Inductive, PTL

(***************************************************************************)
(* UsbCIMDevice keeps the contract of UsbDriver.h: close drains a          *)
(* cancelled driver the receive thread has left, and nothing is written    *)
(* after a cancel.                                                         *)
(***************************************************************************)
THEOREM DriverContract == Spec => []DriverProtocol
<1>1. IInv => DriverProtocol
  BY DriverProtocolHolds DEF IInv
<1> QED
  BY <1>1, Inductive, PTL

(***************************************************************************)
(* A faulted session reaches the board no more until open starts another.  *)
(***************************************************************************)
THEOREM FaultBlocks == Spec => FaultSticks
<1>1. IInv /\ [Next]_vars =>
        [faulted =>
          /\ linkUp' /\ linkUp => UNCHANGED <<slots, pllRegister, selected, work>>
          /\ ~faulted' => pc = "openDriver" /\ driverOpen']_vars
  <2> SUFFICES ASSUME IInv, [Next]_vars, faulted
               PROVE  /\ linkUp' /\ linkUp =>
                            UNCHANGED <<slots, pllRegister, selected, work>>
                      /\ ~faulted' => pc = "openDriver" /\ driverOpen'
    OBVIOUS
  <2>1. CallerType /\ DriverInv
    BY DEF IInv, TypeOK
  <2> QED
    BY <2>1, FaultStep
<1> QED
  BY <1>1, Inductive, PTL DEF Spec, FaultSticks

(***************************************************************************)
(* Bytes the driver handed to the receive thread or to close keep the      *)
(* session suspect until a readback takes them or open starts another.     *)
(***************************************************************************)
THEOREM EvidenceStays == Spec => EvidenceKept
<1>1. IInv /\ [Next]_vars =>
        [Evidence /\ pc \notin {"take", "openDriver"} => Evidence']_vars
  <2> SUFFICES ASSUME IInv, [Next]_vars,
                      Evidence, pc \notin {"take", "openDriver"}
               PROVE  Evidence'
    OBVIOUS
  <2>1. ReceiveType /\ CallerType /\ DriverInv /\ ChunkInv
    BY DEF IInv, TypeOK
  <2> QED
    BY <2>1, EvidenceStep
<1> QED
  BY <1>1, Inductive, PTL DEF Spec, EvidenceKept
=============================================================================
