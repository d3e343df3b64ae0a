-------------------------- MODULE UsbExecuteProofs --------------------------
(***************************************************************************)
(* Proofs about the execution of a program in UsbDevice, for every value   *)
(* of its constants: which clock and which weights a Work operation runs   *)
(* with, and the record budget of a readback batch.                        *)
(***************************************************************************)
EXTENDS UsbDeviceProofs, FiniteSetTheorems

USE DEF Phases, vars, sessionVars, receiveVars, readerVars, callerVars,
        localVars, driverVars, boardVars, ghostVars

-----------------------------------------------------------------------------
\* The clock of each phase.

InOps == pc = "operation" \/ InOperation
InReadback == pc = "batch" \/ InBatch

(***************************************************************************)
(* A phase whose clock pllVerified reports is the current one or an        *)
(* earlier one, and the word of the current one is the verified word.      *)
(***************************************************************************)
PhaseInv ==
    /\ pc = "begin" =>
          /\ opIndex = 1 /\ workPhase = FALSE
          /\ \A p \in Phases : pllVerified[p] = FALSE
    /\ pc \in ExecutePlaces \ {"begin"} =>
          /\ phase = "Configuration" =>
                /\ workPhase = FALSE
                /\ pllVerified["Work"] = FALSE /\ pllVerified["Readback"] = FALSE
          /\ phase = "Work" => workPhase = TRUE /\ pllVerified["Readback"] = FALSE
    /\ pc = "pll" => pllVerified[phase] = FALSE
    /\ InOps => phase # "Readback"
    /\ InReadback => phase = "Readback"
    /\ (InOps \/ InReadback) /\ pllVerified[phase] = TRUE =>
          verifiedPLL = PLLWord[phase]
    /\ (pc = "pll" /\ phase = "Readback") \/ InReadback \/ pc = "finish" =>
          opIndex > Len(program.operations)

\* The phases follow each other, each with its clock.
LEMMA PhaseStep ==
  ASSUME FlagType, CallerType, PhaseInv, [Next]_vars
  PROVE  PhaseInv'
<1> USE DEF PhaseInv, InOps, InReadback, InOperation, InBatch, ExecutePlaces,
            ReadbackPlaces, ClosePlaces
<1>1. CASE Call
  BY <1>1, SMTT(30), ConstantAssumption
  DEF Call, Open, Close, ClearWeightResidency, ExecuteRefused, Execute,
      NewCall, BeginClose
<1>2. CASE Closing
  BY <1>2, SMTT(30), ConstantAssumption
  DEF Closing, DriverCancel, Join, DrainRead, DrainEmpty, DrainError,
      DrainAppend, DrainDeliver, DrainDelivered, DriverClose, DrainOnly,
      Mishap
<1>3. CASE Opening
  BY <1>3, SMTT(30), ConstantAssumption
  DEF Opening, OpenFails, OpenDriver, SessionStarts, SessionFails,
      SessionTimeout, BeginClose
<1>4. CASE Begin
  BY <1>4, SMTT(30), ConstantAssumption
  DEF Begin, Fault, Return, ExecuteOnly
<1>5. CASE ConfigurePhase
  <2>1. CASE PhaseAborted \/ PLLFails
    BY <2>1 DEF PhaseAborted, PLLFails, Fault, Return
  <2>2. CASE PhaseKept
    <3>1. /\ pc = "pll" /\ pc' = AfterPhase
          /\ pllVerified' = [pllVerified EXCEPT ![phase] = PLLConfigured]
          /\ PLLConfigured = TRUE => verifiedPLL = PLLWord[phase]
          /\ UNCHANGED <<opIndex, workPhase, phase, program, verifiedPLL, job>>
      BY <2>2 DEF PhaseKept, PLLOnly, ExecuteOnly
    <3>2. pllVerified \in [Phases -> BOOLEAN] /\ phase \in Phases
      BY DEF FlagType, CallerType
    <3> QED
      BY <3>1, <3>2, SMTT(30), ConstantAssumption DEF AfterPhase, CallerType
  <2>3. CASE PLLEchoed
    <3>1. /\ pc = "pll" /\ pc' = AfterPhase
          /\ pllVerified' = [pllVerified EXCEPT ![phase] = TRUE]
          /\ verifiedPLL' = PLLWord[phase]
          /\ UNCHANGED <<opIndex, workPhase, phase, program, job>>
      BY <2>3 DEF PLLEchoed, MustConfigure, PLLOnly, ExecuteOnly
    <3>2. pllVerified \in [Phases -> BOOLEAN] /\ phase \in Phases
      BY DEF FlagType, CallerType
    <3> QED
      BY <3>1, <3>2, SMTT(30), ConstantAssumption DEF AfterPhase, CallerType
  <2>4. CASE PLLPortMissing
    BY <2>4, SMTT(30)
    DEF PLLPortMissing, MustConfigure, PLLOnly, ExecuteOnly, AfterPhase, CallerType
  <2> QED
    BY <1>5, <2>1, <2>2, <2>3, <2>4 DEF ConfigurePhase
<1>6. CASE Operations
  BY <1>6, SMTT(30), ConstantAssumption
  DEF Operations, EnterWork, InvalidOperation, WeightHit, StartOperation,
      OperationsDone, OperationsLeft, EntersWork, StartWrite, OperationOnly,
      ExecuteOnly, Fault, Return, FlagType, CallerType
<1>7. CASE Write
  BY <1>7, SMTT(30), ConstantAssumption
  DEF Write, WriteChunk, WriteFails, WriteOnly, Fault, Return, CallerType
<1>8. CASE Readback
  BY <1>8, SMTT(30), ConstantAssumption
  DEF Readback, StartBatch, Arm, TakeResponse, NoResponse, Seal,
      BatchesDone, Finish, ReadbackOnly, ExecuteOnly, FaultReadback,
      StartWrite, Fault, Return
<1>9. CASE Reader
  BY <1>9, SMTT(30), ConstantAssumption
  DEF Reader, ReaderStart, ReaderCheck, ReaderRead, ReaderReadNothing,
      ReaderReadError, ReaderAppend, ReaderDeliver, ReaderDelivered,
      ReaderOnly
<1>10. CASE Environment
  BY <1>10, SMTT(30), ConstantAssumption
  DEF Environment, BoardSend, BoardSpoil, LinkDrop
<1>11. CASE UNCHANGED vars
  BY <1>11
<1> QED
  BY <1>1, <1>2, <1>3, <1>4, <1>5, <1>6, <1>7, <1>8, <1>9, <1>10, <1>11
  DEF Next, Caller

-----------------------------------------------------------------------------
\* The weights a Work operation computes from.

\* A Work operation was written.
WorkDone ==
    \E k \in DOMAIN program.operations :
        k < opIndex /\ program.operations[k].phase = "Work"

\* The last operation so far that configures slot s.
LastSoFar(i, s) ==
    /\ i < opIndex /\ Configures(i, s)
    /\ \A k \in DOMAIN program.operations : k < opIndex /\ Configures(k, s) => k <= i

Configured(weights) ==
    \A s \in Slots, i \in DOMAIN program.operations :
        LastSoFar(i, s) => weights[s] = program.operations[i].image

(***************************************************************************)
(* The slots hold what the operations so far configured, by a write or by  *)
(* a hit, except for the slot being written; and once a Work operation was *)
(* written, the board has computed in this call, with the clock of Work    *)
(* and from those slots.                                                   *)
(***************************************************************************)
OperationInv ==
    /\ InOperation =>
          /\ CurrentOp.phase = "Work" => workPhase = TRUE
          /\ CurrentOp.phase = "Configuration" => workPhase = FALSE
          /\ CurrentOp.phase # "Readback"
    /\ WorkDone => workPhase = TRUE
    /\ pc = "pll" /\ phase = "Work" => ~WorkDone
    /\ workPhase = TRUE =>
          \/ WorkDone
          \/ OperationsLeft /\ CurrentOp.phase = "Work"

SlotsInv ==
    linkUp = TRUE =>
        \A s \in Slots, i \in DOMAIN program.operations :
            LastSoFar(i, s) /\ ~BeingWritten(s) => slots[s] = program.operations[i].image

WorkRight ==
    linkUp = TRUE /\ WorkDone =>
        /\ work.call = calls
        /\ pllVerified["Work"] = TRUE => work.pll = PLLWord["Work"]
        /\ Configured(work.weights)

WorkInv == pc \in ExecutePlaces => OperationInv /\ SlotsInv /\ WorkRight

\* A step that leaves the operations and the board alone keeps the invariant.
LEMMA WorkFrame ==
  ASSUME WorkInv, pc \in ExecutePlaces,
         UNCHANGED <<program, opIndex, workPhase, calls, work, slots, linkUp>>,
         ~InOperation /\ ~InOperation',
         pc' = "pll" => phase' # "Work",
         pllVerified'["Work"] = pllVerified["Work"] \/ ~WorkDone
  PROVE  WorkInv'
<1> USE DEF WorkInv, OperationInv, SlotsInv, WorkRight, WorkDone, Configured,
            LastSoFar, Configures, BeingWritten, InOperation, OperationsLeft,
            CurrentOp
<1>1. OperationInv'
  BY Zenon
<1>2. SlotsInv'
  BY Zenon
<1>3. WorkRight'
  BY Zenon
<1> QED
  BY <1>1, <1>2, <1>3

\* What the index of the operations stands at, if one is left.
LEMMA OperationAt ==
  ASSUME CallerType, ControlOK, pc \in ExecutePlaces
  PROVE  /\ program \in Program
         /\ DOMAIN program.operations = 1..Len(program.operations)
         /\ Len(program.operations) \in Nat /\ opIndex \in Nat \ {0}
         /\ OperationsLeft <=> opIndex \in DOMAIN program.operations
         /\ OperationsLeft =>
               /\ CurrentOp \in Operation
               /\ CurrentOp.phase # "Configuration" => CurrentOp.slot = None
               /\ CurrentOp.deferred => CurrentOp.slot \in Slots
<1>1. program \in Programs
  BY DEF ControlOK
<1>2. program \in Program
  BY <1>1, ProgramsAssumption DEF ProgramAssumption
<1>3. program.operations \in Seq(Operation)
  BY <1>2 DEF Program
<1>4. /\ DOMAIN program.operations = 1..Len(program.operations)
      /\ Len(program.operations) \in Nat /\ opIndex \in Nat \ {0}
  BY <1>3 DEF CallerType
<1>5. OperationsLeft <=> opIndex \in DOMAIN program.operations
  BY <1>4 DEF OperationsLeft
<1> QED
  BY <1>1, <1>2, <1>3, <1>4, <1>5, ProgramsAssumption
  DEF ProgramAssumption, CurrentOp

(***************************************************************************)
(* The index moves past an operation that is done: the slots hold what it  *)
(* configures, and a Work operation computed from them.                    *)
(***************************************************************************)
LEMMA OperationPassed ==
  ASSUME CallerType, ControlOK, WorkInv, pc \in ExecutePlaces, OperationsLeft,
         UNCHANGED <<program, workPhase, calls, linkUp, pllVerified>>,
         opIndex' = opIndex + 1, pc' = "operation",
         CurrentOp.phase \in {"Configuration", "Work"},
         CurrentOp.phase = "Configuration" => workPhase = FALSE /\ UNCHANGED work,
         CurrentOp.phase = "Work" => workPhase = TRUE,
         linkUp = TRUE =>
            /\ \A s \in Slots :
                  IF CurrentOp.slot = s /\ CurrentOp.phase = "Configuration"
                  THEN slots'[s] = CurrentOp.image
                  ELSE slots'[s] = slots[s] /\ ~BeingWritten(s)
            /\ CurrentOp.phase = "Work" =>
                  /\ work' = [call |-> calls, weights |-> slots, pll |-> pllRegister]
                  /\ pllVerified["Work"] = TRUE => pllRegister = PLLWord["Work"]
  PROVE  WorkInv'
<1>1. /\ DOMAIN program.operations = 1..Len(program.operations)
      /\ Len(program.operations) \in Nat /\ opIndex \in Nat \ {0}
      /\ opIndex \in DOMAIN program.operations
  BY OperationAt
<1>2. OperationInv /\ SlotsInv /\ WorkRight
  BY DEF WorkInv
<1>3. WorkDone' <=> WorkDone \/ CurrentOp.phase = "Work"
  BY <1>1 DEF WorkDone, CurrentOp
<1>4. OperationInv'
  <2>1. ~InOperation'
    BY DEF InOperation
  <2>2. WorkDone' => workPhase' = TRUE
    BY <1>2, <1>3 DEF OperationInv
  <2>3. workPhase' = TRUE => WorkDone'
    BY <1>2, <1>3 DEF OperationInv
  <2> QED
    BY <2>1, <2>2, <2>3, Zenon DEF OperationInv
<1>5. ASSUME NEW s \in Slots, NEW i \in DOMAIN program.operations, LastSoFar(i, s)'
      PROVE  IF CurrentOp.slot = s /\ CurrentOp.phase = "Configuration"
             THEN i = opIndex
             ELSE LastSoFar(i, s)
  <2>1. /\ i < opIndex + 1 /\ Configures(i, s)
        /\ \A k \in DOMAIN program.operations :
              k < opIndex + 1 /\ Configures(k, s) => k <= i
    BY <1>5 DEF LastSoFar, Configures
  <2>2. Configures(opIndex, s) <=> CurrentOp.slot = s /\ CurrentOp.phase = "Configuration"
    BY DEF Configures, CurrentOp
  <2>3. i \in Nat /\ opIndex \in Nat /\ opIndex < opIndex + 1
    BY <1>1
  <2>4. CASE Configures(opIndex, s)
    <3>1. opIndex <= i
      BY <1>1, <2>1, <2>3, <2>4
    <3> QED
      BY <2>1, <2>2, <2>3, <2>4, <3>1
  <2>5. CASE ~Configures(opIndex, s)
    <3>1. i # opIndex
      BY <2>1, <2>5
    <3>2. i < opIndex
      BY <2>1, <2>3, <3>1
    <3>3. \A k \in DOMAIN program.operations : k < opIndex => k < opIndex + 1
      BY <1>1
    <3>4. LastSoFar(i, s)
      BY <2>1, <3>2, <3>3 DEF LastSoFar
    <3> QED
      BY <2>2, <2>5, <3>4
  <2> QED
    BY <2>4, <2>5
<1>6. SlotsInv'
  <2> SUFFICES ASSUME linkUp' = TRUE, NEW s \in Slots,
                      NEW i \in DOMAIN program'.operations, LastSoFar(i, s)'
               PROVE  slots'[s] = program'.operations[i].image
    BY DEF SlotsInv
  <2>1. CASE CurrentOp.slot = s /\ CurrentOp.phase = "Configuration"
    <3>1. i = opIndex
      BY <1>5, <2>1
    <3> QED
      BY <2>1, <3>1 DEF CurrentOp
  <2>2. CASE ~(CurrentOp.slot = s /\ CurrentOp.phase = "Configuration")
    <3>1. LastSoFar(i, s) /\ ~BeingWritten(s)
      BY <1>5, <2>2
    <3> QED
      BY <1>2, <2>2, <3>1 DEF SlotsInv
  <2> QED
    BY <2>1, <2>2
<1>7. WorkRight'
  <2>1. CASE CurrentOp.phase = "Configuration"
    <3>1. ~WorkDone'
      BY <1>2, <1>3, <2>1 DEF OperationInv
    <3> QED
      BY <3>1 DEF WorkRight
  <2>2. CASE CurrentOp.phase = "Work"
    <3> SUFFICES ASSUME linkUp' = TRUE
                 PROVE  /\ work'.call = calls'
                        /\ pllVerified'["Work"] = TRUE => work'.pll = PLLWord["Work"]
                        /\ Configured(work.weights)'
      BY DEF WorkRight
    <3>1. work' = [call |-> calls, weights |-> slots, pll |-> pllRegister]
      BY <2>2
    <3>2. ASSUME NEW s \in Slots, NEW i \in DOMAIN program'.operations, LastSoFar(i, s)'
          PROVE  slots[s] = program'.operations[i].image
      <4>1. LastSoFar(i, s) /\ ~BeingWritten(s)
        BY <1>5, <2>2, <3>2
      <4> QED
        BY <1>2, <4>1 DEF SlotsInv
    <3>3. Configured(work.weights)'
      BY <3>1, <3>2 DEF Configured
    <3> QED
      BY <2>2, <3>1, <3>3
  <2> QED
    BY <2>1, <2>2
<1> QED
  BY <1>4, <1>6, <1>7 DEF WorkInv

\* Neither the receive thread nor the environment changes what the operations
\* did, unless the link drops.
LEMMA OtherStep ==
  ASSUME WorkInv, pc \in ExecutePlaces,
         UNCHANGED <<pc, job, phase, program, opIndex, workPhase, calls, pllVerified>>,
         linkUp' = FALSE \/ UNCHANGED <<work, slots, linkUp>>
  PROVE  WorkInv'
<1>1. OperationInv'
  BY Zenon DEF WorkInv, OperationInv, WorkDone, InOperation, OperationsLeft, CurrentOp
<1>2. CASE linkUp' = FALSE
  BY <1>1, <1>2 DEF WorkInv, SlotsInv, WorkRight
<1>3. CASE UNCHANGED <<work, slots, linkUp>>
  <2>1. SlotsInv'
    BY <1>3, Zenon DEF WorkInv, SlotsInv, LastSoFar, Configures, BeingWritten, CurrentOp
  <2>2. WorkRight'
    BY <1>3, Zenon DEF WorkInv, WorkRight, WorkDone, Configured, LastSoFar, Configures
  <2> QED
    BY <1>1, <2>1, <2>2 DEF WorkInv
<1> QED
  BY <1>2, <1>3

\* What a transaction would skip as a hit is in the slot.
LEMMA HitHolds ==
  ASSUME ResidencyPhysical, pc = "operation", Hit, CurrentOp.slot \in Slots,
         CurrentOp.image # None, linkUp = TRUE
  PROVE  slots[CurrentOp.slot] = CurrentOp.image
<1>1. Believed(CurrentOp.slot) = CurrentOp.image
  BY DEF Hit, Believed, ExecutePlaces, ReadbackPlaces
<1>2. ~BeingWritten(CurrentOp.slot)
  BY DEF BeingWritten
<1> QED
  BY <1>1, <1>2 DEF ResidencyPhysical

\* The operations of a call do what they say, in the order of its program.
LEMMA WorkStep ==
  ASSUME IInv, PhaseInv, WorkInv, [Next]_vars
  PROVE  WorkInv'
<1> SUFFICES ASSUME pc' \in ExecutePlaces
             PROVE  WorkInv'
  BY DEF WorkInv
<1>0. /\ FlagType /\ CallerType /\ BoardType /\ ControlOK /\ ResidencyPhysical
      /\ PLLPhysical
  BY DEF IInv, TypeOK
<1> USE DEF ExecutePlaces, ReadbackPlaces
<1>1. CASE Call
  <2>1. PICK p \in Programs : Execute(p)
    BY <1>1 DEF Call, Open, Close, ClearWeightResidency, ExecuteRefused, NewCall, BeginClose
  <2>2. p.operations \in Seq(Operation)
    BY ProgramsAssumption DEF ProgramAssumption, Program
  <2>3. program' = p /\ opIndex' = 1 /\ pc' = "begin" /\ workPhase' = FALSE
    BY <2>1 DEF Execute
  <2>4. \A k \in DOMAIN program'.operations : ~(k < opIndex')
    BY <2>2, <2>3
  <2>5. ~WorkDone' /\ \A i \in DOMAIN program'.operations, s \in Slots : ~LastSoFar(i, s)'
    BY <2>4, Zenon DEF WorkDone, LastSoFar
  <2> QED
    BY <2>3, <2>5, Zenon DEF WorkInv, OperationInv, SlotsInv, WorkRight, InOperation
<1>2. CASE Closing
  BY <1>2, SMTT(30)
  DEF Closing, DriverCancel, Join, DrainRead, DrainEmpty, DrainError,
      DrainAppend, DrainDeliver, DrainDelivered, DriverClose, DrainOnly,
      Mishap
<1>3. CASE Opening
  BY <1>3
  DEF Opening, OpenFails, OpenDriver, SessionStarts, SessionFails,
      SessionTimeout, BeginClose
<1>4. CASE Begin
  <2>1. /\ pc = "begin" /\ pc' = "pll" /\ phase' = "Configuration"
        /\ UNCHANGED <<program, opIndex, workPhase, calls, work, slots, linkUp, pllVerified>>
    BY <1>4 DEF Begin, Fault, Return, ExecuteOnly
  <2> QED
    BY <2>1, WorkFrame DEF InOperation
<1>5. CASE ConfigurePhase
  <2>1. /\ pc = "pll" /\ pc' \in {"operation", "batch"} /\ phase \in Phases
        /\ UNCHANGED <<phase, program, opIndex, workPhase, calls, work, slots, linkUp>>
        /\ \A p \in Phases : p # phase => pllVerified'[p] = pllVerified[p]
    BY <1>0, <1>5
    DEF ConfigurePhase, PhaseAborted, PhaseKept, PLLEchoed, PLLPortMissing,
        PLLFails, MustConfigure, AfterPhase, PLLOnly, ExecuteOnly, Fault,
        Return, FlagType, CallerType
  <2>2. phase = "Work" => ~WorkDone
    BY <2>1 DEF WorkInv, OperationInv
  <2> QED
    BY <2>1, <2>2, WorkFrame DEF InOperation
<1>6. CASE Operations
  <2>1. CASE EnterWork
    <3>1. /\ pc = "operation" /\ OperationsLeft /\ CurrentOp.phase = "Work"
          /\ workPhase # TRUE /\ workPhase' = TRUE /\ pc' = "pll"
          /\ UNCHANGED <<program, opIndex, calls, work, slots, linkUp, pllVerified>>
      BY <1>0, <2>1 DEF EnterWork, EntersWork, OperationOnly, ExecuteOnly, FlagType
    <3>2. ~WorkDone /\ OperationInv /\ SlotsInv
      BY <3>1 DEF WorkInv, OperationInv
    <3>3. ~WorkDone'
      BY <3>1, <3>2, Zenon DEF WorkDone
    <3>4. OperationInv'
      BY <3>1, <3>3, Zenon DEF OperationInv, InOperation, OperationsLeft, CurrentOp
    <3>5. SlotsInv'
      BY <3>1, <3>2, Zenon DEF SlotsInv, LastSoFar, Configures, BeingWritten
    <3> QED
      BY <3>3, <3>4, <3>5 DEF WorkInv, WorkRight
  <2>2. CASE WeightHit
    <3>1. /\ pc = "operation" /\ pc' = "operation" /\ OperationsLeft /\ Valid /\ Hit
          /\ opIndex' = opIndex + 1
          /\ UNCHANGED <<program, workPhase, calls, work, slots, linkUp, pllVerified>>
      BY <2>2 DEF WeightHit, OperationOnly, ExecuteOnly
    <3>2. /\ CurrentOp.phase = "Configuration" /\ workPhase = FALSE
          /\ CurrentOp.slot \in Slots /\ CurrentOp.image # None
      <4>1. CurrentOp.deferred /\ CurrentOp.phase = "Configuration" /\ workPhase = FALSE
        BY <1>0, <3>1 DEF Hit, Valid, FlagType
      <4>2. program \in Programs /\ opIndex \in DOMAIN program.operations
        BY <1>0, <3>1, OperationAt DEF ControlOK
      <4>3. CurrentOp.slot \in Slots /\ CurrentOp.image \in Images
        BY <4>1, <4>2, ProgramsAssumption DEF ProgramAssumption, CurrentOp
      <4> QED
        BY <4>1, <4>3, ConstantAssumption
    <3>3. linkUp = TRUE => slots[CurrentOp.slot] = CurrentOp.image
      BY <1>0, <3>1, <3>2, HitHolds
    <3>4. \A s \in Slots : ~BeingWritten(s)
      BY <3>1 DEF BeingWritten
    <3> QED
      BY <1>0, <3>1, <3>2, <3>3, <3>4, OperationPassed
  <2>3. CASE StartOperation
    <3>1. /\ pc = "operation" /\ pc' = "write" /\ job' = "operation"
          /\ Valid /\ ~EntersWork /\ OperationsLeft
          /\ UNCHANGED <<program, opIndex, workPhase, calls, work, slots, linkUp, pllVerified>>
      BY <2>3 DEF StartOperation, StartWrite, OperationOnly, ExecuteOnly
    <3>2. /\ CurrentOp.phase = "Work" => workPhase = TRUE
          /\ CurrentOp.phase = "Configuration" => workPhase = FALSE
          /\ CurrentOp.phase # "Readback"
      BY <1>0, <3>1 DEF Valid, EntersWork, FlagType
    <3>3. OperationInv /\ SlotsInv /\ WorkRight /\ \A s \in Slots : ~BeingWritten(s)
      BY <3>1 DEF WorkInv, BeingWritten
    <3>4. OperationInv'
      BY <3>1, <3>2, <3>3, Zenon
      DEF OperationInv, WorkDone, InOperation, OperationsLeft, CurrentOp
    <3>5. SlotsInv'
      BY <3>1, <3>3, Zenon DEF SlotsInv, LastSoFar, Configures
    <3>6. WorkRight'
      BY <3>1, <3>3, Zenon DEF WorkRight, WorkDone, Configured, LastSoFar, Configures
    <3> QED
      BY <3>4, <3>5, <3>6 DEF WorkInv
  <2>4. CASE OperationsDone
    <3>1. /\ pc = "operation" /\ pc' \in {"finish", "pll"}
          /\ pc' = "pll" => phase' = "Readback"
          /\ UNCHANGED <<program, opIndex, workPhase, calls, work, slots, linkUp, pllVerified>>
      BY <2>4 DEF OperationsDone, OperationOnly, ExecuteOnly
    <3> QED
      BY <3>1, WorkFrame DEF InOperation
  <2>5. CASE InvalidOperation
    BY <2>5 DEF InvalidOperation, Fault, Return
  <2> QED
    BY <1>6, <2>1, <2>2, <2>3, <2>4, <2>5 DEF Operations
<1>7. CASE Write
  <2>1. CASE WriteFails
    BY <2>1 DEF WriteFails, Fault, Return
  <2>2. CASE WriteChunk /\ job # "operation"
    <3>1. /\ pc = "write" /\ pc' \in {"write", "arm", "take"}
          /\ UNCHANGED <<job, phase, program, opIndex, workPhase, calls, linkUp, pllVerified>>
      BY <1>0, <2>2 DEF WriteChunk, WriteOnly, CallerType
    <3>2. UNCHANGED <<slots, work>>
      BY <2>2 DEF WriteChunk, Lands, SelectionLands, RequestLands
    <3> QED
      BY <2>2, <3>1, <3>2, WorkFrame DEF InOperation
  <2>3. CASE WriteChunk /\ job = "operation" /\ chunksLeft' # 0
    <3>1. /\ pc = "write" /\ pc' = "write"
          /\ UNCHANGED <<job, phase, program, opIndex, workPhase, calls, linkUp, pllVerified>>
      BY <2>3 DEF WriteChunk, WriteOnly
    <3>2. OperationLands(FALSE)
      BY <2>3 DEF WriteChunk, Lands
    <3>3. UNCHANGED work
      BY <3>2 DEF OperationLands
    <3>4. \A s \in Slots : CurrentOp.slot # s => slots'[s] = slots[s]
      BY <1>0, <3>2 DEF OperationLands, BoardType
    <3>5. OperationInv /\ SlotsInv /\ WorkRight
      BY <3>1 DEF WorkInv
    <3>6. OperationInv'
      BY <3>1, <3>5, Zenon
      DEF OperationInv, WorkDone, InOperation, OperationsLeft, CurrentOp
    <3>7. SlotsInv'
      <4> SUFFICES ASSUME linkUp' = TRUE, NEW s \in Slots,
                          NEW i \in DOMAIN program'.operations,
                          LastSoFar(i, s)', ~BeingWritten(s)'
                   PROVE  slots'[s] = program'.operations[i].image
        BY DEF SlotsInv
      <4>1. CurrentOp.slot # s
        BY <2>3, <3>1 DEF BeingWritten, CurrentOp
      <4>2. LastSoFar(i, s) /\ ~BeingWritten(s)
        BY <3>1, <4>1 DEF LastSoFar, Configures, BeingWritten
      <4> QED
        BY <3>1, <3>4, <3>5, <4>1, <4>2 DEF SlotsInv
    <3>8. WorkRight'
      BY <3>1, <3>3, <3>5, Zenon
      DEF WorkRight, WorkDone, Configured, LastSoFar, Configures
    <3> QED
      BY <3>6, <3>7, <3>8 DEF WorkInv
  <2>4. CASE WriteChunk /\ job = "operation" /\ chunksLeft' = 0
    <3>1. /\ pc = "write" /\ pc' = "operation" /\ opIndex' = opIndex + 1
          /\ UNCHANGED <<program, workPhase, calls, linkUp, pllVerified>>
      BY <2>4 DEF WriteChunk, WriteOnly
    <3>2. OperationLands(TRUE)
      BY <2>4 DEF WriteChunk, Lands
    <3>3. /\ OperationsLeft /\ CurrentOp \in Operation
          /\ CurrentOp.phase # "Configuration" => CurrentOp.slot = None
      BY <1>0, <2>4, <3>1, OperationAt DEF ControlOK, InOperation
    <3>4. /\ CurrentOp.phase = "Work" => workPhase = TRUE
          /\ CurrentOp.phase = "Configuration" => workPhase = FALSE
          /\ CurrentOp.phase \in {"Configuration", "Work"}
      BY <2>4, <3>1, <3>3 DEF WorkInv, OperationInv, InOperation, Operation
    <3>5. \A s \in Slots : s # None
      BY ConstantAssumption
    <3>6. \A s \in Slots :
             IF CurrentOp.slot = s /\ CurrentOp.phase = "Configuration"
             THEN slots'[s] = CurrentOp.image
             ELSE slots'[s] = slots[s] /\ ~BeingWritten(s)
      <4> SUFFICES ASSUME NEW s \in Slots
                   PROVE  IF CurrentOp.slot = s /\ CurrentOp.phase = "Configuration"
                          THEN slots'[s] = CurrentOp.image
                          ELSE slots'[s] = slots[s] /\ ~BeingWritten(s)
        OBVIOUS
      <4>1. CurrentOp.slot = s => CurrentOp.phase = "Configuration" /\ CurrentOp.slot # None
        BY <3>3, <3>5
      <4>2. CASE CurrentOp.slot = s
        BY <1>0, <3>2, <4>1, <4>2 DEF OperationLands, BoardType
      <4>3. CASE CurrentOp.slot # s
        BY <1>0, <3>2, <4>3 DEF OperationLands, BoardType, BeingWritten
      <4> QED
        BY <4>2, <4>3
    <3>7. CurrentOp.phase = "Work" =>
             work' = [call |-> calls, weights |-> slots, pll |-> pllRegister]
      BY <3>2 DEF OperationLands
    <3>8. CurrentOp.phase = "Configuration" => UNCHANGED work
      BY <3>2 DEF OperationLands
    <3>9. ASSUME CurrentOp.phase = "Work", linkUp = TRUE, pllVerified["Work"] = TRUE
          PROVE  pllRegister = PLLWord["Work"]
      <4>1. phase = "Work"
        BY <1>0, <2>4, <3>1, <3>4, <3>9 DEF PhaseInv, InOps, InOperation, CallerType
      <4>2. verifiedPLL = PLLWord["Work"]
        BY <2>4, <3>1, <3>9, <4>1 DEF PhaseInv, InOps, InOperation
      <4>3. PLLWord["Work"] # None
        BY ConstantAssumption
      <4> QED
        BY <1>0, <3>9, <4>2, <4>3 DEF PLLPhysical
    <3> QED
      BY <1>0, <3>1, <3>3, <3>4, <3>6, <3>7, <3>8, <3>9, OperationPassed
  <2> QED
    BY <1>7, <2>1, <2>2, <2>3, <2>4 DEF Write
<1>8. CASE Readback
  <2>1. /\ pc \in ExecutePlaces /\ pc' # "pll" /\ pc # "write" /\ pc # "pll"
        /\ UNCHANGED <<program, opIndex, workPhase, calls, work, slots, linkUp, pllVerified>>
        /\ pc' = "write" => job' # "operation"
    BY <1>8
    DEF Readback, StartBatch, Arm, TakeResponse, NoResponse, Seal,
        BatchesDone, Finish, ReadbackOnly, ExecuteOnly, FaultReadback,
        StartWrite, Fault, Return
  <2> QED
    BY <2>1, WorkFrame DEF InOperation
<1>9. CASE Reader
  <2>1. UNCHANGED <<pc, job, phase, program, opIndex, workPhase, calls, pllVerified,
                    work, slots, linkUp>>
    BY <1>9
    DEF Reader, ReaderStart, ReaderCheck, ReaderRead, ReaderReadNothing,
        ReaderReadError, ReaderAppend, ReaderDeliver, ReaderDelivered,
        ReaderOnly
  <2> QED
    BY <2>1, OtherStep
<1>10. CASE Environment
  <2>1. /\ UNCHANGED <<pc, job, phase, program, opIndex, workPhase, calls, pllVerified>>
        /\ linkUp' = FALSE \/ UNCHANGED <<work, slots, linkUp>>
    BY <1>10 DEF Environment, BoardSend, BoardSpoil, LinkDrop, TakeFlit
  <2> QED
    BY <2>1, OtherStep
<1>11. CASE UNCHANGED vars
  BY <1>11, OtherStep
<1> QED
  BY <1>1, <1>2, <1>3, <1>4, <1>5, <1>6, <1>7, <1>8, <1>9, <1>10, <1>11
  DEF Next, Caller

-----------------------------------------------------------------------------
\* What a reply to a request carries.

(***************************************************************************)
(* The reply was computed in this call, from the weights the program asks  *)
(* for, and with the clocks pllVerified reports.                           *)
(***************************************************************************)
Computed(reply) ==
    /\ pllVerified["Readback"] => reply.pll = PLLWord["Readback"]
    /\ workPhase =>
          /\ reply.work.call = calls
          /\ pllVerified["Work"] => reply.work.pll = PLLWord["Work"]
          /\ \A s \in Slots, i \in DOMAIN program.operations :
                /\ Configures(i, s)
                /\ \A k \in DOMAIN program.operations : Configures(k, s) => k <= i
                => reply.work.weights[s] = program.operations[i].image

\* What the board answers to a request is computed as the program asks.
LEMMA AnswerComputed ==
  ASSUME IInv, PhaseInv, WorkInv, pc = "write", job = "request", linkUp,
         NEW reply, reply.work = work, reply.pll = pllRegister
  PROVE  Computed(reply)
<1>1. FlagType /\ CallerType /\ ControlOK /\ PLLPhysical /\ pc \in ExecutePlaces
  BY DEF IInv, TypeOK, ExecutePlaces, ReadbackPlaces
<1>2. /\ opIndex > Len(program.operations) /\ phase = "Readback"
      /\ pllVerified["Readback"] = TRUE => verifiedPLL = PLLWord["Readback"]
  BY DEF PhaseInv, InReadback, InBatch
<1>3. ASSUME pllVerified["Readback"] PROVE pllRegister = PLLWord["Readback"]
  BY <1>1, <1>2, <1>3, ConstantAssumption DEF PLLPhysical, FlagType
<1>4. ASSUME workPhase PROVE WorkDone
  <2>1. workPhase = TRUE /\ ~OperationsLeft
    BY <1>1, <1>2, <1>4, OperationAt DEF FlagType, OperationsLeft
  <2> QED
    BY <1>1, <2>1 DEF WorkInv, OperationInv
<1>5. ASSUME workPhase
      PROVE  /\ work.call = calls
             /\ pllVerified["Work"] => work.pll = PLLWord["Work"]
             /\ Configured(work.weights)
  <2>1. linkUp = TRUE /\ (pllVerified["Work"] => pllVerified["Work"] = TRUE)
    BY <1>1 DEF FlagType
  <2> QED
    BY <1>1, <1>4, <1>5, <2>1 DEF WorkInv, WorkRight
<1>6. ASSUME NEW i \in DOMAIN program.operations
      PROVE  i < opIndex
  BY <1>1, <1>2, OperationAt
<1>7. ASSUME NEW s \in Slots, NEW i \in DOMAIN program.operations, Configures(i, s),
             \A k \in DOMAIN program.operations : Configures(k, s) => k <= i
      PROVE  LastSoFar(i, s)
  BY <1>6, <1>7, Zenon DEF LastSoFar
<1> QED
  BY <1>3, <1>5, <1>7, Zenon DEF Computed, Configured

\* The invariants of the operations hold in every behaviour.
LEMMA OperationsRight == Spec => [](IInv /\ PhaseInv /\ WorkInv)
<1>1. Init => PhaseInv /\ WorkInv
  BY DEF Init, PhaseInv, WorkInv, InOps, InReadback, InOperation, InBatch,
         ExecutePlaces, ReadbackPlaces
<1>2. IInv /\ PhaseInv /\ [Next]_vars => PhaseInv'
  BY PhaseStep DEF IInv, TypeOK
<1>3. IInv /\ PhaseInv /\ WorkInv /\ [Next]_vars => WorkInv'
  BY WorkStep
<1> QED
  BY <1>1, <1>2, <1>3, Inductive, PTL DEF Spec

-----------------------------------------------------------------------------
\* Counting flits channel by channel.

\* A number of flits of each channel, and how many that is.
Heights == [Channels -> 0..PacketFlits]
Cells(height) == {cell \in Channels \X (1..PacketFlits) : cell[2] <= height[cell[1]]}
Total(height) == Cardinality(Cells(height))

\* The cells of all channels are finitely many.
LEMMA CellsFinite ==
  ASSUME NEW height \in Heights
  PROVE  /\ IsFiniteSet(Cells(height))
         /\ Total(height) \in Nat
<1>1. IsFiniteSet(Channels) /\ IsFiniteSet(1..PacketFlits)
  BY ConstantAssumption, FS_Interval
<1>2. IsFiniteSet(Channels \X (1..PacketFlits))
  BY <1>1, FS_Product
<1>3. Cells(height) \in SUBSET (Channels \X (1..PacketFlits))
  BY DEF Cells
<1> QED
  BY <1>2, <1>3, FS_Subset, FS_CardinalityType DEF Total

\* When one channel changes, the total changes by as much.
LEMMA TotalUpdate ==
  ASSUME NEW height \in Heights, NEW c \in Channels, NEW k \in 0..PacketFlits
  PROVE  Total([height EXCEPT ![c] = k]) = Total(height) - height[c] + k
<1> DEFINE others == {cell \in Cells(height) : cell[1] # c}
           column(n) == {c} \X (1..n)
<1>1. IsFiniteSet(others)
  <2>1. others \in SUBSET Cells(height)
    OBVIOUS
  <2> QED
    BY <2>1, CellsFinite, FS_Subset
<1>2. ASSUME NEW n \in 0..PacketFlits
      PROVE  /\ IsFiniteSet(column(n)) /\ Cardinality(column(n)) = n
             /\ Cardinality(others \cup column(n)) = Cardinality(others) + n
  <2>1. IsFiniteSet({c}) /\ Cardinality({c}) = 1
    BY FS_Singleton
  <2>2. IsFiniteSet(1..n) /\ Cardinality(1..n) = n
    BY FS_Interval
  <2>3. IsFiniteSet(column(n)) /\ Cardinality(column(n)) = n
    <3>1. /\ IsFiniteSet(column(n))
          /\ Cardinality(column(n)) = Cardinality({c}) * Cardinality(1..n)
      BY <2>1, <2>2, FS_Product, Zenon
    <3> QED
      BY <2>1, <2>2, <3>1
  <2>4. others \cap column(n) = {}
    OBVIOUS
  <2>5. Cardinality(others \cap column(n)) = 0
    BY <2>4, FS_EmptySet
  <2>6. Cardinality(others) \in Nat
    BY <1>1, FS_CardinalityType
  <2>7. Cardinality(others \cup column(n))
          = Cardinality(others) + Cardinality(column(n)) - Cardinality(others \cap column(n))
    BY <1>1, <2>3, FS_Union
  <2> HIDE DEF others, column
  <2> QED
    BY <2>3, <2>5, <2>6, <2>7
<1>3. height[c] \in 0..PacketFlits
  BY DEF Heights
<1>4. Cells(height) = others \cup column(height[c])
  <2>1. ASSUME NEW cell \in Cells(height), cell[1] = c
        PROVE  cell \in column(height[c])
    BY <2>1 DEF Cells
  <2>2. ASSUME NEW cell \in column(height[c])
        PROVE  cell \in Cells(height)
    <3>1. cell = <<cell[1], cell[2]>> /\ cell[1] = c /\ cell[2] \in 1..height[c]
      OBVIOUS
    <3>2. cell \in Channels \X (1..PacketFlits)
      BY <1>3, <3>1, ConstantAssumption
    <3> QED
      BY <3>1, <3>2 DEF Cells
  <2> QED
    BY <2>1, <2>2
<1>5. Cells([height EXCEPT ![c] = k]) = others \cup column(k)
  <2> DEFINE other == [height EXCEPT ![c] = k]
  <2>1. other[c] = k /\ \A d \in Channels : d # c => other[d] = height[d]
    BY DEF Heights
  <2> HIDE DEF other
  <2>2. ASSUME NEW cell \in Cells(other)
        PROVE  cell \in others \cup column(k)
    BY <2>1 DEF Cells
  <2>3. ASSUME NEW cell \in others
        PROVE  cell \in Cells(other)
    BY <2>1 DEF Cells
  <2>4. ASSUME NEW cell \in column(k)
        PROVE  cell \in Cells(other)
    <3>1. cell = <<cell[1], cell[2]>> /\ cell[1] = c /\ cell[2] \in 1..k
      OBVIOUS
    <3>2. cell \in Channels \X (1..PacketFlits)
      BY <3>1, ConstantAssumption
    <3> QED
      BY <2>1, <3>1, <3>2 DEF Cells
  <2>5. Cells(other) = others \cup column(k)
    BY <2>2, <2>3, <2>4
  <2> QED
    BY <2>5 DEF other
<1>6. Cardinality(others) \in Nat
  BY <1>1, FS_CardinalityType
<1>7. /\ Cardinality(others \cup column(height[c])) = Cardinality(others) + height[c]
      /\ Cardinality(others \cup column(k)) = Cardinality(others) + k
  BY <1>2, <1>3
<1> HIDE DEF others, column
<1>8. Total(height) = Cardinality(others) + height[c]
  BY <1>4, <1>7 DEF Total
<1>9. Total([height EXCEPT ![c] = k]) = Cardinality(others) + k
  BY <1>5, <1>7 DEF Total
<1> QED
  BY <1>3, <1>6, <1>8, <1>9

\* Nothing is counted when no channel has a flit.
LEMMA TotalZero ==
  ASSUME NEW height \in Heights
  PROVE  Total(height) = 0 <=> \A c \in Channels : height[c] = 0
<1>1. Total(height) = 0 <=> Cells(height) = {}
  BY CellsFinite, FS_EmptySet DEF Total
<1>2. ASSUME NEW c \in Channels, height[c] # 0
      PROVE  <<c, 1>> \in Cells(height)
  BY <1>2, ConstantAssumption DEF Cells, Heights
<1>3. (\A c \in Channels : height[c] = 0) => Cells(height) = {}
  BY DEF Cells
<1> QED
  BY <1>1, <1>2, <1>3

\* One channel has at most all.
LEMMA TotalBounds ==
  ASSUME NEW height \in Heights, NEW c \in Channels
  PROVE  height[c] <= Total(height)
<1>1. Total([height EXCEPT ![c] = 0]) = Total(height) - height[c] + 0
  BY TotalUpdate, ConstantAssumption
<1>2. [height EXCEPT ![c] = 0] \in Heights
  BY ConstantAssumption DEF Heights
<1>3. Total([height EXCEPT ![c] = 0]) \in Nat
  BY <1>2, CellsFinite
<1>4. height[c] \in Nat /\ Total(height) \in Nat
  BY CellsFinite DEF Heights
<1> QED
  BY <1>1, <1>3, <1>4

-----------------------------------------------------------------------------
\* The budget of a batch.

\* The replies of the current batch are awaited.
Awaiting == (pc = "write" /\ job = "request") \/ pc \in {"take", "seal"}

PartialHeight == [c \in Channels |-> Len(partial[c])]
InDelivery == IF reader = "deliver" THEN Len(chunk) ELSE 0

\* A batch has finitely many targets.
LEMMA TargetsFinite ==
  ASSUME NEW batch \in Batch
  PROVE  /\ IsFiniteSet(Targets(batch))
         /\ Cardinality(Targets(batch)) \in Nat
         /\ Len(batch.targets) \in Nat
         /\ Targets(batch) \subseteq Keys
<1>1. batch.targets \in Seq(Keys)
  BY DEF Batch
<1> DEFINE n == Len(batch.targets)
           target == [i \in 1..n |-> batch.targets[i]]
<1>2. n \in Nat /\ DOMAIN batch.targets = 1..n
  BY <1>1
<1>3. IsFiniteSet(1..n)
  BY <1>2, FS_Interval
<1>4. target \in Surjection(1..n, Targets(batch))
  BY <1>2 DEF Targets, Surjection
<1>5. IsFiniteSet(Targets(batch))
  BY <1>3, <1>4, FS_Surjection
<1> QED
  BY <1>1, <1>2, <1>5, FS_CardinalityType DEF Targets

\* The flits of partial packets, counted channel by channel.
LEMMA PartialCounted ==
  ASSUME ReceiveType
  PROVE  /\ PartialHeight \in Heights
         /\ InPartialPackets = Total(PartialHeight)
<1>1. PartialHeight \in Heights
  BY ConstantAssumption DEF ReceiveType, PartialHeight, Heights
<1>2. PartialCells = Cells(PartialHeight)
  BY DEF PartialCells, Cells, PartialHeight
<1> QED
  BY <1>1, <1>2 DEF InPartialPackets, Total

\* The same in the next state.
LEMMA PartialCountedThen ==
  ASSUME ReceiveType'
  PROVE  /\ PartialHeight' \in Heights
         /\ InPartialPackets' = Total(PartialHeight')
<1>1. PartialHeight' \in Heights
  BY ConstantAssumption DEF ReceiveType, PartialHeight, Heights
<1>2. PartialCells' = Cells(PartialHeight')
  BY DEF PartialCells, Cells, PartialHeight
<1> QED
  BY <1>1, <1>2 DEF InPartialPackets, Total

\* A delivered record moves from the chunk to a partial packet or, with the
\* partial packet it completes, to the queue.
LEMMA DeliverCounted ==
  ASSUME ReceiveType, DeliverRecord
  PROVE  /\ Len(chunk') = Len(chunk) - 1
         /\ InPartialPackets' + PacketFlits * Len(responses')
              = InPartialPackets + PacketFlits * Len(responses) + 1
<1> DEFINE c == Head(chunk).channel
           packet == Append(partial[c], Head(chunk).flit)
<1>1. Head(chunk) \in Record
  BY DEF DeliverRecord, ReceiveType
<1>2. c \in Channels /\ partial[c] \in Seq(Flit) /\ Head(chunk).flit \in Flit
  BY <1>1 DEF Record, ReceiveType
<1>3. Len(packet) = Len(partial[c]) + 1 /\ Len(partial[c]) \in 0..PacketFlits - 1
  BY <1>2, ConstantAssumption DEF ReceiveType
<1>4. Len(chunk') = Len(chunk) - 1
  BY DEF DeliverRecord, ReceiveType
<1>5. ReceiveType => PartialHeight \in Heights /\ InPartialPackets = Total(PartialHeight)
  BY PartialCounted
<1>6. InPartialPackets' = Total(PartialHeight')
  <2>1. /\ partial' \in [Channels -> Seq(Flit)]
        /\ \A d \in Channels : Len(partial'[d]) < PacketFlits
    BY DeliverRecordType
  <2>2. PartialCells' = Cells(PartialHeight')
    BY DEF PartialCells, Cells, PartialHeight
  <2> QED
    BY <2>2 DEF InPartialPackets, Total
<1>7. CASE Len(packet) = PacketFlits
  <2>1. responses' = Append(responses, packet) /\ partial' = [partial EXCEPT ![c] = <<>>]
    BY <1>7 DEF DeliverRecord
  <2>2. PartialHeight' = [PartialHeight EXCEPT ![c] = 0]
    BY <1>2, <2>1 DEF PartialHeight, ReceiveType
  <2>3. Total(PartialHeight') = Total(PartialHeight) - PartialHeight[c] + 0
    <3>1. 0 \in 0..PacketFlits
      BY ConstantAssumption
    <3> QED
      BY <1>2, <1>5, <2>2, <3>1, TotalUpdate
  <2>4. Len(responses') = Len(responses) + 1 /\ Len(responses) \in Nat
    BY <2>1 DEF ReceiveType
  <2>5. PartialHeight[c] = PacketFlits - 1 /\ Total(PartialHeight) \in Nat
    BY <1>2, <1>3, <1>5, <1>7, CellsFinite, ConstantAssumption DEF PartialHeight
  <2>6. PacketFlits * Len(responses') = PacketFlits * Len(responses) + PacketFlits
    BY <2>4, ConstantAssumption
  <2> QED
    BY <1>4, <1>5, <1>6, <2>3, <2>4, <2>5, <2>6, ConstantAssumption
<1>8. CASE Len(packet) # PacketFlits
  <2>1. responses' = responses /\ partial' = [partial EXCEPT ![c] = packet]
    BY <1>8 DEF DeliverRecord
  <2>2. PartialHeight' = [PartialHeight EXCEPT ![c] = Len(partial[c]) + 1]
    BY <1>2, <1>3, <2>1 DEF PartialHeight, ReceiveType
  <2>3. Len(partial[c]) + 1 \in 0..PacketFlits
    BY <1>3, ConstantAssumption
  <2>4. Total(PartialHeight')
          = Total(PartialHeight) - PartialHeight[c] + (Len(partial[c]) + 1)
    BY <1>2, <1>5, <2>2, <2>3, TotalUpdate
  <2>5. PartialHeight[c] = Len(partial[c]) /\ Total(PartialHeight) \in Nat
    BY <1>2, <1>5, CellsFinite DEF PartialHeight
  <2>6. PacketFlits * Len(responses) \in Int
    BY ConstantAssumption DEF ReceiveType
  <2> QED
    BY <1>3, <1>4, <1>5, <1>6, <2>1, <2>4, <2>5, <2>6
<1> QED
  BY <1>7, <1>8

(***************************************************************************)
(* The steps that end with replies awaited: Arm, and those of both threads *)
(* and the environment while they are.                                     *)
(***************************************************************************)
LEMMA AwaitingSteps ==
  ASSUME CallerType, [Next]_vars, Awaiting'
  PROVE  \/ Arm /\ BoundaryClean
         \/ /\ Awaiting
            /\ \/ WriteChunk /\ job = "request"
               \/ TakeResponse /\ Acceptable(Head(responses))
               \/ Reader \/ Environment \/ UNCHANGED vars
<1>1. CASE Call
  BY <1>1
  DEF Call, Open, Close, ClearWeightResidency, ExecuteRefused, Execute,
      NewCall, BeginClose, Awaiting
<1>2. CASE Closing
  BY <1>2, SMTT(30)
  DEF Closing, DriverCancel, Join, DrainRead, DrainEmpty, DrainError,
      DrainAppend, DrainDeliver, DrainDelivered, DriverClose, DrainOnly,
      Mishap, Awaiting
<1>3. CASE Opening
  BY <1>3
  DEF Opening, OpenFails, OpenDriver, SessionStarts, SessionFails,
      SessionTimeout, BeginClose, Awaiting
<1>4. CASE Begin
  BY <1>4 DEF Begin, Fault, Return, Awaiting
<1>5. CASE ConfigurePhase
  BY <1>5
  DEF ConfigurePhase, PhaseAborted, PhaseKept, PLLEchoed, PLLPortMissing,
      PLLFails, MustConfigure, AfterPhase, Fault, Return, Awaiting
<1>6. CASE Operations
  BY <1>6
  DEF Operations, EnterWork, InvalidOperation, WeightHit, StartOperation,
      OperationsDone, StartWrite, Fault, Return, Awaiting
<1>7. CASE Write
  BY <1>7
  DEF Write, WriteChunk, WriteFails, WriteOnly, Fault, Return, Awaiting,
      CallerType
<1>8. CASE Readback
  BY <1>8
  DEF Readback, StartBatch, Arm, TakeResponse, NoResponse, Seal,
      BatchesDone, Finish, FaultReadback, StartWrite, Fault, Return, Awaiting
<1>9. CASE Reader
  BY <1>9
  DEF Reader, ReaderStart, ReaderCheck, ReaderRead, ReaderReadNothing,
      ReaderReadError, ReaderAppend, ReaderDeliver, ReaderDelivered,
      ReaderOnly, Awaiting
<1>10. CASE Environment
  BY <1>10
  DEF Environment, BoardSend, BoardSpoil, LinkDrop, Awaiting
<1>11. CASE UNCHANGED vars
  BY <1>11 DEF Awaiting
<1> QED
  BY <1>1, <1>2, <1>3, <1>4, <1>5, <1>6, <1>7, <1>8, <1>9, <1>10, <1>11
  DEF Next, Caller

(***************************************************************************)
(* Every batch in progress is well formed, the targets waited for are its  *)
(* own, and the balance of BudgetExact holds until the batch is sealed.    *)
(***************************************************************************)
Held == remaining + InDelivery + InPartialPackets

Balance ==
    Held + PacketFlits * (Len(responses) + Len(CurrentBatch.targets)
                            - Cardinality(wanted))
      = PacketFlits * Len(CurrentBatch.targets)

BudgetInv ==
    /\ InBatch => WellFormedBatch(CurrentBatch)
    /\ Awaiting => wanted \subseteq Targets(CurrentBatch) /\ Balance
    /\ Awaiting => (wanted = {} <=> pc = "seal")

\* A step within a batch keeps the batch; StartBatch checked it.
LEMMA BatchSteps ==
  ASSUME CallerType, [Next]_vars, InBatch'
  PROVE  /\ UNCHANGED <<program, batchIndex, calls>>
         /\ InBatch \/ (pc = "batch" /\ WellFormedBatch(CurrentBatch) /\ StartBatch)
<1>1. CASE Call
  BY <1>1
  DEF Call, Open, Close, ClearWeightResidency, ExecuteRefused, Execute,
      NewCall, BeginClose, InBatch
<1>2. CASE Closing
  BY <1>2, SMTT(30)
  DEF Closing, DriverCancel, Join, DrainRead, DrainEmpty, DrainError,
      DrainAppend, DrainDeliver, DrainDelivered, DriverClose, DrainOnly,
      Mishap, InBatch
<1>3. CASE Opening
  BY <1>3
  DEF Opening, OpenFails, OpenDriver, SessionStarts, SessionFails,
      SessionTimeout, BeginClose, InBatch
<1>4. CASE Begin
  BY <1>4 DEF Begin, Fault, Return, InBatch
<1>5. CASE ConfigurePhase
  BY <1>5
  DEF ConfigurePhase, PhaseAborted, PhaseKept, PLLEchoed, PLLPortMissing,
      PLLFails, MustConfigure, AfterPhase, Fault, Return, InBatch
<1>6. CASE Operations
  BY <1>6
  DEF Operations, EnterWork, InvalidOperation, WeightHit, StartOperation,
      OperationsDone, StartWrite, Fault, Return, InBatch
<1>7. CASE Write
  BY <1>7
  DEF Write, WriteChunk, WriteFails, WriteOnly, Fault, Return, InBatch,
      CallerType
<1>8. CASE Readback
  BY <1>8
  DEF Readback, StartBatch, Arm, TakeResponse, NoResponse, Seal,
      BatchesDone, Finish, FaultReadback, StartWrite, Fault, Return,
      ReadbackOnly, ExecuteOnly, InBatch
<1>9. CASE Reader
  BY <1>9
  DEF Reader, ReaderStart, ReaderCheck, ReaderRead, ReaderReadNothing,
      ReaderReadError, ReaderAppend, ReaderDeliver, ReaderDelivered,
      ReaderOnly, InBatch
<1>10. CASE Environment
  BY <1>10
  DEF Environment, BoardSend, BoardSpoil, LinkDrop, InBatch
<1>11. CASE UNCHANGED vars
  BY <1>11 DEF InBatch
<1> QED
  BY <1>1, <1>2, <1>3, <1>4, <1>5, <1>6, <1>7, <1>8, <1>9, <1>10, <1>11
  DEF Next, Caller

\* Between packets and batches no flit is held.
LEMMA CleanHoldsNothing ==
  ASSUME ReceiveType, BoundaryClean
  PROVE  responses = <<>> /\ InPartialPackets = 0
<1>1. responses = <<>> /\ \A c \in Channels : partial[c] = <<>>
  BY DEF BoundaryClean, HasPendingResponse
<1>2. \A c \in Channels : PartialHeight[c] = 0
  BY <1>1 DEF PartialHeight
<1> QED
  BY <1>1, <1>2, PartialCounted, TotalZero

\* What is held is a number.
LEMMA HeldType ==
  ASSUME ReceiveType
  PROVE  Held \in Int
<1>1. remaining \in Int /\ InDelivery \in Int /\ InPartialPackets \in Int
  BY PartialCounted, CellsFinite DEF ReceiveType, InDelivery
<1> QED
  BY <1>1 DEF Held

\* The same in the next state.
LEMMA HeldTypeThen ==
  ASSUME ReceiveType'
  PROVE  Held' \in Int
<1>1. remaining' \in Int /\ InDelivery' \in Int /\ InPartialPackets' \in Int
  BY PartialCountedThen, CellsFinite DEF ReceiveType, InDelivery
<1> QED
  BY <1>1 DEF Held

\* The balance starts even and every step keeps it.
LEMMA BudgetStep ==
  ASSUME TypeOK, ControlOK, BudgetInv, [Next]_vars
  PROVE  BudgetInv'
<1> USE DEF TypeOK
<1>1. ASSUME InBatch' PROVE WellFormedBatch(CurrentBatch)'
  BY <1>1, BatchSteps DEF BudgetInv, CurrentBatch
<1>2. ASSUME Awaiting'
      PROVE  /\ wanted' \subseteq Targets(CurrentBatch)'
             /\ Balance'
             /\ wanted' = {} <=> pc' = "seal"
  <2>1. CASE Arm /\ BoundaryClean
    <3>1. InBatch /\ WellFormedBatch(CurrentBatch)
      BY <2>1 DEF Arm, InBatch, BudgetInv
    <3>2. CurrentBatch \in Batch
      BY <3>1, BatchKnown
    <3>3. /\ remaining' = Budget(CurrentBatch)
          /\ wanted' = Targets(CurrentBatch)
          /\ pc' = "write" /\ reader' # "deliver"
          /\ UNCHANGED <<program, batchIndex, responses, partial, reader>>
      BY <2>1 DEF Arm, StartWrite, ExecuteOnly, LockFree
    <3>4. responses' = <<>> /\ InPartialPackets' = 0
      BY <2>1, <3>3, CleanHoldsNothing DEF InPartialPackets, PartialCells
    <3>5. CurrentBatch' = CurrentBatch
      BY <3>3 DEF CurrentBatch
    <3>6. Cardinality(Targets(CurrentBatch)) = Len(CurrentBatch.targets)
      BY <3>1 DEF WellFormedBatch
    <3>7. Balance'
      <4> DEFINE n == Len(CurrentBatch.targets)
      <4>1. n \in Nat /\ Len(responses') = 0
        BY <3>2, <3>4, TargetsFinite
      <4>2. remaining' = PacketFlits * n /\ PacketFlits * n \in Int
        BY <3>3, <4>1, ConstantAssumption DEF Budget
      <4>3. Len(responses') + n - Cardinality(wanted') = 0
        BY <3>3, <3>6, <4>1
      <4>4. PacketFlits * 0 = 0 /\ InDelivery' = 0
        BY <3>3, ConstantAssumption DEF InDelivery
      <4>5. Held' + PacketFlits * (Len(responses') + n - Cardinality(wanted'))
              = PacketFlits * n
        BY <3>4, <4>2, <4>3, <4>4 DEF Held
      <4> QED
        BY <3>5, <4>5 DEF Balance
    <3>8. Targets(CurrentBatch) # {}
      <4>1. CurrentBatch.targets \in Seq(Keys) /\ CurrentBatch.targets # <<>>
        BY <3>1, <3>2 DEF WellFormedBatch, Batch
      <4>2. 1 \in DOMAIN CurrentBatch.targets
        BY <4>1
      <4> QED
        BY <4>2 DEF Targets
    <3> QED
      BY <3>3, <3>5, <3>7, <3>8
  <2>2. ASSUME Awaiting, UNCHANGED <<program, batchIndex, wanted>>,
               Held' + PacketFlits * Len(responses') = Held + PacketFlits * Len(responses),
               responses' \in Seq(Packet), Held \in Int, Held' \in Int,
               pc' = "seal" <=> pc = "seal"
        PROVE  /\ wanted' \subseteq Targets(CurrentBatch)'
               /\ Balance'
               /\ wanted' = {} <=> pc' = "seal"
    <3>1. /\ wanted \subseteq Targets(CurrentBatch) /\ Balance
          /\ wanted = {} <=> pc = "seal"
      BY <2>2 DEF BudgetInv
    <3>2. CurrentBatch' = CurrentBatch
      BY <2>2 DEF CurrentBatch
    <3>3. InBatch
      BY <2>2 DEF Awaiting, InBatch
    <3>4. CurrentBatch \in Batch
      BY <3>3, BatchKnown
    <3>5. /\ Cardinality(wanted) \in Nat /\ Len(CurrentBatch.targets) \in Nat
      BY <3>1, <3>4, TargetsFinite, FS_Subset, FS_CardinalityType
    <3>6. Len(responses) \in Nat /\ Len(responses') \in Nat
      BY <2>2 DEF ReceiveType
    <3>8. ASSUME NEW k \in Int
          PROVE  PacketFlits * (k + Len(CurrentBatch.targets) - Cardinality(wanted))
                   = PacketFlits * k + PacketFlits * Len(CurrentBatch.targets)
                       - PacketFlits * Cardinality(wanted)
      <4> DEFINE m == Len(CurrentBatch.targets)
                 n == Cardinality(wanted)
      <4>1. m \in Int /\ n \in Int
        BY <3>5
      <4> HIDE DEF m, n
      <4>2. PacketFlits * (k + m - n) = PacketFlits * k + PacketFlits * m - PacketFlits * n
        BY <4>1, ConstantAssumption
      <4> QED
        BY <4>2 DEF m, n
    <3>9. /\ PacketFlits * Len(responses) \in Int /\ PacketFlits * Len(responses') \in Int
          /\ PacketFlits * Len(CurrentBatch.targets) \in Int
          /\ PacketFlits * Cardinality(wanted) \in Int
      BY <3>5, <3>6, ConstantAssumption
    <3>10. /\ PacketFlits * (Len(responses) + Len(CurrentBatch.targets) - Cardinality(wanted))
                = PacketFlits * Len(responses) + PacketFlits * Len(CurrentBatch.targets)
                    - PacketFlits * Cardinality(wanted)
           /\ PacketFlits * (Len(responses') + Len(CurrentBatch.targets) - Cardinality(wanted))
                = PacketFlits * Len(responses') + PacketFlits * Len(CurrentBatch.targets)
                    - PacketFlits * Cardinality(wanted)
      BY <3>6, <3>8
    <3>11. Held' + PacketFlits * (Len(responses') + Len(CurrentBatch.targets) - Cardinality(wanted))
             = PacketFlits * Len(CurrentBatch.targets)
      <4> DEFINE now == PacketFlits * (Len(responses) + Len(CurrentBatch.targets)
                                          - Cardinality(wanted))
                 then == PacketFlits * (Len(responses') + Len(CurrentBatch.targets)
                                          - Cardinality(wanted))
                 queued == PacketFlits * Len(responses)
                 queuedThen == PacketFlits * Len(responses')
                 all == PacketFlits * Len(CurrentBatch.targets)
                 left == PacketFlits * Cardinality(wanted)
      <4>1. /\ now = queued + all - left
            /\ then = queuedThen + all - left
            /\ queued \in Int /\ queuedThen \in Int /\ all \in Int /\ left \in Int
        BY <3>9, <3>10
      <4>2. Held + now = all /\ Held' + queuedThen = Held + queued
        BY <2>2, <3>1 DEF Balance
      <4>3. Held \in Int /\ Held' \in Int
        BY <2>2
      <4> HIDE DEF now, then, queued, queuedThen, all, left
      <4>4. PICK heldThen : heldThen = Held'
        OBVIOUS
      <4>5. heldThen \in Int /\ Held + now = all /\ heldThen + queuedThen = Held + queued
        BY <4>2, <4>3, <4>4, Zenon
      <4>6. heldThen + then = all
        BY <4>1, <4>3, <4>5
      <4>7. Held' + then = all
        BY <4>4, <4>6, Zenon
      <4> QED
        BY <4>7 DEF then, all
    <3>12. Balance'
      BY <2>2, <3>2, <3>11 DEF Balance
    <3> QED
      BY <2>2, <3>1, <3>2, <3>12
  <2>3. ASSUME Awaiting, UNCHANGED <<program, batchIndex, wanted>>,
               UNCHANGED <<remaining, responses, partial, chunk>>,
               InDelivery' = InDelivery, pc' = "seal" <=> pc = "seal"
        PROVE  /\ wanted' \subseteq Targets(CurrentBatch)'
               /\ Balance'
               /\ wanted' = {} <=> pc' = "seal"
    <3>1. InPartialPackets' = InPartialPackets
      BY <2>3 DEF InPartialPackets, PartialCells
    <3>2. Held' = Held
      BY <2>3, <3>1 DEF Held
    <3> QED
      BY <2>2, <2>3, <3>2, HeldType DEF ReceiveType
  <2>4. CASE Awaiting /\ WriteChunk /\ job = "request"
    <3>1. pc = "write" /\ pc' \in {"write", "take"}
      BY <2>4 DEF WriteChunk
    <3> QED
      BY <2>3, <2>4, <3>1 DEF WriteChunk, WriteOnly, InDelivery
  <2>5. CASE Awaiting /\ TakeResponse /\ Acceptable(Head(responses))
    <3> DEFINE key == Head(responses)[1].reply.key
    <3>1. /\ wanted' = wanted \ {key} /\ key \in wanted
          /\ responses' = Tail(responses) /\ responses # <<>>
          /\ pc' = IF wanted' = {} THEN "seal" ELSE "take"
          /\ reader # "deliver" /\ pc = "take"
          /\ UNCHANGED <<program, batchIndex, remaining, partial, reader>>
      BY <2>5, Zenon DEF TakeResponse, Acceptable, ReadbackOnly, ExecuteOnly, LockFree
    <3>2. wanted \subseteq Targets(CurrentBatch) /\ Balance
      BY <2>5 DEF BudgetInv
    <3>3. CurrentBatch \in Batch
      BY <3>1, BatchKnown DEF InBatch
    <3>4. IsFiniteSet(wanted) /\ Cardinality(wanted) \in Nat
      BY <3>2, <3>3, TargetsFinite, FS_Subset, FS_CardinalityType
    <3>5. Cardinality(wanted') = Cardinality(wanted) - 1
      BY <3>1, <3>4, FS_RemoveElement
    <3>6. Len(responses') = Len(responses) - 1 /\ Len(responses) \in Nat
      BY <3>1 DEF ReceiveType
    <3>7. Len(responses') + Len(CurrentBatch.targets) - Cardinality(wanted')
            = Len(responses) + Len(CurrentBatch.targets) - Cardinality(wanted)
      BY <3>3, <3>4, <3>5, <3>6, TargetsFinite
    <3>8. Held' = Held
      BY <3>1 DEF Held, InPartialPackets, PartialCells, InDelivery
    <3>9. CurrentBatch' = CurrentBatch
      BY <3>1 DEF CurrentBatch
    <3>10. Balance'
      BY <3>1, <3>2, <3>7, <3>8, <3>9 DEF Balance
    <3> QED
      BY <3>1, <3>2, <3>9, <3>10
  <2>6. CASE Awaiting /\ Reader
    <3>1. UNCHANGED <<pc, program, batchIndex, wanted>>
      BY <2>6
      DEF Reader, ReaderStart, ReaderCheck, ReaderRead, ReaderReadNothing,
          ReaderReadError, ReaderAppend, ReaderDeliver, ReaderDelivered,
          ReaderOnly
    <3>2. ReceiveType'
      BY ReceiveStep
    <3>3. Held \in Int /\ Held' \in Int
      BY <3>2, HeldType, HeldTypeThen
    <3>4. CASE ReaderAppend /\ AcceptChunk
      <4>1. /\ remaining' = remaining - Len(chunk) /\ InDelivery = 0
            /\ InDelivery' = Len(chunk)
            /\ UNCHANGED <<responses, partial, chunk>>
        BY <3>4 DEF ReaderAppend, AcceptChunk, RefuseChunk, InDelivery
      <4>2. InPartialPackets' = InPartialPackets
        BY <4>1 DEF InPartialPackets, PartialCells
      <4>3. Len(chunk) \in Int /\ remaining \in Int /\ InPartialPackets \in Int
        BY PartialCounted, CellsFinite DEF ReceiveType
      <4>4. Held' = Held
        BY <4>1, <4>2, <4>3 DEF Held
      <4> QED
        BY <2>2, <2>6, <3>1, <3>2, <3>3, <4>1, <4>4 DEF ReceiveType
    <3>5. CASE ReaderDeliver
      <4>1. InDelivery = Len(chunk) /\ InDelivery' = Len(chunk')
            /\ UNCHANGED remaining
        BY <3>5 DEF ReaderDeliver, DeliverRecord, InDelivery
      <4>2. Len(chunk) \in Int /\ remaining \in Int /\ PacketFlits * Len(responses) \in Int
            /\ PacketFlits * Len(responses') \in Int /\ InPartialPackets \in Int
            /\ InPartialPackets' \in Int
        BY <3>2, ConstantAssumption, PartialCounted, PartialCountedThen, CellsFinite
        DEF ReceiveType
      <4>3. /\ Len(chunk') = Len(chunk) - 1
            /\ InPartialPackets' + PacketFlits * Len(responses')
                 = InPartialPackets + PacketFlits * Len(responses) + 1
        BY <3>5, DeliverCounted DEF ReaderDeliver
      <4> DEFINE queued == PacketFlits * Len(responses)
                 queuedThen == PacketFlits * Len(responses')
                 length == Len(chunk)
      <4>4. /\ Held = remaining + length + InPartialPackets
            /\ Held' = remaining + (length - 1) + InPartialPackets'
        BY <4>1, <4>3 DEF Held
      <4>5. /\ InPartialPackets' + queuedThen = InPartialPackets + queued + 1
            /\ length \in Int /\ queued \in Int /\ queuedThen \in Int
        BY <4>2, <4>3
      <4> HIDE DEF queued, queuedThen, length
      <4>6. remaining + (length - 1) + InPartialPackets' + queuedThen = Held + queued
        <5>1. PICK inPartialThen : inPartialThen = InPartialPackets'
          OBVIOUS
        <5>2. inPartialThen \in Int /\ inPartialThen + queuedThen = InPartialPackets + queued + 1
          BY <4>2, <4>5, <5>1, Zenon
        <5>3. remaining + (length - 1) + inPartialThen + queuedThen = Held + queued
          BY <4>2, <4>4, <4>5, <5>2
        <5> QED
          BY <5>1, <5>3, Zenon
      <4>7. Held' + queuedThen = Held + queued
        BY <4>4, <4>6, Zenon
      <4>8. Held' + PacketFlits * Len(responses') = Held + PacketFlits * Len(responses)
        BY <4>7 DEF queued, queuedThen
      <4> QED
        BY <2>2, <2>6, <3>1, <3>2, <3>3, <4>8 DEF ReceiveType
    <3>6. CASE Reader /\ ~(ReaderAppend /\ AcceptChunk) /\ ~ReaderDeliver
      <4>1. UNCHANGED <<remaining, responses, partial>>
        BY <3>6
        DEF Reader, ReaderStart, ReaderCheck, ReaderRead, ReaderReadNothing,
            ReaderReadError, ReaderAppend, RefuseChunk, ReaderDelivered
      <4>2. InDelivery' = InDelivery
        BY <3>6
        DEF Reader, ReaderStart, ReaderCheck, ReaderRead, ReaderReadNothing,
            ReaderReadError, ReaderAppend, ReaderDelivered, InDelivery
      <4>3. Held' = Held
        BY <4>1, <4>2 DEF Held, InPartialPackets, PartialCells
      <4> QED
        BY <2>2, <2>6, <3>1, <3>2, <3>3, <4>1, <4>3 DEF ReceiveType
    <3> QED
      BY <2>6, <3>4, <3>5, <3>6
  <2>7. CASE Awaiting /\ Environment
    BY <2>3, <2>7 DEF Environment, BoardSend, BoardSpoil, LinkDrop, InDelivery
  <2>8. CASE Awaiting /\ UNCHANGED vars
    BY <2>3, <2>8 DEF InDelivery
  <2> QED
    BY <1>2, <2>1, <2>4, <2>5, <2>6, <2>7, <2>8, AwaitingSteps
<1> QED
  BY <1>1, <1>2 DEF BudgetInv

(***************************************************************************)
(* The record budget of a batch neither refuses a reply that is due nor    *)
(* admits one that is not, for every packet size, batch and interleaving   *)
(* of the receive thread.                                                  *)
(***************************************************************************)
THEOREM BudgetCorrect == Spec => []BudgetExact
<1>1. Init => BudgetInv
  BY DEF Init, BudgetInv, InBatch, Awaiting
<1>2. IInv /\ BudgetInv /\ [Next]_vars => BudgetInv'
  BY BudgetStep DEF IInv
<1>3. BudgetInv => BudgetExact
  BY DEF BudgetInv, BudgetExact, Balance, Held, InDelivery, Awaiting
<1> QED
  BY <1>1, <1>2, <1>3, Inductive, PTL DEF Spec
=============================================================================
