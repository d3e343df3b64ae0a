-------------------------- MODULE CIMSessionProofs --------------------------
(***************************************************************************)
(* Proofs about CIMSession for every set of threads, every model and any   *)
(* number of failures: the mutex admits one call, a device that failed is  *)
(* never replaced without a word, what is called resident is in the chip,  *)
(* and the results of a call are those of its own sample.                  *)
(*                                                                         *)
(* The last two rest on what CIMRunnersProofs proves of one transaction: a *)
(* run on either backend, whatever it finds resident and on the chip, has  *)
(* the results of a software runner of its own.                            *)
(***************************************************************************)
EXTENDS CIMSession, CIMRunnersProofs

Within == {"invoke", "configure"}
Outside == {"idle", "returned"}
\* The fields of a device, whatever is resident in it.
DeviceShape ==
  device = [made |-> device.made, open |-> device.open, failed |-> device.failed,
            resid |-> device.resid]
CallsShape == calls = [t \in Threads |-> calls[t]]
\* The holder of the mutex is the only thread within a call.
Exclusive ==
  \A t \in Threads :
    calls[t].kind \in IF lock = t THEN Within ELSE Outside
IInv == DeviceShape /\ CallsShape /\ Exclusive

\* The session starts in its shape.
LEMMA InitIInv == Init => IInv
  BY SessionAssumption
  DEF Init, IInv, DeviceShape, CallsShape, Exclusive, NoDevice, Idle, Outside, SessionAssumption

\* A step of a thread within its call that goes on.
LEMMA Wrote ==
  ASSUME IInv, NEW t \in Threads, lock' = lock, NEW o, Written(t, o)
  PROVE  CallsShape' /\ Exclusive'
<1> DEFINE next == [calls[t] EXCEPT !.outs = Append(@, o)]
<1>1. calls' = [calls EXCEPT ![t] = next]
  BY DEF Written
<1>2. next.kind = calls[t].kind
  OBVIOUS
<1>3. CallsShape'
  BY <1>1 DEF IInv, CallsShape
<1>4. \A u \in Threads : calls'[u].kind = calls[u].kind
  BY <1>1, <1>2 DEF IInv, CallsShape
<1> QED
  BY <1>3, <1>4 DEF IInv, Exclusive

\* A call that returns frees the mutex.
LEMMA Returns ==
  ASSUME IInv, NEW t \in Threads, lock \in {t, Free}, NEW code, NEW call, Return(t, code, call)
  PROVE  CallsShape' /\ Exclusive'
<1>1. CallsShape'
  BY DEF IInv, CallsShape, Return
<1>2. calls'[t].kind = "returned"
  BY DEF IInv, CallsShape, Return
<1>3. \A u \in Threads \ {t} : calls'[u] = calls[u]
  BY DEF IInv, CallsShape, Return
<1>4. lock' = Free
  BY DEF Return
<1> QED
  BY <1>1, <1>2, <1>3, <1>4, SessionAssumption
  DEF IInv, Exclusive, Within, Outside, SessionAssumption

\* A call that enters takes the mutex.
LEMMA Enters ==
  ASSUME IInv, NEW t \in Threads, NEW call, call.kind \in Within, Enter(t, call)
  PROVE  CallsShape' /\ Exclusive'
<1>1. CallsShape'
  BY DEF IInv, CallsShape, Enter
<1>2. calls'[t] = call
  BY DEF IInv, CallsShape, Enter
<1>3. \A u \in Threads \ {t} : calls'[u] = calls[u]
  BY DEF IInv, CallsShape, Enter
<1>4. lock = Free /\ lock' = t
  BY DEF Enter
<1> QED
  BY <1>1, <1>2, <1>3, <1>4, SessionAssumption
  DEF IInv, Exclusive, Within, Outside, SessionAssumption


\* Every step keeps the shapes and the mutex.
LEMMA NextIInv == IInv /\ [Next]_vars => IInv'
<1> SUFFICES ASSUME IInv, [Next]_vars PROVE IInv'
  OBVIOUS
<1>1. DeviceShape'
  <2>1. CASE \E t \in Threads, x \in Samples : InvokeBegin(t, x)
    BY <2>1 DEF IInv, DeviceShape, InvokeBegin
  <2>2. CASE \E t \in Threads : InvokeRefused(t)
    BY <2>2 DEF IInv, DeviceShape, InvokeRefused
  <2>3. CASE \E t \in Threads : DispatchSkipped(t) \/ DispatchUnconfigured(t) \/ DispatchSoftware(t)
    BY <2>3 DEF IInv, DeviceShape, DispatchSkipped, DispatchUnconfigured, DispatchSoftware
  <2>4. CASE \E t \in Threads : DispatchRefused(t)
    BY <2>4 DEF IInv, DeviceShape, DispatchRefused
  <2>5. CASE \E t \in Threads : DispatchUSB(t)
    BY <2>5 DEF IInv, DeviceShape, DispatchUSB
  <2>6. CASE \E t \in Threads : DispatchFault(t)
    BY <2>6 DEF IInv, DeviceShape, DispatchFault, Faulted
  <2>7. CASE \E t \in Threads : DispatchRejected(t)
    BY <2>7 DEF IInv, DeviceShape, DispatchRejected, clearWeightResidency
  <2>8. CASE \E t \in Threads : InvokeEnd(t) \/ ConfigureRefused(t)
    BY <2>8 DEF IInv, DeviceShape, InvokeEnd, ConfigureRefused
  <2>9. CASE \E t \in Threads : ConfigureClose(t)
    BY <2>9 DEF IInv, DeviceShape, ConfigureClose
  <2>10. CASE \E t \in Threads : ConfigureFailed(t)
    BY <2>10 DEF IInv, DeviceShape, ConfigureFailed, NoDevice
  <2>11. CASE \E t \in Threads : ConfigureOpen(t)
    BY <2>11 DEF IInv, DeviceShape, ConfigureOpen, OpenDevice
  <2>12. CASE \E t \in Threads : \E c \in Captures : Capture(t, c[1], c[2])
    BY <2>12 DEF IInv, DeviceShape, Capture, Faulted, clearWeightResidency
  <2>13. CASE ReceiveFails
    BY <2>13 DEF IInv, DeviceShape, ReceiveFails
  <2>14. CASE UNCHANGED vars
    BY <2>14 DEF IInv, DeviceShape, vars
  <2> QED
    BY <2>1, <2>2, <2>3, <2>4, <2>5, <2>6, <2>7, <2>8, <2>9, <2>10, <2>11, <2>12, <2>13, <2>14
    DEF Next
<1>2. CallsShape' /\ Exclusive'
  <2>1. ASSUME NEW t \in Threads, NEW x \in Samples, InvokeBegin(t, x)
        PROVE  CallsShape' /\ Exclusive'
    <3>1. Invocation(x).kind \in Within
      BY DEF Invocation, Within
    <3> QED
      BY <2>1, <3>1, Enters DEF InvokeBegin
  <2>2. ASSUME NEW t \in Threads, InvokeRefused(t) \/ ConfigureRefused(t)
        PROVE  CallsShape' /\ Exclusive'
    <3>1. PICK code, call : Return(t, code, call) /\ lock = Free
      BY <2>2 DEF InvokeRefused, ConfigureRefused
    <3> QED
      BY <3>1, Returns
  <2>3. ASSUME NEW t \in Threads,
               DispatchSkipped(t) \/ DispatchUnconfigured(t) \/ DispatchSoftware(t)
        PROVE  CallsShape' /\ Exclusive'
    <3>1. PICK o : Written(t, o) /\ lock' = lock
      BY <2>3 DEF DispatchSkipped, DispatchUnconfigured, DispatchSoftware
    <3> QED
      BY <3>1, Wrote
  <2>4. ASSUME NEW t \in Threads,
               DispatchRefused(t) \/ DispatchUSB(t) \/ DispatchFault(t) \/ DispatchRejected(t)
        PROVE  CallsShape' /\ Exclusive'
    <3>1. PICK o : Written(t, o) /\ lock' = lock
      BY <2>4 DEF DispatchRefused, DispatchUSB, DispatchFault, DispatchRejected, OnRunner
    <3> QED
      BY <3>1, Wrote
  <2>5. ASSUME NEW t \in Threads, InvokeEnd(t) \/ ConfigureFailed(t) \/ ConfigureOpen(t)
        PROVE  CallsShape' /\ Exclusive'
    <3>1. PICK code, call : Return(t, code, call) /\ lock = t
      BY <2>5 DEF InvokeEnd, ConfigureFailed, ConfigureOpen, Calling
    <3> QED
      BY <3>1, Returns
  <2>6. ASSUME NEW t \in Threads, ConfigureClose(t)
        PROVE  CallsShape' /\ Exclusive'
    <3>1. Configure.kind \in Within
      BY DEF Configure, Within
    <3> QED
      BY <2>6, <3>1, Enters DEF ConfigureClose
  <2>7. ASSUME NEW t \in Threads, NEW c \in Captures, Capture(t, c[1], c[2])
        PROVE  CallsShape' /\ Exclusive'
    <3>1. PICK code, call : Return(t, code, call) /\ lock = Free
      BY <2>7 DEF Capture
    <3> QED
      BY <3>1, Returns
  <2>8. CASE ReceiveFails \/ UNCHANGED vars
    BY <2>8 DEF IInv, CallsShape, Exclusive, ReceiveFails, vars
  <2> QED
    BY <2>1, <2>2, <2>3, <2>4, <2>5, <2>6, <2>7, <2>8 DEF Next
<1> QED
  BY <1>1, <1>2 DEF IInv

\* The shapes and the mutex hold in every behaviour.
LEMMA Inductive == Spec => []IInv
<1> QED
  BY InitIInv, NextIInv, PTL DEF Spec

\* The mutex of the Session: at most one thread is within a call, whatever the
\* threads do.
THEOREM MutexCorrect == Spec => []Exclusive
<1>1. IInv => Exclusive
  BY DEF IInv
<1> QED
  BY <1>1, Inductive, PTL

\* A device that failed is dropped by one call only, the configuration that
\* reports it.
THEOREM FaultIsReported == Spec => FaultReported
<1> DEFINE Reported(t) == /\ lock = t /\ calls'[t].kind = "returned"
                          /\ calls'[t].code # 0
<1>1. ASSUME IInv, Next, device.failed, ~device'.failed
      PROVE  ~runner' /\ \E t \in Threads : Reported(t)
  <2>1. PICK t \in Threads : ConfigureFailed(t)
    <3>1. ASSUME NEW t \in Threads, ConfigureClose(t) PROVE FALSE
      BY <1>1, <3>1 DEF IInv, DeviceShape, ConfigureClose
    <3>2. ASSUME NEW t \in Threads, ConfigureOpen(t) PROVE FALSE
      BY <1>1, <3>2 DEF ConfigureOpen
    <3>3. ASSUME NEW t \in Threads,
                 DispatchUSB(t) \/ DispatchRejected(t) PROVE FALSE
      BY <1>1, <3>3 DEF DispatchUSB, DispatchRejected
    <3>4. ASSUME NEW t \in Threads, DispatchFault(t) PROVE FALSE
      BY <1>1, <3>4 DEF IInv, DeviceShape, DispatchFault, Faulted
    <3>5. ASSUME NEW t \in Threads, NEW c \in Captures, Capture(t, c[1], c[2]) PROVE FALSE
      BY <1>1, <3>5 DEF IInv, DeviceShape, Capture, Faulted, clearWeightResidency
    <3>6. ASSUME NEW t \in Threads,
                 \/ \E x \in Samples : InvokeBegin(t, x)
                 \/ InvokeRefused(t) \/ InvokeEnd(t) \/ ConfigureRefused(t)
                 \/ DispatchSkipped(t) \/ DispatchUnconfigured(t) \/ DispatchSoftware(t)
                 \/ DispatchRefused(t)
          PROVE FALSE
      BY <1>1, <3>6 DEF InvokeBegin, InvokeRefused, InvokeEnd, ConfigureRefused, DispatchSkipped,
         DispatchUnconfigured, DispatchSoftware, DispatchRefused
    <3>7. ASSUME ReceiveFails PROVE FALSE
      BY <1>1, <3>7 DEF ReceiveFails
    <3> QED
      BY <1>1, <3>1, <3>2, <3>3, <3>4, <3>5, <3>6, <3>7 DEF Next
  <2>2. calls' = [calls EXCEPT ![t] = [kind |-> "returned", code |-> 1, call |-> NoResults]]
    BY <2>1 DEF ConfigureFailed, Return
  <2>3. calls'[t] = [kind |-> "returned", code |-> 1, call |-> NoResults]
    BY <1>1, <2>2 DEF IInv, CallsShape
  <2> QED
    BY <2>1, <2>3 DEF ConfigureFailed, Calling
<1>2. IInv /\ [Next]_vars =>
        [device.failed /\ ~device'.failed =>
           /\ ~runner'
           /\ \E t \in Threads : /\ lock = t /\ calls'[t].kind = "returned"
                                 /\ calls'[t].code # 0]_vars
  BY <1>1
<1> QED
  BY <1>2, Inductive, PTL DEF Spec, FaultReported

-----------------------------------------------------------------------------
(* The session: calls, the chip and what is resident in the device.        *)
\* The call of a thread that invokes.
Invoking(t) ==
    /\ calls[t] = [kind |-> "invoke", sample |-> calls[t].sample, outs |-> calls[t].outs]
    /\ calls[t].sample \in Samples
    /\ Len(calls[t].outs) \in 0..Len(Program)
    /\ calls[t].outs = [w \in 1..Len(calls[t].outs) |-> calls[t].outs[w]]
CallInv ==
    /\ residency \in BOOLEAN
    /\ \A t \in Threads : calls[t].kind = "invoke" => Invoking(t)

\* Appending to a tuple.
LEMMA Appended ==
  ASSUME NEW f, Len(f) \in Nat, f = [i \in 1..Len(f) |-> f[i]], NEW o
  PROVE  LET g == Append(f, o)
         IN /\ Len(g) = Len(f) + 1 /\ g = [i \in 1..Len(g) |-> g[i]]
            /\ g[Len(g)] = o /\ \A i \in 1..Len(f) : g[i] = f[i]
<1> DEFINE S == {f[i] : i \in 1..Len(f)} \cup {o}
<1>1. f \in Seq(S)
  OBVIOUS
<1>2. o \in S
  OBVIOUS
<1> HIDE DEF S
<1>3. /\ Append(f, o) \in Seq(S) /\ Len(Append(f, o)) = Len(f) + 1
      /\ Append(f, o)[Len(f) + 1] = o
      /\ \A i \in 1..Len(f) : Append(f, o)[i] = f[i]
  BY <1>1, <1>2
<1> DEFINE g == Append(f, o)
<1>4. g \in Seq(S) => g = [i \in 1..Len(g) |-> g[i]]
  <2> HIDE DEF g
  <2> QED
    OBVIOUS
<1> QED
  BY <1>3, <1>4

\* A thread that writes a wave goes on.
LEMMA WroteWave ==
  ASSUME IInv, CallInv, NEW t \in Threads, Dispatching(t), NEW o, Written(t, o)
  PROVE  /\ calls'[t].kind = "invoke" /\ calls'[t].sample = calls[t].sample
         /\ Len(calls'[t].outs) = WaveOf(t) /\ WaveOf(t) \in DOMAIN Program
         /\ calls'[t].outs[WaveOf(t)] = o
         /\ \A w \in 1..Len(calls[t].outs) : calls'[t].outs[w] = calls[t].outs[w]
         /\ \A u \in Threads \ {t} : calls'[u] = calls[u]
         /\ Invoking(t)'
<1> DEFINE outs == calls[t].outs
<1>1. /\ calls[t].kind = "invoke" /\ Invoking(t) /\ WaveOf(t) <= Len(Program)
      /\ Len(Program) \in Nat /\ DOMAIN Program = 1..Len(Program)
  BY SessionAssumption DEF Dispatching, Calling, CallInv
<1>2. calls' = [calls EXCEPT ![t] = [calls[t] EXCEPT !.outs = Append(outs, o)]]
  BY DEF Written
<1>3. /\ calls'[t] = [calls[t] EXCEPT !.outs = Append(outs, o)]
      /\ \A u \in Threads \ {t} : calls'[u] = calls[u]
  BY <1>2 DEF IInv, CallsShape
<1>4. calls'[t] = [kind |-> "invoke", sample |-> calls[t].sample, outs |-> Append(outs, o)]
  BY <1>1, <1>3 DEF Invoking
<1>5. /\ Len(Append(outs, o)) = Len(outs) + 1
      /\ Append(outs, o) = [i \in 1..Len(outs) + 1 |-> Append(outs, o)[i]]
      /\ Append(outs, o)[Len(outs) + 1] = o
      /\ \A i \in 1..Len(outs) : Append(outs, o)[i] = outs[i]
  <2>1. Len(outs) \in Nat /\ outs = [i \in 1..Len(outs) |-> outs[i]]
    BY <1>1 DEF Invoking
  <2> HIDE DEF outs
  <2> QED
    BY <2>1, Appended
<1>6. WaveOf(t) = Len(outs) + 1 /\ WaveOf(t) \in DOMAIN Program
  BY <1>1 DEF WaveOf, Invoking
<1>7. Len(outs) + 1 \in 0..Len(Program) /\ calls[t].sample \in Samples
  BY <1>1, <1>6 DEF Invoking
<1> DEFINE then == Append(outs, o)
<1> HIDE DEF outs, then
<1>8. calls'[t].outs = then /\ calls'[t].kind = "invoke" /\ calls'[t].sample = calls[t].sample
  BY <1>4 DEF then
<1>9. Invoking(t)'
  BY <1>4, <1>5, <1>7, <1>8 DEF Invoking, then
<1> QED
  BY <1>3, <1>5, <1>6, <1>8, <1>9 DEF outs, then

\* Every wave that is dispatched, of a sample of the calls.
LEMMA CallStep ==
  ASSUME IInv, CallInv, [Next]_vars
  PROVE  CallInv'
<1> USE DEF CallInv
<1>1. ASSUME NEW t \in Threads, NEW x \in Samples, InvokeBegin(t, x)
      PROVE  CallInv'
  <2>1. calls' = [calls EXCEPT ![t] = Invocation(x)] /\ residency' = residency
    BY <1>1 DEF InvokeBegin, Enter, model
  <2>2. /\ calls'[t] = [kind |-> "invoke", sample |-> x, outs |-> <<>>]
        /\ \A u \in Threads \ {t} : calls'[u] = calls[u]
    BY <2>1 DEF IInv, CallsShape, Invocation
  <2>3. Invoking(t)'
    <3>1. Len(<<>>) = 0 /\ <<>> = [w \in 1..0 |-> <<>>[w]] /\ Len(Program) \in Nat
      BY SessionAssumption
    <3> QED
      BY <2>2, <3>1 DEF Invoking
  <2>4. \A u \in Threads \ {t} : Invoking(u) => Invoking(u)'
    BY <2>2 DEF Invoking
  <2> QED
    BY <2>1, <2>2, <2>3, <2>4
<1>2. ASSUME NEW t \in Threads, NEW code, NEW call, Return(t, code, call), UNCHANGED residency
      PROVE  CallInv'
  <2>1. /\ calls'[t].kind = "returned"
        /\ \A u \in Threads \ {t} : calls'[u] = calls[u]
    BY <1>2 DEF IInv, CallsShape, Return
  <2>2. \A u \in Threads \ {t} : Invoking(u) => Invoking(u)'
    BY <2>1 DEF Invoking
  <2> QED
    BY <1>2, <2>1, <2>2
<1>3. ASSUME NEW t \in Threads, Dispatching(t), NEW o, Written(t, o), UNCHANGED residency
      PROVE  CallInv'
  <2>1. Invoking(t)' /\ \A u \in Threads \ {t} : calls'[u] = calls[u]
    BY <1>3, WroteWave
  <2>2. \A u \in Threads \ {t} : Invoking(u) => Invoking(u)'
    BY <2>1 DEF Invoking
  <2> QED
    BY <1>3, <2>1, <2>2
<1>4. ASSUME NEW t \in Threads, ConfigureClose(t)
      PROVE  CallInv'
  <2>1. /\ calls'[t].kind = "configure" /\ residency' = residency
        /\ \A u \in Threads \ {t} : calls'[u] = calls[u]
    BY <1>4 DEF IInv, CallsShape, ConfigureClose, Enter, Configure, model
  <2>2. \A u \in Threads \ {t} : Invoking(u) => Invoking(u)'
    BY <2>1 DEF Invoking
  <2> QED
    BY <2>1, <2>2
<1>5. ASSUME UNCHANGED <<calls, residency>>
      PROVE  CallInv'
  BY <1>5 DEF Invoking
<1>6. ASSUME NEW t \in Threads,
             \/ InvokeRefused(t) \/ InvokeEnd(t)
             \/ ConfigureRefused(t) \/ ConfigureFailed(t) \/ ConfigureOpen(t)
             \/ \E c \in Captures : Capture(t, c[1], c[2])
      PROVE  CallInv'
  <2>1. PICK code, call : Return(t, code, call) /\ UNCHANGED residency
    BY <1>6 DEF InvokeRefused, InvokeEnd, ConfigureRefused, ConfigureFailed,
                ConfigureOpen, Capture, model
  <2> QED
    BY <1>2, <2>1
<1>7. ASSUME NEW t \in Threads,
             \/ DispatchSkipped(t) \/ DispatchUnconfigured(t) \/ DispatchSoftware(t)
             \/ DispatchRefused(t) \/ DispatchUSB(t) \/ DispatchFault(t) \/ DispatchRejected(t)
      PROVE  CallInv'
  <2>1. PICK o : Dispatching(t) /\ Written(t, o) /\ UNCHANGED residency
    BY <1>7 DEF DispatchSkipped, DispatchUnconfigured, DispatchSoftware, DispatchRefused,
                DispatchUSB, DispatchFault, DispatchRejected, OnRunner, model
  <2> QED
    BY <1>3, <2>1
<1>8. CASE ReceiveFails \/ UNCHANGED vars
  BY <1>5, <1>8 DEF ReceiveFails, vars, model
<1> QED
  BY <1>1, <1>4, <1>6, <1>7, <1>8 DEF Next

\* The chip and the table have their shape, and the table is true of the chip.
BoardInv == IsChip(chip) /\ IsTable(device.resid) /\ Holds(chip, device.resid)

\* A program of the session is orderly.
LEMMA DispatchOrderly ==
  ASSUME CallInv, NEW t \in Threads, Dispatching(t), ~Refused(t)
  PROVE  /\ Orderly(DeviceProgram(t).operations) /\ DeviceProgram(t).tracked \in BOOLEAN
         /\ DeviceProgram(t) =
              BoardProgram(Exe(t), WaveInputs(t), Mode, WeightsOf(Exe(t), residency))
<1>1. /\ calls[t].sample \in Samples /\ residency \in BOOLEAN
      /\ Len(calls[t].outs) \in Nat /\ WaveOf(t) <= Len(Program)
  <2>1. Invoking(t) /\ residency \in BOOLEAN /\ WaveOf(t) <= Len(Program)
    BY DEF CallInv, Dispatching, Calling
  <2>2. Len(Program) \in Nat
    BY SessionAssumption
  <2>3. calls[t].sample \in Samples /\ Len(calls[t].outs) \in 0..Len(Program)
    BY <2>1 DEF Invoking
  <2> QED
    BY <2>1, <2>2, <2>3
<1>2. WaveOf(t) \in DOMAIN Program /\ Program[WaveOf(t)] \in DOMAIN Executables
  BY <1>1, SessionAssumption DEF WaveOf
<1>3. DeviceProgram(t) =
        BoardProgram(Exe(t), WaveInputs(t), Mode, WeightsOf(Exe(t), residency))
  BY <1>1, <1>2 DEF DeviceProgram, DevicePrograms, Exe, WaveInputs
<1>4. WorkKeys(Exe(t)) \in Seq(ToSet(WorkKeys(Exe(t))))
  BY <1>2, SessionAssumption, WellListed DEF Exe
<1>5. BoardProgram(Exe(t), WaveInputs(t), Mode, WeightsOf(Exe(t), residency)).ok
  BY <1>3 DEF Refused
<1> QED
  BY <1>3, <1>4, <1>5, ProgramOrderly

\* A prefix of an orderly program leaves a chip.
LEMMA PrefixIsChip ==
  ASSUME BoardInv, NEW program, Orderly(program.operations), program.tracked \in BOOLEAN,
         NEW n \in 0..Len(program.operations)
  PROVE  IsChip(Prefix(program, n))
BY WrittenRight DEF BoardInv, Prefix, IsState

\* What a call forgets is true whatever the chip.
LEMMA ForgottenRight ==
  ASSUME IsChip(chip'), device'.resid = NothingResident
  PROVE  BoardInv'
<1>1. IsTable(device'.resid) /\ Holds(chip', device'.resid)
  BY NothingHolds
<1> QED
  BY <1>1 DEF BoardInv, IsTable, Holds, IsChip

\* A step that leaves the chip and the table alone keeps the table true.
LEMMA KeptRight ==
  ASSUME BoardInv, chip' = chip, device'.resid = device.resid
  PROVE  BoardInv'
BY DEF BoardInv, IsTable, Holds, IsChip

\* No step makes the table false: it is kept, forgotten, or written by a whole
\* program.
LEMMA BoardStep ==
  ASSUME IInv, CallInv, BoardInv, [Next]_vars
  PROVE  BoardInv'
<1> DEFINE Forgets == device'.resid = NothingResident
<1>1. ASSUME NEW t \in Threads,
             \/ \E x \in Samples : InvokeBegin(t, x)
             \/ InvokeRefused(t) \/ DispatchSkipped(t) \/ DispatchUnconfigured(t)
             \/ DispatchSoftware(t) \/ DispatchRefused(t) \/ InvokeEnd(t)
             \/ ConfigureRefused(t)
      PROVE  BoardInv'
  <2>1. UNCHANGED <<chip, device>>
    BY <1>1
    DEF InvokeBegin, InvokeRefused, DispatchSkipped, DispatchUnconfigured,
        DispatchSoftware, DispatchRefused, InvokeEnd, ConfigureRefused
  <2> QED
    BY <2>1, KeptRight
<1>2. ASSUME NEW t \in Threads, DispatchUSB(t)
      PROVE  BoardInv'
  <2> DEFINE run == Execute(chip, device.resid, DeviceProgram(t))
             result == ProgramRun(Exe(t), WaveInputs(t), Mode, DeviceProgram(t), chip,
                                  device.resid)
  <2>1. IsChip(run.chip) /\ IsTable(run.resid) /\ Holds(run.chip, run.resid)
    BY <1>2, DispatchOrderly, ExecuteRight DEF BoardInv, DispatchUSB, OnRunner
  <2>2. result.chip = run.chip /\ result.resid \in {run.resid, NothingResident}
    BY DEF ProgramRun, BoardResult
  <2>3. chip' = result.chip /\ device' = [device EXCEPT !.resid = result.resid]
    BY <1>2 DEF DispatchUSB
  <2>4. device'.resid = result.resid
    BY <2>3 DEF IInv, DeviceShape
  <2> HIDE DEF run, result
  <2>5. IsChip(chip') /\ IsTable(device'.resid) /\ Holds(chip', device'.resid)
    BY <2>1, <2>2, <2>3, <2>4, NothingHolds
  <2> QED
    BY <2>5 DEF BoardInv, IsTable, Holds, IsChip
<1>3. ASSUME NEW t \in Threads, DispatchFault(t)
      PROVE  BoardInv'
  <2>1. Forgets
    BY <1>3 DEF DispatchFault, Faulted, IInv, DeviceShape
  <2>2. Dispatching(t) /\ ~Refused(t)
    BY <1>3 DEF DispatchFault, OnRunner
  <2>3. \/ chip' = chip
        \/ \E n \in 0..Len(DeviceProgram(t).operations) : chip' = Prefix(DeviceProgram(t), n)
    BY <1>3 DEF DispatchFault
  <2>4. IsChip(chip')
    BY <2>2, <2>3, DispatchOrderly, PrefixIsChip DEF BoardInv
  <2> QED
    BY <2>1, <2>4, ForgottenRight
<1>4. ASSUME NEW t \in Threads, DispatchRejected(t)
      PROVE  BoardInv'
  <2>1. Forgets
    BY <1>4 DEF DispatchRejected, clearWeightResidency, IInv, DeviceShape
  <2>2. /\ Dispatching(t) /\ ~Refused(t)
        /\ chip' = Execute(chip, device.resid, DeviceProgram(t)).chip
    BY <1>4 DEF DispatchRejected, OnRunner
  <2>3. IsChip(chip')
    BY <2>2, DispatchOrderly, ExecuteRight DEF BoardInv
  <2> QED
    BY <2>1, <2>3, ForgottenRight
<1>5. ASSUME NEW t \in Threads, ConfigureClose(t) \/ ConfigureFailed(t) \/ ConfigureOpen(t)
      PROVE  BoardInv'
  <2>1. chip' = chip
    BY <1>5 DEF ConfigureClose, ConfigureFailed, ConfigureOpen
  <2>2. \/ device' = [device EXCEPT !.open = FALSE, !.resid = NothingResident]
        \/ device' = [device EXCEPT !.open = FALSE, !.failed = TRUE, !.resid = NothingResident]
        \/ device' = NoDevice \/ device' = OpenDevice
        \/ \E failed \in BOOLEAN : device' = [OpenDevice EXCEPT !.open = FALSE, !.failed = failed]
    BY <1>5 DEF ConfigureClose, ConfigureFailed, ConfigureOpen
  <2>3. /\ NoDevice.resid = NothingResident /\ OpenDevice.resid = NothingResident
        /\ \A failed \in BOOLEAN :
             [OpenDevice EXCEPT !.open = FALSE, !.failed = failed].resid = NothingResident
    BY DEF NoDevice, OpenDevice
  <2>4. \A forgotten :
           /\ [device EXCEPT !.open = FALSE, !.resid = forgotten].resid = forgotten
           /\ [device EXCEPT !.open = FALSE, !.failed = TRUE, !.resid = forgotten].resid = forgotten
    BY DEF IInv, DeviceShape
  <2>5. Forgets
    BY <2>2, <2>3, <2>4
  <2> QED
    BY <2>1, <2>5, ForgottenRight DEF BoardInv
<1>6. ASSUME NEW t \in Threads, NEW c \in Captures, Capture(t, c[1], c[2])
      PROVE  BoardInv'
  <2> DEFINE exe == Executables[c[1]]
             program == BoardProgram(exe, c[2], "none", <<>>)
  <2>1. \/ UNCHANGED <<chip, device>>
        \/ Forgets /\ chip' = chip
        \/ /\ Forgets /\ program.ok
           /\ \/ chip' = Execute(chip, NothingResident, program).chip
              \/ \E n \in 0..Len(program.operations) : chip' = Prefix(program, n)
    <3> HIDE DEF program
    <3> QED
      BY <1>6 DEF Capture, Faulted, clearWeightResidency, IInv, DeviceShape, program
  <2>2. WorkKeys(exe) \in Seq(ToSet(WorkKeys(exe)))
    BY SessionAssumption, WellListed
  <2>3. program.ok => Orderly(program.operations) /\ program.tracked \in BOOLEAN
    BY <2>2, ProgramOrderly
  <2> HIDE DEF program
  <2>4. IsChip(chip) /\ IsTable(NothingResident)
    BY NothingHolds DEF BoardInv
  <2>5. CASE UNCHANGED <<chip, device>>
    BY <2>5, KeptRight
  <2>6. CASE Forgets /\ chip' = chip
    BY <2>4, <2>6, ForgottenRight
  <2>7. CASE /\ Forgets /\ program.ok
             /\ \/ chip' = Execute(chip, NothingResident, program).chip
                \/ \E n \in 0..Len(program.operations) : chip' = Prefix(program, n)
    <3>1. IsChip(chip')
      BY <2>3, <2>4, <2>7, ExecuteRight, PrefixIsChip
    <3> QED
      BY <2>7, <3>1, ForgottenRight
  <2> QED
    BY <2>1, <2>5, <2>6, <2>7
<1>7. CASE ReceiveFails
  BY <1>7, KeptRight DEF ReceiveFails, IInv, DeviceShape
<1>8. CASE UNCHANGED vars
  BY <1>8, KeptRight DEF vars
<1> QED
  BY <1>1, <1>2, <1>3, <1>4, <1>5, <1>6, <1>7, <1>8 DEF Next

\* A runner has an open device, except while a configuration replaces it, and
\* only an open device has anything resident.
OpenInv ==
    /\ runner => device.open \/ \E t \in Threads : lock = t /\ calls[t].kind = "configure"
    /\ device.open \/ device.resid = NothingResident

\* No step leaves something resident in a device that is closed.
LEMMA OpenStep ==
  ASSUME IInv, OpenInv, [Next]_vars
  PROVE  OpenInv'
<1> USE DEF OpenInv, IInv, DeviceShape
<1>1. ASSUME NEW t \in Threads,
             \/ \E x \in Samples : InvokeBegin(t, x)
             \/ InvokeRefused(t) \/ ConfigureRefused(t)
             \/ \E c \in Captures : Capture(t, c[1], c[2])
      PROVE  OpenInv'
  <2>1. /\ lock = Free /\ runner' = runner /\ device'.open = device.open
        /\ device'.resid \in {device.resid, NothingResident}
    BY <1>1
    DEF InvokeBegin, InvokeRefused, ConfigureRefused, Capture, Enter, Faulted,
        clearWeightResidency
  <2>2. runner => device.open
    BY <2>1, SessionAssumption
  <2> QED
    BY <2>1, <2>2
<1>2. ASSUME NEW t \in Threads,
             \/ DispatchSkipped(t) \/ DispatchUnconfigured(t) \/ DispatchSoftware(t)
             \/ DispatchRefused(t) \/ DispatchUSB(t) \/ DispatchFault(t) \/ DispatchRejected(t)
             \/ InvokeEnd(t)
      PROVE  OpenInv'
  <2>1. /\ lock = t /\ calls[t].kind = "invoke" /\ runner' = runner
        /\ device'.open = device.open
    BY <1>2
    DEF DispatchSkipped, DispatchUnconfigured, DispatchSoftware, DispatchRefused,
        DispatchUSB, DispatchFault, DispatchRejected, InvokeEnd, OnRunner, Dispatching,
        Calling, Faulted, clearWeightResidency
  <2>2. runner => device.open
    BY <2>1
  <2>3. runner \/ device'.resid = device.resid
    BY <1>2
    DEF DispatchSkipped, DispatchUnconfigured, DispatchSoftware, DispatchRefused,
        DispatchUSB, DispatchFault, DispatchRejected, InvokeEnd, OnRunner
  <2> QED
    BY <2>1, <2>2, <2>3
<1>3. ASSUME NEW t \in Threads, ConfigureClose(t)
      PROVE  OpenInv'
  <2>1. lock' = t /\ calls'[t].kind = "configure" /\ device'.resid = NothingResident
    BY <1>3 DEF ConfigureClose, Enter, Configure, CallsShape
  <2> QED
    BY <2>1
<1>4. ASSUME NEW t \in Threads, ConfigureFailed(t) \/ ConfigureOpen(t)
      PROVE  OpenInv'
  <2>1. \/ runner' = FALSE /\ device' = NoDevice
        \/ device' = OpenDevice
        \/ /\ runner' = FALSE
           /\ \E failed \in BOOLEAN :
                device' = [OpenDevice EXCEPT !.open = FALSE, !.failed = failed]
    BY <1>4 DEF ConfigureFailed, ConfigureOpen
  <2>2. /\ NoDevice.resid = NothingResident
        /\ OpenDevice.open /\ OpenDevice.resid = NothingResident
        /\ \A failed \in BOOLEAN :
             [OpenDevice EXCEPT !.open = FALSE, !.failed = failed].resid = NothingResident
    BY DEF NoDevice, OpenDevice
  <2>3. \/ runner' = FALSE /\ device'.resid = NothingResident
        \/ device'.open /\ device'.resid = NothingResident
    BY <2>1, <2>2
  <2> QED
    BY <2>3
<1>5. CASE ReceiveFails
  BY <1>5 DEF ReceiveFails
<1>6. CASE UNCHANGED vars
  BY <1>6 DEF vars
<1> QED
  BY <1>1, <1>2, <1>3, <1>4, <1>5, <1>6 DEF Next

\* The invariant of the session.
LEMMA SessionRight == Spec => [](IInv /\ CallInv /\ BoardInv /\ OpenInv)
<1>1. Init => CallInv /\ BoardInv /\ OpenInv
  <2> SUFFICES ASSUME Init PROVE CallInv /\ BoardInv /\ OpenInv
    OBVIOUS
  <2>1. CallInv
    BY DEF Init, CallInv, Idle
  <2>2. device.resid = NothingResident /\ chip = Chip /\ runner = FALSE
    BY DEF Init, NoDevice
  <2>3. IsChip(Chip)
    BY DEF IsChip, Chip
  <2> QED
    BY <2>1, <2>2, <2>3, NothingHolds DEF BoardInv, OpenInv
<1>2. IInv /\ CallInv /\ BoardInv /\ OpenInv /\ [Next]_vars => CallInv' /\ BoardInv' /\ OpenInv'
  BY CallStep, BoardStep, OpenStep
<1> QED
  BY <1>1, <1>2, Inductive, PTL DEF Spec

\* What the device calls resident is in the chip of an open device, whatever
\* failed since it was written and however many calls went before.
THEOREM ResidencyCorrect == Spec => []ResidencyTrue
<1>1. BoardInv /\ OpenInv => ResidencyTrue
  BY DEF BoardInv, OpenInv, ResidencyTrue, Holds, NothingResident
<1> QED
  BY <1>1, SessionRight, PTL

-----------------------------------------------------------------------------
(* One wave, on either backend: neither what is resident nor what is on the *)
(* chip shows in its results.                                              *)

\* A run that succeeds has the results of a runner of its own.
SoftwareAgrees(x, w, tracked, resid) ==
  LET exe == Executables[Program[w]]
      run == SoftwareRun(exe, x[w], Mode, resid, WeightsOf(exe, tracked))
  IN run.ok => run.outs = Reference[x][w]
BoardAgrees(x, w, tracked, ch, resid) ==
  LET exe == Executables[Program[w]]
      program == DevicePrograms[x][w][tracked]
      run == ProgramRun(exe, x[w], Mode, program, ch, resid)
  IN program.ok /\ run.ok => run.outs = Reference[x][w]

\* A software run has the results of a runner of its own.
LEMMA SoftwareHolds ==
  ASSUME NEW x \in Samples, NEW w \in DOMAIN Program, NEW tracked \in BOOLEAN, NEW resid
  PROVE  SoftwareAgrees(x, w, tracked, resid)
<1> DEFINE exe == Executables[Program[w]]
           ids == WeightsOf(exe, tracked)
           steps == SoftwareSteps(exe)
           Start(r, i) == [ok |-> Len(i) \in {0, Len(exe.weights)} /\ Len(x[w]) = Len(exe.inputs),
                           macros |-> NoAttrs, resid |-> r, outs |-> NoAttrs]
           End(r, i) == IF Start(r, i).ok
                        THEN SoftwareStates(exe, steps, x[w], Mode, i, Start(r, i))[Len(steps)]
                        ELSE Start(r, i)
           run == SoftwareRun(exe, x[w], Mode, resid, ids)
           own == SoftwareRun(exe, x[w], Mode, NothingResident, <<>>)
<1>1. Program[w] \in DOMAIN Executables
  BY SessionAssumption
<1>2. WellFormed(exe)
  BY <1>1, SessionAssumption
<1>3. exe.weights \in Seq(ToSet(exe.weights)) /\ Len(steps) \in Nat
  <2> HIDE DEF exe
  <2>1. steps \in Seq(StepsOf(exe))
    BY <1>2, WellListed, WellRead, SoftwareStepsOf
  <2> QED
    BY <1>2, <2>1, WellListed
<1>4. ids \in {<<>>, Images(exe)}
  BY DEF WeightsOf
<1>5. Reference[x][w] = own.outs
  BY DEF Reference
<1>6. /\ run = SoftwareResult(exe, End(resid, ids))
      /\ own = SoftwareResult(exe, End(NothingResident, <<>>))
  BY DEF SoftwareRun
<1> HIDE DEF exe, steps, ids, run, own
<1>7. run.ok => End(resid, ids).ok
  BY <1>6 DEF SoftwareResult
<1>8. End(resid, ids).ok => Start(resid, ids).ok /\ Start(NothingResident, <<>>).ok
  BY DEF Start
<1>9. Start(resid, ids).ok => Alike(Start(resid, ids), Start(NothingResident, <<>>))
  BY DEF Alike, IsRun
<1> HIDE DEF Start
<1>10. Start(resid, ids).ok /\ Start(NothingResident, <<>>).ok =>
         Alike(End(resid, ids), End(NothingResident, <<>>))
  BY <1>3, <1>4, <1>9, SoftwareAlike
<1> HIDE DEF End
<1>11. run.ok => run.outs = own.outs
  <2> SUFFICES ASSUME run.ok PROVE run.outs = own.outs
    OBVIOUS
  <2> DEFINE there == End(resid, ids)  here == End(NothingResident, <<>>)
  <2>1. there.ok /\ here.ok /\ there.outs = here.outs
    BY <1>7, <1>8, <1>10 DEF Alike
  <2> HIDE DEF there, here
  <2>2. SoftwareResult(exe, there).outs = SoftwareResult(exe, here).outs
    BY <2>1 DEF SoftwareResult
  <2> QED
    BY <1>6, <2>2 DEF there, here
<1> QED
  BY <1>5, <1>11 DEF SoftwareAgrees, run, ids, exe

\* A board run of a program the board runner assembled has the results of a software
\* runner of its own, whatever earlier programs left on the chip.
LEMMA BoardHolds ==
  ASSUME NEW x \in Samples, NEW w \in DOMAIN Program, NEW tracked \in BOOLEAN,
         NEW ch, IsChip(ch), NEW resid, IsTable(resid), Holds(ch, resid)
  PROVE  BoardAgrees(x, w, tracked, ch, resid)
<1> DEFINE exe == Executables[Program[w]]
           inputs == x[w]
           ids == WeightsOf(exe, tracked)
           program == DevicePrograms[x][w][tracked]
<1> SUFFICES ASSUME program.ok
             PROVE  ProgramRun(exe, inputs, Mode, program, ch, resid).outs = Reference[x][w]
  BY DEF BoardAgrees
<1>1. Program[w] \in DOMAIN Executables /\ WellFormed(exe)
  BY SessionAssumption
<1>2. program = BoardProgram(exe, inputs, Mode, ids) /\ ids \in {<<>>, Images(exe)}
  BY DEF DevicePrograms, WeightsOf
<1>3. Reference[x][w] = SoftwareRun(exe, inputs, Mode, NothingResident, <<>>).outs
  BY DEF Reference
<1>4. Len(inputs) = Len(exe.inputs) => InRange(exe, inputs, Mode)
  BY SessionAssumption
<1> HIDE DEF exe, inputs, ids, program
<1>5. InRange(exe, inputs, Mode)
  BY <1>1, <1>2, <1>4, ProgramIs, ProgramAccepted DEF Accepted
<1> QED
  BY <1>1, <1>2, <1>3, <1>5, BackendsEqual

-----------------------------------------------------------------------------
(* The results of calls.                                                   *)

\* A run that succeeds has the results of the wave, whatever it finds resident
\* and in the chip.
RunnersAgree ==
  \A x \in Samples, w \in DOMAIN Program, tracked \in BOOLEAN :
     /\ \A resid : SoftwareAgrees(x, w, tracked, resid)
     /\ \A ch, resid :
          IsChip(ch) /\ IsTable(resid) /\ Holds(ch, resid) => BoardAgrees(x, w, tracked, ch, resid)

\* Both backends compute what a software runner of its own would.
LEMMA BackendsAlike == RunnersAgree
BY SoftwareHolds, BoardHolds DEF RunnersAgree

\* The results of the first n waves of a call, which met an error or did not.
Results(outs, n, x, bad) ==
  \A w \in 1..n :
     /\ w < bad => outs[w] = Reference[x][w]
     /\ w > bad => outs[w] = Zeroed(Executables[Program[w]])
Progress(outs, n, x, failed) ==
  IF failed THEN \E bad \in 1..n : Results(outs, n, x, bad)
  ELSE \A w \in 1..n : outs[w] = Reference[x][w]
\* A call goes right up to its error, and one that returned went right.
ProgressInv ==
  \A t \in Threads :
    /\ calls[t].kind = "invoke" =>
         Progress(calls[t].outs, Len(calls[t].outs), calls[t].sample, error)
    /\ Returned(t, "invoke") =>
         LET call == calls[t].call
         IN Progress(call.outs, Len(Program), call.sample, calls[t].code # 0)

\* A wave more of a call.
LEMMA ProgressGoesOn ==
  ASSUME NEW n \in Nat, NEW outs, NEW then, NEW x, NEW failed \in BOOLEAN, NEW fails \in BOOLEAN,
         Progress(outs, n, x, failed), \A w \in 1..n : then[w] = outs[w],
         \/ failed /\ fails /\ then[n + 1] = Zeroed(Executables[Program[n + 1]])
         \/ ~failed /\ (fails \/ then[n + 1] = Reference[x][n + 1])
  PROVE  Progress(then, n + 1, x, fails)
<1>1. CASE failed /\ fails
  <2>1. PICK bad \in 1..n : Results(outs, n, x, bad)
    BY <1>1 DEF Progress
  <2>2. Results(then, n + 1, x, bad)
    <3> SUFFICES ASSUME NEW w \in 1..n + 1
                 PROVE  /\ w < bad => then[w] = Reference[x][w]
                        /\ w > bad => then[w] = Zeroed(Executables[Program[w]])
      BY DEF Results
    <3>1. CASE w = n + 1
      BY <1>1, <3>1
    <3>2. CASE w # n + 1
      <4>1. w \in 1..n /\ then[w] = outs[w]
        BY <3>2
      <4> QED
        BY <2>1, <4>1 DEF Results
    <3> QED
      BY <3>1, <3>2
  <2> QED
    BY <1>1, <2>2 DEF Progress
<1>2. CASE ~failed /\ fails
  <2>1. Results(then, n + 1, x, n + 1)
    BY <1>2 DEF Results, Progress
  <2> QED
    BY <1>2, <2>1 DEF Progress
<1>3. CASE ~failed /\ ~fails
  <2> SUFFICES ASSUME NEW w \in 1..n + 1 PROVE then[w] = Reference[x][w]
    BY <1>3 DEF Progress
  <2>1. w = n + 1 \/ w \in 1..n
    OBVIOUS
  <2> QED
    BY <1>3, <2>1 DEF Progress
<1> QED
  BY <1>1, <1>2, <1>3

\* A wave that is dispatched is a wave of the Program and of a sample.
LEMMA DispatchDomain ==
  ASSUME CallInv, NEW t \in Threads, Dispatching(t)
  PROVE  /\ calls[t].sample \in Samples /\ WaveOf(t) \in DOMAIN Program
         /\ residency \in BOOLEAN
<1>1. Invoking(t) /\ residency \in BOOLEAN /\ WaveOf(t) <= Len(Program)
  BY DEF CallInv, Dispatching, Calling
<1>2. Len(Program) \in Nat /\ DOMAIN Program = 1..Len(Program)
  BY SessionAssumption
<1>3. calls[t].sample \in Samples /\ Len(calls[t].outs) \in 0..Len(Program)
  BY <1>1 DEF Invoking
<1> QED
  BY <1>1, <1>2, <1>3 DEF WaveOf

\* What a dispatch writes is its results, or the call has failed.
LEMMA DispatchRight ==
  ASSUME RunnersAgree, IInv, CallInv, BoardInv, NEW t \in Threads,
         \/ DispatchSkipped(t) \/ DispatchUnconfigured(t) \/ DispatchSoftware(t)
         \/ DispatchRefused(t) \/ DispatchUSB(t) \/ DispatchFault(t) \/ DispatchRejected(t)
  PROVE  \E o :
           /\ Dispatching(t) /\ Written(t, o) /\ error' \in BOOLEAN
           /\ \/ error /\ error' = error /\ o = Zeroed(Exe(t))
              \/ ~error /\ (error' \/ o = Reference[calls[t].sample][WaveOf(t)])
<1>1. CASE DispatchSkipped(t)
  BY <1>1 DEF DispatchSkipped
<1>2. CASE DispatchUnconfigured(t)
  BY <1>2 DEF DispatchUnconfigured
<1> DEFINE x == calls[t].sample  w == WaveOf(t)
<1>3. CASE DispatchSoftware(t)
  <2> DEFINE run == SoftwareRun(Exe(t), WaveInputs(t), Mode, softwareWeights, PreparedWeights(t))
  <2>1. /\ Dispatching(t) /\ ~error /\ error' = ~run.ok
        /\ Written(t, IF run.ok THEN run.outs ELSE Unchecked)
    BY <1>3 DEF DispatchSoftware
  <2>2. x \in Samples /\ w \in DOMAIN Program /\ residency \in BOOLEAN
    BY <2>1, DispatchDomain
  <2>3. SoftwareAgrees(x, w, residency, softwareWeights)
    BY <2>2 DEF RunnersAgree
  <2>4. run.ok => run.outs = Reference[x][w]
    BY <2>3 DEF SoftwareAgrees, Exe, WaveInputs, PreparedWeights
  <2> HIDE DEF run, x, w
  <2> QED
    BY <2>1, <2>4 DEF x, w
<1>4. CASE DispatchRefused(t) \/ DispatchFault(t) \/ DispatchRejected(t)
  <2>1. Dispatching(t) /\ ~error /\ Written(t, Unchecked) /\ error' = TRUE
    BY <1>4 DEF DispatchRefused, DispatchFault, DispatchRejected, OnRunner
  <2> QED
    BY <2>1
<1>5. CASE DispatchUSB(t)
  <2> DEFINE run == ProgramRun(Exe(t), WaveInputs(t), Mode, DeviceProgram(t), chip, device.resid)
  <2>1. /\ Dispatching(t) /\ ~error /\ ~Refused(t) /\ error' = ~run.ok
        /\ Written(t, IF run.ok THEN run.outs ELSE Unchecked)
    BY <1>5 DEF DispatchUSB, OnRunner
  <2>2. x \in Samples /\ w \in DOMAIN Program /\ residency \in BOOLEAN
    BY <2>1, DispatchDomain
  <2>3. BoardAgrees(x, w, residency, chip, device.resid)
    BY <2>2 DEF RunnersAgree, BoardInv
  <2>4. run.ok => run.outs = Reference[x][w]
    BY <2>1, <2>3 DEF BoardAgrees, Exe, WaveInputs, DeviceProgram, Refused
  <2> HIDE DEF run, x, w
  <2> QED
    BY <2>1, <2>4 DEF x, w
<1> QED
  BY <1>1, <1>2, <1>3, <1>4, <1>5

\* Calls go right.
LEMMA ProgressStep ==
  ASSUME RunnersAgree, IInv, CallInv, BoardInv, ProgressInv, [Next]_vars
  PROVE  ProgressInv'
<1> DEFINE Good(u) ==
             /\ calls[u].kind = "invoke" =>
                  Progress(calls[u].outs, Len(calls[u].outs), calls[u].sample, error)
             /\ Returned(u, "invoke") =>
                  Progress(calls[u].call.outs, Len(Program), calls[u].call.sample,
                           calls[u].code # 0)
\* A thread outside a call stays as it is, whatever becomes of the error.
<1>1. ASSUME NEW u \in Threads, calls'[u] = calls[u], calls[u].kind # "invoke" \/ error' = error
      PROVE  Good(u)'
  BY <1>1 DEF ProgressInv, Returned
<1>2. ASSUME NEW t \in Threads, lock \in {t, Free}, NEW code, NEW call, Return(t, code, call),
             call.kind = "invoke" => Progress(call.outs, Len(Program), call.sample, code # 0)
      PROVE  ProgressInv'
  <2>1. /\ calls'[t] = [kind |-> "returned", code |-> code, call |-> call]
        /\ \A u \in Threads \ {t} : calls'[u] = calls[u] /\ calls[u].kind # "invoke"
    BY <1>2, SessionAssumption DEF IInv, CallsShape, Exclusive, Return, Outside
  <2>2. Good(t)'
    BY <1>2, <2>1 DEF Returned
  <2> HIDE DEF Good
  <2>3. \A u \in Threads : Good(u)'
    BY <1>1, <2>1, <2>2
  <2> QED
    BY <2>3 DEF Good, ProgressInv
<1>3. ASSUME NEW t \in Threads, NEW x \in Samples, InvokeBegin(t, x)
      PROVE  ProgressInv'
  <2>1. /\ calls'[t] = Invocation(x) /\ error' = FALSE
        /\ \A u \in Threads \ {t} : calls'[u] = calls[u] /\ calls[u].kind # "invoke"
    BY <1>3, SessionAssumption DEF IInv, CallsShape, Exclusive, InvokeBegin, Enter, Outside
  <2>2. Progress(<<>>, 0, x, FALSE)
    BY DEF Progress
  <2>3. Good(t)'
    <3>1. calls'[t].kind = "invoke" /\ calls'[t].outs = <<>> /\ calls'[t].sample = x
      BY <2>1 DEF Invocation
    <3>2. Len(calls'[t].outs) = 0
      BY <3>1
    <3>3. Progress(calls'[t].outs, Len(calls'[t].outs), calls'[t].sample, error')
      BY <2>1, <2>2, <3>1, <3>2
    <3> QED
      BY <3>1, <3>3 DEF Returned
  <2> HIDE DEF Good
  <2>4. \A u \in Threads : Good(u)'
    BY <1>1, <2>1, <2>3
  <2> QED
    BY <2>4 DEF Good, ProgressInv
<1>4. ASSUME NEW t \in Threads,
             \/ DispatchSkipped(t) \/ DispatchUnconfigured(t) \/ DispatchSoftware(t)
             \/ DispatchRefused(t) \/ DispatchUSB(t) \/ DispatchFault(t) \/ DispatchRejected(t)
      PROVE  ProgressInv'
  <2> DEFINE outs == calls[t].outs  n == Len(calls[t].outs)  x == calls[t].sample
  <2>1. PICK o :
           /\ Dispatching(t) /\ Written(t, o) /\ error' \in BOOLEAN
           /\ \/ error /\ error' = error /\ o = Zeroed(Exe(t))
              \/ ~error /\ (error' \/ o = Reference[x][WaveOf(t)])
    BY <1>4, DispatchRight
  <2>2. /\ calls'[t].kind = "invoke" /\ calls'[t].sample = x
        /\ Len(calls'[t].outs) = WaveOf(t) /\ calls'[t].outs[WaveOf(t)] = o
        /\ \A i \in 1..n : calls'[t].outs[i] = outs[i]
        /\ \A u \in Threads \ {t} : calls'[u] = calls[u]
    BY <2>1, WroteWave
  <2>3. Invoking(t) /\ calls[t].kind = "invoke" /\ lock = t
    BY <2>1 DEF CallInv, Dispatching, Calling
  <2>4. n \in Nat /\ WaveOf(t) = n + 1
    <3>1. Len(Program) \in Nat
      BY SessionAssumption
    <3> QED
      BY <2>3, <3>1 DEF Invoking, WaveOf
  <2>5. Progress(outs, n, x, error)
    BY <2>3 DEF ProgressInv
  <2>6. \/ error /\ error' /\ o = Zeroed(Executables[Program[n + 1]])
        \/ ~error /\ (error' \/ o = Reference[x][n + 1])
    BY <2>1, <2>4 DEF Exe
  <2> DEFINE then == calls'[t].outs
  <2>7. then[n + 1] = o /\ Len(then) = n + 1 /\ \A i \in 1..n : then[i] = outs[i]
    BY <2>2, <2>4
  <2> HIDE DEF outs, n, x, then
  <2>8. Progress(then, n + 1, x, error')
    <3>1. CASE error
      <4>1. Progress(outs, n, x, TRUE) /\ error' = TRUE
        BY <2>1, <2>5, <2>6, <3>1 DEF Progress
      <4>2. then[n + 1] = Zeroed(Executables[Program[n + 1]])
        BY <2>6, <2>7, <3>1
      <4> QED
        BY <2>4, <2>7, <4>1, <4>2, ProgressGoesOn
    <3>2. CASE ~error
      <4>1. Progress(outs, n, x, FALSE)
        BY <2>5, <3>2 DEF Progress
      <4>2. error' \/ then[n + 1] = Reference[x][n + 1]
        BY <2>6, <2>7, <3>2
      <4> QED
        BY <2>1, <2>4, <2>7, <4>1, <4>2, ProgressGoesOn
    <3> QED
      BY <3>1, <3>2
  <2>9. Good(t)'
    BY <2>2, <2>7, <2>8 DEF Returned, then
  <2>10. \A u \in Threads \ {t} : calls'[u] = calls[u] /\ calls[u].kind # "invoke"
    BY <2>2, <2>3 DEF IInv, Exclusive, Outside
  <2> HIDE DEF Good
  <2>11. \A u \in Threads : Good(u)'
    BY <1>1, <2>9, <2>10
  <2> QED
    BY <2>11 DEF Good, ProgressInv
<1>5. ASSUME NEW t \in Threads, InvokeEnd(t)
      PROVE  ProgressInv'
  <2>1. /\ Calling(t, "invoke") /\ WaveOf(t) > Len(Program)
        /\ Return(t, IF error THEN 1 ELSE 0, calls[t])
    BY <1>5 DEF InvokeEnd
  <2>2. Len(calls[t].outs) = Len(Program)
    <3>1. Invoking(t) /\ Len(Program) \in Nat
      BY <2>1, SessionAssumption DEF CallInv, Calling
    <3>2. Len(calls[t].outs) \in 0..Len(Program)
      BY <3>1 DEF Invoking
    <3> QED
      BY <2>1, <3>1, <3>2 DEF WaveOf
  <2>3. Progress(calls[t].outs, Len(Program), calls[t].sample, error)
    BY <2>1, <2>2 DEF ProgressInv, Calling
  <2>4. Progress(calls[t].outs, Len(Program), calls[t].sample, (IF error THEN 1 ELSE 0) # 0)
    BY <2>3 DEF Progress
  <2>5. lock \in {t, Free}
    BY <2>1 DEF Calling
  <2> QED
    BY <1>2, <2>1, <2>4, <2>5
<1>6. ASSUME NEW t \in Threads,
             \/ InvokeRefused(t) \/ ConfigureRefused(t) \/ ConfigureFailed(t)
             \/ ConfigureOpen(t) \/ \E c \in Captures : Capture(t, c[1], c[2])
      PROVE  ProgressInv'
  <2>1. PICK code : Return(t, code, NoResults) /\ lock \in {t, Free}
    BY <1>6 DEF InvokeRefused, ConfigureRefused, ConfigureFailed, ConfigureOpen, Capture, Calling
  <2>2. NoResults.kind # "invoke"
    BY DEF NoResults
  <2> QED
    BY <1>2, <2>1, <2>2
<1>7. ASSUME NEW t \in Threads, ConfigureClose(t)
      PROVE  ProgressInv'
  <2>1. /\ calls'[t].kind = "configure" /\ error' = error
        /\ \A u \in Threads \ {t} : calls'[u] = calls[u]
    BY <1>7 DEF IInv, CallsShape, ConfigureClose, Enter, Configure
  <2>2. Good(t)'
    BY <2>1 DEF Returned
  <2> HIDE DEF Good
  <2>3. \A u \in Threads : Good(u)'
    BY <1>1, <2>1, <2>2
  <2> QED
    BY <2>3 DEF Good, ProgressInv
<1>8. CASE ReceiveFails \/ UNCHANGED vars
  <2>1. UNCHANGED <<calls, error>>
    BY <1>8 DEF ReceiveFails, vars
  <2> QED
    BY <2>1 DEF ProgressInv, Returned
<1> QED
  BY <1>3, <1>4, <1>5, <1>6, <1>7, <1>8 DEF Next

\* Calls go right.
LEMMA ResultsHold == Spec => []ProgressInv
<1>1. Init => ProgressInv
  BY DEF Init, ProgressInv, Returned, Idle
<1>2. IInv /\ CallInv /\ BoardInv /\ OpenInv /\ ProgressInv /\ [Next]_vars => ProgressInv'
  BY BackendsAlike, ProgressStep
<1> QED
  BY <1>1, <1>2, SessionRight, PTL DEF Spec

\* An invocation that returns zero has the results of its own sample in every
\* wave, whatever other threads, calls, failures or residents came before it and
\* whichever backend ran it: those a software runner of its own would give.
THEOREM ResultsCorrect == Spec => []ResultsRight
<1>1. ProgressInv => ResultsRight
  <2> SUFFICES ASSUME ProgressInv, NEW t \in Threads, Returned(t, "invoke"), calls[t].code = 0,
                      NEW w \in DOMAIN Program
               PROVE  calls[t].call.outs[w] = Reference[calls[t].call.sample][w]
    BY DEF ResultsRight
  <2>1. Progress(calls[t].call.outs, Len(Program), calls[t].call.sample, calls[t].code # 0)
    BY DEF ProgressInv
  <2>2. w \in 1..Len(Program)
    BY SessionAssumption
  <2> QED
    BY <2>1, <2>2 DEF Progress
<1> QED
  BY <1>1, ResultsHold, PTL

\* An invocation that fails is right up to one wave and zero after it, on either
\* backend.
THEOREM FailsOnceCorrect == Spec => []FailsOnce
<1>1. ProgressInv => FailsOnce
  <2> SUFFICES ASSUME ProgressInv, NEW t \in Threads, Returned(t, "invoke"), calls[t].code # 0
               PROVE  \E bad \in DOMAIN Program :
                        \A w \in DOMAIN Program :
                          /\ w < bad => calls[t].call.outs[w] =
                                          Reference[calls[t].call.sample][w]
                          /\ w > bad => calls[t].call.outs[w] =
                                          Zeroed(Executables[Program[w]])
    BY DEF FailsOnce
  <2>1. Progress(calls[t].call.outs, Len(Program), calls[t].call.sample, calls[t].code # 0)
    BY DEF ProgressInv
  <2>2. PICK bad \in 1..Len(Program) :
          Results(calls[t].call.outs, Len(Program), calls[t].call.sample, bad)
    BY <2>1 DEF Progress
  <2>3. DOMAIN Program = 1..Len(Program)
    BY SessionAssumption
  <2> QED
    BY <2>2, <2>3 DEF Results
<1> QED
  BY <1>1, ResultsHold, PTL
=============================================================================
