----------------------------- MODULE CIMSession -----------------------------
(***************************************************************************)
(* A loaded model: invocations, USB configuration and raw capture under    *)
(* the mutex of the Session, over one backend.  An invocation is the waves *)
(* of the generated Host program in order, each a dispatch of one          *)
(* transaction.  The Session owns what outlives a call: the error text, a  *)
(* USB device and its runner, and the weights its backend keeps resident.  *)
(*                                                                         *)
(* The device is seen from above (UsbDevice models its inside): a program  *)
(* is executed whole, or fails after a prefix of its operations, and the   *)
(* receive loop may find an error at any time while the device is open.    *)
(* The chip keeps what was written to it whatever the device does.         *)
(***************************************************************************)
EXTENDS CIMRunners

CONSTANTS
  Threads,        \* threads that call the C interface
  Executables,   \* sequence: the executables of the model
  Program,        \* sequence: the transaction each wave dispatches
  Samples,        \* what the waves are given: a sequence per invocation
  Captures,       \* what is captured: pairs of a transaction and its inputs
  Mode,           \* compensation mode of the generated calls
  MaxMishaps      \* bound: failures of the environment in a behaviour

Free == "free"     \* session.mutex has no holder

ASSUME SessionAssumption ==
  /\ Free \notin Threads
  /\ MaxMishaps \in Nat
  /\ Program \in Seq(DOMAIN Executables)
  /\ \A c \in Captures : c[1] \in DOMAIN Executables
  /\ \A i \in DOMAIN Executables : WellFormed(Executables[i])
  /\ \A x \in Samples : Len(x) = Len(Program)
  /\ \A x \in Samples, w \in DOMAIN Program :
       Len(x[w]) = Len(Executables[Program[w]].inputs) =>
         InRange(Executables[Program[w]], x[w], Mode)

VARIABLES
  backend,          \* model.backend: "software" or "usb"
  residency,        \* enableWeightResidency
  lock,             \* the holder of session.mutex, or Free
  calls,            \* what every thread calls, or what its last call returned
  error,            \* whether session.error is not empty
  dispatches,       \* session.dispatches
  device,           \* session.device
  runner,           \* whether session.runner exists
  chip,             \* the board behind the device
  softwareWeights,  \* session.softwareWeights
  mishaps

vars == <<backend, residency, lock, calls, error, dispatches, device, runner, chip,
          softwareWeights, mishaps>>
model == <<backend, residency>>

Idle == [kind |-> "idle"]
NoResults == [kind |-> "other"]     \* of a call that is not an invocation
\* made: session.device is not null; failed: isFaulted() would say so.
NoDevice == [made |-> FALSE, open |-> FALSE, failed |-> FALSE, resid |-> NothingResident]
OpenDevice == [made |-> TRUE, open |-> TRUE, failed |-> FALSE, resid |-> NothingResident]
Invocation(x) == [kind |-> "invoke", sample |-> x, outs |-> <<>>]

Init ==
  /\ backend \in {"software", "usb"} /\ residency \in BOOLEAN
  /\ lock = Free /\ calls = [t \in Threads |-> Idle]
  /\ error = FALSE /\ dispatches = 0
  /\ device = NoDevice /\ runner = FALSE /\ chip = Chip
  /\ softwareWeights = NothingResident
  /\ mishaps = 0

Mishap == mishaps < MaxMishaps /\ mishaps' = mishaps + 1
Calling(t, kind) == lock = t /\ calls[t].kind = kind
\* Takes the lock for a call of thread t.
Enter(t, call) ==
  /\ lock = Free /\ calls[t].kind \in {"idle", "returned"}
  /\ lock' = t /\ calls' = [calls EXCEPT ![t] = call]
Return(t, code, call) ==
  /\ lock' = Free
  /\ calls' = [calls EXCEPT ![t] = [kind |-> "returned", code |-> code, call |-> call]]

-----------------------------------------------------------------------------
(* Invocation.                                                             *)

InvokeBegin(t, x) ==
  /\ Enter(t, Invocation(x))
  /\ error' = FALSE /\ dispatches' = 0
  /\ UNCHANGED <<model, device, runner, chip, softwareWeights, mishaps>>

\* Buffers that do not fit the model: nothing runs.
InvokeRefused(t) ==
  /\ lock = Free /\ calls[t].kind \in {"idle", "returned"}
  /\ error' = TRUE /\ dispatches' = 0
  /\ Return(t, 1, NoResults)
  /\ UNCHANGED <<model, device, runner, chip, softwareWeights, mishaps>>

WaveOf(t) == Len(calls[t].outs) + 1
Exe(t) == Executables[Program[WaveOf(t)]]
WaveInputs(t) == calls[t].sample[WaveOf(t)]
\* Once per transaction: the identities of its weights, none without residency.
WeightsOf(exe, tracked) == IF tracked THEN Images(exe) ELSE <<>>
PreparedWeights(t) == WeightsOf(Exe(t), residency)
\* The program of each wave, rejected where its inputs are.
DevicePrograms ==
  [x \in Samples |-> [w \in DOMAIN Program |-> [tracked \in BOOLEAN |->
     LET exe == Executables[Program[w]]
     IN BoardProgram(exe, x[w], Mode, WeightsOf(exe, tracked))]]]
DeviceProgram(t) == DevicePrograms[calls[t].sample][WaveOf(t)][residency]
\* What a dispatch leaves in its output before the backend writes it.
Zeroed(exe) == List(Len(exe.readbacks), LAMBDA i : List(Outs, LAMBDA r : 0))
Written(t, outs) == calls' = [calls EXCEPT ![t].outs = Append(@, outs)]
Dispatching(t) == Calling(t, "invoke") /\ WaveOf(t) <= Len(Program)
\* Outputs of a run that failed: whatever the backend had written.
Unchecked == <<>>

\* After an error the waves that follow only zero their outputs.
DispatchSkipped(t) ==
  /\ Dispatching(t) /\ error
  /\ Written(t, Zeroed(Exe(t)))
  /\ UNCHANGED <<model, lock, error, dispatches, device, runner, chip, softwareWeights,
                 mishaps>>
DispatchUnconfigured(t) ==
  /\ Dispatching(t) /\ ~error /\ backend = "usb" /\ ~runner
  /\ Written(t, Zeroed(Exe(t)))
  /\ error' = TRUE
  /\ UNCHANGED <<model, lock, dispatches, device, runner, chip, softwareWeights, mishaps>>
DispatchSoftware(t) ==
  /\ Dispatching(t) /\ ~error /\ backend = "software"
  /\ dispatches' = dispatches + 1
  /\ LET run == SoftwareRun(Exe(t), WaveInputs(t), Mode, softwareWeights, PreparedWeights(t))
     IN /\ Written(t, IF run.ok THEN run.outs ELSE Unchecked)
        /\ error' = ~run.ok
        /\ softwareWeights' = IF residency THEN run.resid ELSE softwareWeights
  /\ UNCHANGED <<model, lock, device, runner, chip, mishaps>>

\* Mutant: a fault does not forget what was resident.
Faulted_KeepsResidency(d) == [d EXCEPT !.failed = TRUE]
\* The device after an execute that failed, and after results were refused.
Faulted(d) == [d EXCEPT !.failed = TRUE, !.resid = NothingResident]
clearWeightResidency(d) == [d EXCEPT !.resid = NothingResident]
\* The chip after the first n operations of a program.
Prefix(program, n) ==
  Operated(chip, device.resid, program.operations, program.tracked)[n].chip
\* Mutant: an earlier error does not stop the waves that follow.
OnRunner_AfterError(t) ==
  /\ Dispatching(t) /\ backend = "usb" /\ runner
  /\ dispatches' = dispatches + 1
  /\ UNCHANGED <<model, lock, runner, softwareWeights>>
OnRunner(t) ==
  /\ Dispatching(t) /\ ~error /\ backend = "usb" /\ runner
  /\ dispatches' = dispatches + 1
  /\ UNCHANGED <<model, lock, runner, softwareWeights>>
Refused(t) == ~DeviceProgram(t).ok
DispatchRefused(t) ==
  /\ OnRunner(t) /\ Refused(t)
  /\ Written(t, Unchecked) /\ error' = TRUE
  /\ UNCHANGED <<device, chip, mishaps>>
DispatchUSB(t) ==
  /\ OnRunner(t) /\ ~Refused(t) /\ ~device.failed
  /\ LET run == ProgramRun(Exe(t), WaveInputs(t), Mode, DeviceProgram(t), chip, device.resid)
     IN /\ Written(t, IF run.ok THEN run.outs ELSE Unchecked)
        /\ error' = ~run.ok
        /\ chip' = run.chip /\ device' = [device EXCEPT !.resid = run.resid]
  /\ UNCHANGED mishaps
\* A fault found before the first operation, or a failure among them.
DispatchFault(t) ==
  /\ OnRunner(t) /\ ~Refused(t)
  /\ \/ device.failed /\ UNCHANGED <<chip, mishaps>>
     \/ /\ ~device.failed /\ Mishap
        /\ \E n \in 0..Len(DeviceProgram(t).operations) : chip' = Prefix(DeviceProgram(t), n)
  /\ device' = Faulted(device)
  /\ Written(t, Unchecked) /\ error' = TRUE
\* The device has executed, but a reply is refused, decoded or restored badly.
DispatchRejected(t) ==
  /\ OnRunner(t) /\ ~Refused(t) /\ ~device.failed /\ Mishap
  /\ chip' = Execute(chip, device.resid, DeviceProgram(t)).chip
  /\ device' = clearWeightResidency(device)
  /\ Written(t, Unchecked) /\ error' = TRUE

InvokeEnd(t) ==
  /\ Calling(t, "invoke") /\ WaveOf(t) > Len(Program)
  /\ softwareWeights' = IF error THEN NothingResident ELSE softwareWeights
  /\ Return(t, IF error THEN 1 ELSE 0, calls[t])
  /\ UNCHANGED <<model, error, dispatches, device, runner, chip, mishaps>>

-----------------------------------------------------------------------------
(* Configuration: the device is closed before it is asked whether it       *)
(* failed, so that an error its receive loop meets last is reported.       *)

Configure == [kind |-> "configure"]
\* A model that is not for USB, or a configuration that is not valid.
ConfigureRefused(t) ==
  /\ lock = Free /\ calls[t].kind \in {"idle", "returned"}
  /\ Return(t, 1, NoResults)
  /\ UNCHANGED <<model, error, dispatches, device, runner, chip, softwareWeights, mishaps>>
ConfigureClose(t) ==
  /\ backend = "usb" /\ Enter(t, Configure)
  /\ \/ device' = [device EXCEPT !.open = FALSE, !.resid = NothingResident]
        /\ UNCHANGED mishaps
     \/ /\ device.open /\ Mishap        \* closing meets an error or a late record
        /\ device' = [device EXCEPT !.open = FALSE, !.failed = TRUE,
                                    !.resid = NothingResident]
  /\ UNCHANGED <<model, error, dispatches, runner, chip, softwareWeights>>
\* A failed session is reported; only the next call opens a device again.
ConfigureFailed(t) ==
  /\ Calling(t, "configure") /\ device.failed
  /\ runner' = FALSE /\ device' = NoDevice
  /\ Return(t, 1, NoResults)
  /\ UNCHANGED <<model, error, dispatches, chip, softwareWeights, mishaps>>
\* Mutant: the device is replaced without asking whether it failed.
ConfigureOpen_Unchecked(t) ==
  /\ Calling(t, "configure")
  /\ device' = OpenDevice /\ runner' = TRUE
  /\ Return(t, 0, NoResults)
  /\ UNCHANGED <<model, error, dispatches, chip, softwareWeights, mishaps>>
ConfigureOpen(t) ==
  /\ Calling(t, "configure") /\ ~device.failed
  /\ \/ /\ device' = OpenDevice /\ runner' = TRUE
        /\ Return(t, 0, NoResults) /\ UNCHANGED mishaps
     \/ /\ Mishap /\ runner' = FALSE
        /\ \E failed \in BOOLEAN :
             device' = [OpenDevice EXCEPT !.open = FALSE, !.failed = failed]
        /\ Return(t, 1, NoResults)
  /\ UNCHANGED <<model, error, dispatches, chip, softwareWeights>>

\* The receive loop meets an error or a record nobody asked for.
ReceiveFails ==
  /\ device.open /\ ~device.failed /\ Mishap
  /\ device' = [device EXCEPT !.failed = TRUE]
  /\ UNCHANGED <<model, lock, calls, error, dispatches, runner, chip, softwareWeights>>

-----------------------------------------------------------------------------
(* Raw capture: an untracked program, whatever is resident.                *)

\* x: the inputs of transaction i.  Nothing changes when no device is
\* configured or the buffers do not fit.
Capture(t, i, x) ==
  LET program == BoardProgram(Executables[i], x, "none", <<>>)
      runs == backend = "usb" /\ runner /\ program.ok
      returns(code) == Return(t, code, NoResults) /\ error' = (code = 1)
  IN /\ lock = Free /\ calls[t].kind \in {"idle", "returned"}
     /\ \/ returns(1) /\ UNCHANGED <<device, chip, mishaps>>
        \/ /\ backend = "usb" /\ runner         \* refused, or an input that is not finite
           /\ device' = clearWeightResidency(device)
           /\ returns(1) /\ UNCHANGED <<chip, mishaps>>
        \/ /\ runs /\ device.failed
           /\ device' = Faulted(device)
           /\ returns(1) /\ UNCHANGED <<chip, mishaps>>
        \/ /\ runs /\ ~device.failed
           /\ chip' = Execute(chip, NothingResident, program).chip
           /\ device' = clearWeightResidency(device)
           /\ \/ returns(0) /\ UNCHANGED mishaps
              \/ returns(1) /\ Mishap           \* a reply is refused
        \/ /\ runs /\ ~device.failed /\ Mishap
           /\ \E n \in 0..Len(program.operations) : chip' = Prefix(program, n)
           /\ device' = Faulted(device) /\ returns(1)
     /\ UNCHANGED <<model, dispatches, runner, softwareWeights>>

Next ==
  \/ \E t \in Threads :
       \/ \E x \in Samples : InvokeBegin(t, x)
       \/ InvokeRefused(t)
       \/ DispatchSkipped(t) \/ DispatchUnconfigured(t) \/ DispatchSoftware(t)
       \/ DispatchRefused(t) \/ DispatchUSB(t) \/ DispatchFault(t) \/ DispatchRejected(t)
       \/ InvokeEnd(t)
       \/ ConfigureRefused(t) \/ ConfigureClose(t) \/ ConfigureFailed(t) \/ ConfigureOpen(t)
       \/ \E c \in Captures : Capture(t, c[1], c[2])
  \/ ReceiveFails

Spec == Init /\ [][Next]_vars

-----------------------------------------------------------------------------
(* What a wave computes on a runner and a chip of its own.                 *)
Reference ==
  [x \in Samples |-> [w \in DOMAIN Program |->
     SoftwareRun(Executables[Program[w]], x[w], Mode, NothingResident, <<>>).outs]]
Returned(t, kind) == calls[t].kind = "returned" /\ calls[t].call.kind = kind

\* An invocation that returns zero has the results of its own sample in every
\* wave: nothing an earlier or another call left in the session, the device or
\* the chip (a resident weight, a chip half written, an error) shows in them.
ResultsRight ==
  \A t \in Threads : Returned(t, "invoke") /\ calls[t].code = 0 =>
    LET call == calls[t].call
    IN \A w \in DOMAIN Program : call.outs[w] = Reference[call.sample][w]

\* An invocation that fails fails in one wave: those before it are right, those
\* after it are zero, and the backend has seen none of them.
FailsOnce ==
  \A t \in Threads : Returned(t, "invoke") /\ calls[t].code # 0 =>
    LET call == calls[t].call
    IN \E bad \in DOMAIN Program :
         \A w \in DOMAIN Program :
           /\ w < bad => call.outs[w] = Reference[call.sample][w]
           /\ w > bad => call.outs[w] = Zeroed(Executables[Program[w]])

\* What the device calls resident is in the chip, whatever failed since it was
\* written and whoever opened the device.
ResidencyTrue ==
  \A s \in Slots :
    device.resid[s] # NoImage => device.open /\ chip.weights[s] = device.resid[s].image

\* A session that failed is never followed by another one silently: the call
\* that drops the failed device returns an error and leaves no runner.
FaultReported ==
  [][device.failed /\ ~device'.failed =>
       /\ ~runner'
       /\ \E t \in Threads : /\ lock = t /\ calls'[t].kind = "returned"
                             /\ calls'[t].code # 0]_vars
=============================================================================
