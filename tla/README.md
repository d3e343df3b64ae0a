# A TLA+ verification project for mlir-cim22

mlir-cim22 compiles ONNX and TensorFlow models to a CIM22 accelerator
(computing in memory: Cores hold Macros, Macros hold weights) and runs them on
a simulator or on a board behind an FX3 USB bridge.  The modules here model the
parts of it that keep state while several actors act -- the USB session, where
a calling thread, a receive thread, a driver and a board meet, the two drivers
below it, the runtime session above it, and the web service with its worker
processes -- and the compiler between a program and the packets both backends
run.  They are checked with TLC on small instances, and the main results are
proved with TLAPS for every value of the constants.

    tlc -config usb_readback.cfg MCUsbDevice      # one run
    tlc -config libusb_safety.cfg LibusbDriver
    tlapm UsbDeviceProofs.tla                     # about five minutes; then UsbExecuteProofs,
                                                  # UsbAnswersProofs
    tlc -config web_safety.cfg MCWebTask
    tlc -config compile.cfg MCCompiler            # every pass, 26 programs
    tlc -config session.cfg MCSession
    tlapm LibusbDriverProofs.tla                  # and CyApiDriverProofs, WebTaskProofs,
                                                  # CIMRunnersProofs, CIMSessionProofs

## 1. The system: inventory

| Component | Source | State it keeps | Operations |
|---|---|---|---|
| USB device session | `lib/Runtime/UsbCIMDevice.cpp` | opened, faulted, verified PLL word, residency table (under `executionMutex_`); receive queue, partial packets, budget, error, stop flag (under `receiveMutex_`) | open, execute, close, isFaulted, weightStats, clearWeightResidency; receive loop |
| USB driver contract | `lib/Runtime/UsbDriver.h` | none (interface) | open, write, read, cancel, drain, close |
| Linux driver | `lib/Runtime/LibusbUsbDriver.cpp` | handle, one IN transfer (pending, complete, cancel requested), sticky read error | the contract, completion callback |
| Windows driver | `lib/Runtime/CyApiUsbDriver.cpp` | one overlapped IN request, cancelled, quarantined | the contract |
| PLL serial | `lib/Runtime/PLLSerial.cpp` | none between calls | configurePLL: write a word, wait for its echo |
| Record codec | `lib/Runtime/UsbRecordCodec.cpp` | carry of an incomplete 12-byte record | append, encode |
| Packet codec | `lib/Support/CIMPacketCodec.cpp` | none | encode and decode header and body flits |
| Board runner | `lib/Runtime/CIMBoardRunner.cpp` | none between runs; drives the session | build a device program, validate the response, restore INT8/BF16 results |
| Runtime session | `lib/Runtime/Runtime.cpp`, `Session.h` | under one mutex: error, dispatch count, device, board runner, prepared weights and residency of the simulator | configureUsb, invoke, dispatch, capture |
| Model data | `lib/Runtime/ModelData.cpp` | none | parse and bind a model container |
| Software runner | `lib/Execution/CIMSoftwareRunner.cpp` | residency table of the simulator; a plan of waves | plan, run |
| BF16 | `lib/Execution/BF16Compensation.cpp`, `lib/Support/BF16Support.cpp` | none | pre-alignment, rounding, compensation |
| Target | `lib/Target/*.cpp` | none | executable serialisation, RTL export, frame codec |
| LinalgToCIM | `lib/Conversion/LinalgToCIM/*.cpp` | the IR | normalization, bias folding, sign splitting, outlining, tiling, schedule, execution plan, plan verifier |
| CIM, CIMFrame | `lib/Dialect` | the IR | static weight section, packets |
| Pipelines | `lib/Compiler/Pipelines.cpp` | the IR | order of passes, waves as calls of the Host, grouping of waves by weights |
| ONNX import | `lib/Frontend/ONNX/Importer.cpp` | none | structural import |
| Python runtime and compiler | `python/cim22/*.py` | a native handle and its lifetime | ctypes calls, child processes |
| Web tasks | `python/cim22/web/*.py` | task files, worker processes, locks | import, start, cancel, reap, recover, close |
| Web front end | `web/src` | view state | polling |

How they interact: the Python runtime calls the runtime session through a C
interface; the session builds an executable's actions and gives them either to
the software runner or to the board runner; the board runner turns them into a
`CIMDeviceProgram` and calls `execute` of the USB session; the session writes
flits through the driver and its receive thread feeds what the driver reads
back.  The web manager runs the Python runtime in worker processes and talks to
them through files and signals.

Behaviours that are hard to test, each with its line, are the `hazards` of
`PROJECT.json`.  In short: two threads share the receive state of the USB
session under a lock but decide by what they read before; replies carry neither
a Macro nor a session; packets have no boundary marks; a failed write leaves a
slot undefined while a table claims to know it; closing cancels, joins and
drains in an order that must not lose the tail; a libusb completion may run on
any thread that pumps events; the web manager and its worker save the same
files, and either may die between two of them.

What makes each part correct:

* USB session: an answer is complete and belongs to the request; the caches
  agree with the chip; received bytes never disappear unnoticed; a fault blocks
  execution until open; calls return; no false alarms.
* Drivers: bytes are handed over once and in order, a transfer's buffer outlives
  its completion, close ends.
* Runners: both compute what the program computes and accept the same
  transactions; a failure leaves no residency behind.
* Runtime session: a result is that of its own inputs whatever other calls left
  behind; a failed wave stops those after it; a failed device is reported.
* Codecs and arithmetic: decode inverts encode, refusals are exact, rounding
  matches a reference.
* Compiler: every pass keeps what the program computes, no value is read before
  it is computed, and what one pass admits no later one refuses.
* Web tasks: a task ends in one final state, a result is whole or absent, a
  restart never runs a task twice.

## 2. Plan

1. `UsbDevice` -- **done**: the session, its receive thread and their
   environment; `MCUsbDevice` with three runs; `UsbDeviceProofs`,
   `UsbExecuteProofs`, `UsbAnswersProofs`.
2. **done**: `UsbDriver`, the driver contract as an abstract byte stream, and
   `LibusbDriver` and `CyApiDriver`, each shown to implement it (refinement
   mapping), with their completion callbacks, failed cancels and quarantine;
   `LibusbDriverProofs` and `CyApiDriverProofs` prove it.
3. **done**: the compiler as pure operators, one module per phase
   (`CIMProgram`, `CIMNormalize`, `CIMSigns`, `CIMForm`, `CIMSchedule`,
   `CIMExecutable`, `CIMWaves`), an evaluator (`CIMMeaning`) and the pass manager
   (`CIMCompiler`, `MCCompiler`).
4. **done**: `CIMRunners`, the two backends of a compiled transaction, and
   `CIMSession`, the runtime session over both; `CIMRunnersProofs`,
   `CIMSessionProofs`.
5. `WebTask` -- **done**: the service, its workers and their files, with crashes,
   kills, saves that fail and weights that change; `MCWebTask`, `WebTaskProofs`.
6. Left: floats at the ends of the exponent range, the remaining layouts of
   convolutions, `LowerHostCopies`, and the bit layouts of packets and records.

Abstract specifications: the driver's byte stream (`UsbDriver`), and for the
compiler the meaning of the source program (`expected` in `CIMCompiler`).  The
session's device is `UsbDevice` seen from above.  The theorems cover every safety
property that a passing run checks of `UsbDevice`, the drivers, the session and
the web service, some under a hypothesis that section 8 names (a board that is
quiet when a driver opens, a disk that works, weights that stay), and that the
two backends agree on every transaction of the shape the compiler gives; what is
left to the model checker is listed there.

## 3. UsbDevice

### State and code

| Variables | Code |
|---|---|
| `opened`, `faulted`, `verifiedPLL`, `resident` | `opened_`, `transportFaulted_`, `verifiedPLLWord_`, the `WeightResidency` table; under `executionMutex_` |
| `stopRequested`, `loopStarted`, `receiveError`, `responses`, `partial`, `remaining`, `codecHalf` | `stopRequested_`, `receiveLoopStarted_`, `receiveError_`, the packet queue, the partial packet of each channel, the receive budget, the carry of `UsbRecordCodec`; under `receiveMutex_` |
| `reader`, `chunk`, `chunkHalf` | the receive thread's place and the bytes between its read and its append |
| `pc`, `after`, `program`, `opIndex`, ... | the call in progress and the locals of `open`, `execute`, `executeWeight`, `executeReadback`, `closeUnlocked` |
| `driverOpen`, `cancelled`, `linkUp`, `wire`, `wireHalf` | the driver and the bytes the host controller holds |
| `slots`, `pllRegister`, `selected`, `work`, `owed`, `sending` | the chip: weights, clock, Macro selection, last computation, replies it owes, packets half sent |
| `mishaps`, `timedOut` | history: how often the environment failed, and whether a wait ran out |

One action is what a thread does between two points where the other thread can
be seen: a critical section of `receiveMutex_`, a driver call, a serial
transaction.  `executionMutex_` admits one API call at a time, so one program
counter stands for all callers.  `appendReceived` holds `receiveMutex_` for the
whole chunk; it is split per record for readability, and `LockFree` keeps the
caller out meanwhile.

Actions follow the code: `Open`/`Close` start `closeUnlocked` (`BeginClose`,
`DriverCancel`, `Join`, the drain loop, `DriverClose`), `open` goes on with
`OpenDriver` and waits for the receive thread, `Execute` runs `Begin`,
`configurePhase`, the operations (`WeightHit` or writes), the batches
(`StartBatch`, `Arm`, `TakeResponse`, `Seal`) and `Finish`, which stores the
staged weights.  `Fault` is `fault()`: both caches are forgotten.

### Environment

The driver returns any split of the stream, also inside a record; writes may be
short; reads, writes, drains and serial transactions may fail; the board
answers each target of a request once, in any order, interleaving channels; a
flit may be lost or damaged, in the record's reserved bits or in a way only the
packet decoder sees; the board may lose power.  A write that fails lands whole,
in part or not at all.  A request that lands in part may be answered in part.
Failures are counted and bounded by `MaxMishaps`.

Assumptions: programs are of the shape `CIMBoardRunner` builds
(`ProgramAssumption`: a program that uses the residency table has deferred
weights only, and only Configuration operations name a slot); the Channels are
finitely many, as in the packet header; `None` is not a place in a packet
(`SendingAssumption`); the board does not answer a target twice.  `BoardQuiet` says that
a board has nothing left to send when a driver opens.  `CIMDevice.h` makes
recovery a separate operation, and with a board that is not recovered a late
reply of an earlier session can be taken for an answer; so `AnswersComplete` and
`ComputedAsAsked` are checked with `BoardQuiet`, and `usb_reopen` drops it for
the properties that hold without.

Left out: statistics counters, startup and settle delays (a wait is a step),
texts of errors, empty flits and invalid transfer lengths (refused at once),
the record and packet bit layouts (a flit is a value with a place and a damage).

### Properties

| Property | What it says |
|---|---|
| `ResidencyPhysical` | what a transaction would skip as a hit is in the physical slot |
| `PLLPhysical` | the verified word is in the register |
| `AnswersComplete` | a successful execute has one whole, sound, in-order packet per target, of this call and this Macro |
| `ComputedAsAsked` | and it was computed in this call from the weights and clocks asked for |
| `BudgetExact` | admitted + in delivery + partial + queued + taken = the batch |
| `NoFalseAlarm` | without failures nothing faults |
| `DriverProtocol` | the caller's side of the driver contract |
| `EvidenceKept` | bytes handed over keep the session suspect until taken |
| `CallsReturn` | every call returns |

### Runs

| Run | Instance | Shows |
|---|---|---|
| `usb_readback` | two Macros with the same two reply keys, two channels, three flits per packet, two calls, two failures (1.6M states) | `TypeOK`, `AnswersComplete`, `BudgetExact`, `NoFalseAlarm` |
| `usb_residency` | one slot, two weights, a clock per phase, prepared and raw programs, five calls, short writes, one failure (2.2M) | `ResidencyPhysical`, `PLLPhysical`, `ComputedAsAsked` |
| `usb_reopen` | malformed programs, four calls with reopening, a board that is not quiet, no symmetry (199k) | `DriverProtocol`, `EvidenceKept`, `CallsReturn` |

Bounds and why they are enough: three flits per packet make a header, a body
and a place where a shifted packet is noticed only in the middle; two channels
interleave and a third adds no new relation between packets of one channel;
two Macros with shared keys are what a missing Macro identifier confuses; one
slot with two weights is what the table can be wrong about, as slots do not
interact; two failures let one hide the other; five calls let a fault, a
reopen, a raw program and two prepared programs follow each other, four a use, a
fault, a reopening and another use.  Deadlock is
not checked: after `MaxCalls` calls, and between calls, the system rests.

Fairness: `WF(Caller)` and `WF(Reader)`.  Both are threads the operating system
schedules and every wait of theirs has a deadline: a read polls or is ended by
cancel, writes have a transfer timeout, `takeResponse` and the start of the loop
have deadlines.  New calls, the board and its failures get none.  A driver whose
cancel fails is outside this assumption (section 4).

Each property has a mutant, a plausible bug (a cache not cleared on a fault, a
budget one short, a channel not reset, a close that does not join, ...) under
which its run finds a violation; the mutants stand before the definitions they
alter.

## 4. The drivers

### The contract and its two implementations

`UsbDriver` states what `UsbDriver.h` promises of a session's IN stream, with
its bytes numbered 1, 2, 3, ...: read hands over a longer prefix each time until
the session stops, drain the rest; drain ends only when everything received is
handed over and nothing can follow, or after an error; an error lasts until
close.  Bytes may arrive at any time while a session is open.

`LibusbDriver` is the Linux driver.  Variables are the members `readMutex_`
protects, the transfer as libusb sees it, and the place of the reader and of the
caller as `UsbCIMDevice` uses the driver (open, writes, cancel, join, drain,
close).  One action is one critical section.  `Dispatch` is the completion
callback; it runs on whichever thread handles events: the reader in `read`
(`ReaderEvents`), the caller inside a synchronous OUT transfer
(`WriteDispatches`), in drain (`DrainEvents`) or in close (`CloseWaits`).  A
transfer ends by itself, fails, or is retired once cancelled, and keeps the bytes
that landed; submission, cancel and event handling may fail.

`CyApiDriver` is the Windows driver, which has no lock: an action is what a
thread does up to its next look at the atomic `cancelled_` or call of CyAPI, so
a cancel may fall between the test in `read` and the request it begins.  `drain`
takes a request that completed, or aborts it and waits; an abort that does not
return in time leads to `Quarantine`.  An aborted request reports no bytes, so
the stream of this driver consists of completed requests; whether bytes can land
in an aborted one is CyAPI's business.

The steps of `open` before the first submission are one action with its failure.
`write` is UsbDevice's subject as far as its bytes go; here it matters as a
place where completions are dispatched (Linux) and not at all (Windows).

### Properties and runs

| Property | What it says |
|---|---|
| `Contract` | the driver implements `UsbDriver` |
| `BufferOwnership` | storage libusb or the kernel may write is never freed or reused; on Windows also that drain and close are alone |
| `ErrorsJustified` | no error without a failure of the environment: an expected cancellation is none |
| `CloseReturns` | a session that stops ends, unless libusb refused to cancel a live transfer |
| `TypeOK` | a transfer never writes past its buffer |

| Run | Instance | Shows |
|---|---|---|
| `libusb_safety` | chunks of two bytes, six bytes, two sessions, two failures, cancel may fail (21k states) | all five |
| `cyapi_driver` | requests of two bytes, three sessions, two failures, aborts that may not return (3.6k) | all five |

Two bytes make a transfer empty, partial and full; two sessions show what close
forgets; two failures let one hide the other; the third Windows session is
refused after a quarantine.  Deadlock is not checked, as a driver that is closed
for the last time rests.

Fairness: both threads run, event handling returns after its poll timeout, an
OUT transfer after its own.  On Linux libusb must retire what it accepted to
cancel, since close waits for the completion without a limit; a
`libusb_cancel_transfer` that fails on a live transfer is not tried again
(`cancelRequested_` is set all the same), and then close waits until the board
sends or the bus fails.  `CloseReturns` excepts that case (`CancelRefused`) and no other.  On Windows every
wait has a limit, and `CloseReturns` assumes nothing of the kernel.

## 5. The compiler

### Modules

A program is a record: a body of operations in SSA order and the values it
returns.  Tensors are sequences in row-major order; an operation that moves
elements (slice, pad, concatenation, transposition, im2col gather) says for each
element where it comes from.  A pass is an operator from programs to programs,
with another that says when it refuses.

| Module | Models |
|---|---|
| `CIMProgram` | operations, `evaluateDenseTensor` (what is known at compile time), `proveMatMulIntegerRanges` (no partial sum leaves an i21) |
| `CIMNormalize` | `NormalizeCIMLinear`, `NormalizeCIMConv` (im2col, groups, channels last, depthwise), the importer's byte form, `FoldCIMInt8Bias` (a bias as one more lane of ones) |
| `CIMSigns` | `MarkResidencyLinear`, `SplitCIMBF16Signs` (four branches by sign of weight and input), `PrepareCIMBF16` |
| `CIMForm` | `OutlineCIMBF16` (kernels, column blocks, tails), `PartitionCIMProgramPass`, `FormMatmul`, `FormMatvec` and its marked variant: tiles of one Macro |
| `CIMSchedule` | `MaterializeCIMSchedule`, `MapCIMSchedule`, `MaterializeCIMExecutionPlan` (waves, hoisted preparation, the three phases), the plan verifier |
| `CIMExecutable` | static weights and their packets, the word layout, BF16 alignment, `compileCIMTransaction` |
| `CIMWaves` | `outlineTransactions`: waves as Host calls, `groupWeightCalls`, `scheduleLinearBranches` |
| `CIMMeaning` | what a program computes at any stage, on either backend |
| `CIMCompiler` | `CompileCIMParts` and the pass manager: one action per pass |
| `MCCompiler` | the programs |

Two pipelines exist.  The split one is `cim-bf16-pipeline`: it outlines kernels,
compiles the device module and leaves a Host program of wave calls.  The direct
one is what the tests and `docs/BUILDING.md` run with `mlir-cim22-opt`:
contractions become transactions of their own function, with the byte biases
folded first.

The environment is MLIR: what its tensor, arith, linalg and func operations
compute, and that canonicalization removes dead code.  An operation that reads a
value computed later computes nothing, as does a call to a function that does
not exist or a transaction a backend refuses, so `MeaningKept` also says that a
module is well formed.

Abstractions: a float is an integer, of which a bf16 keeps `Mantissa`
significant bits; the ends of the exponent range (infinities, subnormals,
saturation) do not exist.  The programs' floats are small enough for the chip to
be exact when the compiler is right, so a comparison needs no tolerance.  The
checks by which a pass accepts IR it has already been run on, source locations
and diagnostics are left out, as are `BindParameters` and convolutions with
other orders of the filter's dimensions (they go through the same
`getBF16ConvInfo` with other maps).

### Properties

| Property | What it says |
|---|---|
| `MeaningKept` | after every pass the module computes what the source computes, on each sample |
| `BackendsAgree` | simulator and board give the same results, the board refuses nothing the simulator accepts, and every transaction is as the proofs about the runners assume (`WellFormed`, `InRange`) |
| `NeverRejected` | no pass refuses what an earlier one admitted; only the profile of a marked convolution is refused, in its source form |
| `WeightsTogether` | the waves of a resident Linear load each set of weights once |

### Run

`compile`: 26 programs on a chip of two lanes, two outputs and two Cores, with
bytes of four bits (373 states, one per pass and program).  Compilation is
sequential, so the states are few and each is worth an evaluation of the program
on every sample.  A chip that small makes a 3 x 3 weight matrix need two tiles in
each direction, padding included, eight works two waves, and two products of
the extreme bytes a sum one past what an i21 admits (`Boundary`, `ByteBias`).  Between them
the programs have: each linear form of the frontends; a bias with a free lane, without
one, and with the extra tile forbidden; marked and unmarked convolutions with
stride, dilation (refused) and bias; grouped, depthwise and channels-last ones;
the importer's bytes; two products where the second needs the first; each
compensation; columns in blocks with and without a tail; waves that alternate,
with residency and without.  Deadlock is not checked, as a compilation ends.

## 6. Backends and runtime session

### State and code

`CIMRunners` models `CIMSoftwareRunner` (plan of waves, execution, readback) and
`CIMBoardRunner` (validation, device program, batches, restoring) as operators on
one compiled transaction, and the chip as the board runner uses it: selected
Macros, inputs, weights and output caches.  `CIMSession` is a loaded model:

| Variables | Code |
|---|---|
| `backend`, `residency` | `model.backend` and whether weights are prepared |
| `lock`, `calls` | `session.mutex`, its holder, and each thread's call |
| `error`, `dispatches`, `device`, `runner`, `softwareWeights` | the members of `CIM22Session` |
| `chip` | the board |
| `mishaps` | history: failures so far |

A wave is one action (`DispatchSoftware`, `DispatchUSB` and the four ways it can
fail), a configuration two, since the receive loop may still fail while the old
device is closed.  The device is `UsbDevice` from above: a program is executed
whole, or fails after any prefix, and the receive loop may find an error at any
time (`ReceiveFails`); what `UsbDevice` proves of its residency table is how
`Faulted` and `clearWeightResidency` are written here.

The environment fails at most `MaxMishaps` times: an execution stops after a
prefix, a reply is refused, a device cannot be opened, closing meets an error,
the receive loop fails.  A negative input stands for one that is not finite and
is refused by both runners.  A board that loses power while it is open is
`UsbDevice`'s subject.

What the runners take on trust from the compiler is stated beside them, as two
operators.  `WellFormed` says of an executable that groups and works have keys of
their own, that each work is bound to one input, one weight and one readback with
their packets, and that a readback reads the row its input was written to.
`InRange` says of an executable and its inputs that weights and inputs are bytes
and that the sums `validateBF16Group` does not look at fit an i21, as
`proveMatMulIntegerRanges` saw to for bytes.  With the compensation `none` a float
product may overflow: the software runner refuses it and the board runner does
not notice, so `InRange` asks for the sums there too.  `SessionAssumption` takes
both for the executables and the samples of a session; TLC evaluates it for the
model of `session`, and `BackendsAgree` checks both for every transaction of
`compile`.

### Properties

| Property | What it says |
|---|---|
| `ResultsRight` | an invocation that succeeds has the results of its own sample in every wave |
| `FailsOnce` | one that fails fails in one wave: those before are right, those after are zero |
| `ResidencyTrue` | what the device calls resident is in the chip |
| `FaultReported` | a failed device is dropped only by a call that returns an error |

### Run

`session`: two threads, three compiled waves of a float Linear that alternate
between two weights of one Macro, two samples (one is refused in its second
wave), one capture, both backends, with and without residency, two failures
(72k states, symmetric threads).  Two weights for one Macro are what residency
can confuse, three waves put a failure before, between and after; two failures
let the second strike the recovery from the first.  There is no fairness, as
nothing is promised to happen: a call ends with its own last step, and the waits
below it are `UsbDevice`'s.  `MCSession` writes the executables out as they are
loaded; its assumption `AsCompiled` has TLC check that they are what the passes
of the compiler model make of the layer, so the two parts compose.

## 7. The web service

### State and code

`WebTask` models `manager.py`, `worker.py` and the saves of `storage.py`.

| Variables | Code |
|---|---|
| `pointer`, `config`, `state`, `results` | `current.json`, and `config.json`, `state.json`, `results.csv` of each task directory |
| `weights` | the weights file, which is the user's |
| `current`, `process` | members of `TaskManager` (`commands` and `cancel_event` are fields of the worker's record) |
| `pc`, `then`, `call`, `doc`, `draft`, `seen` | the method in progress and its locals |
| `shown` | the last answer of `snapshot` |
| `worker` | each process: its place, its copy of the document, rows, loaded weights, cancel event, pipe, exit code |
| `asked`, `worker[w].late`, `calls`, `mishaps` | history |

All methods hold `TaskManager.lock`, so one program counter stands for all
request threads.  A step ends where the other process can be seen: at each
read and each `os.replace` of a file, at a signal, a pipe or the event.  A save
of `state.json` is two steps, because its temporary file has a fixed name and
both processes use it; `OneWriter` says that they never do so at once.  `close`
is the end of the service and releases the lock file, so a later `StartService`
is another process.

Documents keep the status and `compiled`; the other fields are derived or for
display.  A row is the number of the weights it was computed with, so that a
task with rows of two models can be told.  The digest of the weights is their
number; the digests of samples, model source and `environment.json` are among
the reasons why `EngineFails`.

A service that dies takes its workers with it (`PR_SET_PDEATHSIG`), except one
that has not come to `prctl`: that one finds at its parent check that it is an
orphan.  So a worker's `EOFError`, which needs an armed worker without a
service, cannot occur, and the command `close` is sent by nobody; both are left
out.  SIGTERM and, after five seconds, SIGKILL of `_stop` are one action
(`Terminated`) which may come at any moment of the worker.

Failures: the service or a worker is killed anywhere, a save raises
(`DiskMayFail`), loading, compiling or inference raises, a process cannot be
started, the weights file is replaced (`ChangeAnytime` lets that happen between
the hash and the load too).

### Properties

| Property | What it says |
|---|---|
| `OneCompute` | one process at most is past its parent check |
| `OneWriter` | one writer of a `state.json` at a time |
| `CommandHeard` | a command goes to a worker that waits for it or has died |
| `PointerValid` | `current.json` names a whole task |
| `RowsKept` | committed rows are never lost or changed |
| `CompletedWhole` | completed means a row per sample, on disk and as shown |
| `CancelHonoured`, `CancelMeant` | after a cancel one pair at most is committed; no run is cancelled without one |
| `OneModel` | all rows of a task come from its weights |
| `DeathNoticed`, `TaskEnds` | a task without a process is not active when at rest; an active task ends |

### Runs

| Run | Instance | Shows |
|---|---|---|
| `web_safety` | two directories, two processes, two samples, four requests, two failures (3.2M states) | `TypeOK`, `OneCompute`, `OneWriter`, `CommandHeard`, `PointerValid`, `CompletedWhole`, `CancelHonoured`, `OneModel`, `CancelMeant` |
| `web_live` | one directory, three samples, a disk that works, no symmetry (856k) | `DeathNoticed`, `TaskEnds`, `RowsKept` |
| `web_disk` | a disk that may fail | `DeathNoticed` violated |
| `web_weights` | weights that change at any moment | `OneModel` violated |
| `web_interrupted` | a worker killed after its last row | `InterruptedResumable` violated |

Two directories make an import over an earlier task; two processes an orphan
beside its successor; two samples a run that is broken off in the middle, three a
resume that is broken off too; two failures let one strike the recovery of
the other.

Fairness: the manager's steps and each worker's (processes the system
schedules), and `Poll`, since a page that is open polls `snapshot`; nobody else
notices a worker's death.  New requests and failures get none.

What the three violations show:

* `_reap` and the `except` branch of `start` forget the process before
  `_recover` saves.  If that save raises, the task stays active, no call looks
  again, and `_ensure_idle` refuses every request until the service restarts.
* `validate_config` hashes the weights and `DvsEngine` reads them again, so
  weights replaced in between give rows of another model.
* a worker that dies between its last row and the status `completed` (or while
  it waits, once completed and killed) leaves `interrupted` with a message that the task
  can be resumed; `start` refuses because nothing is left to compute.

## 8. Proofs

`UsbDeviceProofs` proves for every value of the constants allowed by
`ConstantAssumption` and `ProgramsAssumption`:

* `TypeCorrect`: `Spec => []TypeOK`
* `ResidencyCorrect`: `Spec => []ResidencyPhysical`
* `ClockCorrect`: `Spec => []PLLPhysical`
* `DriverContract`: `Spec => []DriverProtocol`
* `FaultBlocks`: `Spec => FaultSticks` (a fault blocks the board until a driver
  opens; proved only, no run checks it)
* `EvidenceStays`: `Spec => EvidenceKept`

They rest on one inductive invariant, `IInv`:

* `TypeOK` is not inductive without `ControlOK`: that the current operation and
  batch exist follows from where the caller is.
* `ResidencyPhysical` needs `ForgetInv`: a session that closes or opens has
  forgotten the table (so a board that comes back empty contradicts nothing), and
  a raw program runs with an empty table (so its writes contradict nothing).  The
  argument of a step is always one of two: the step leaves slots and beliefs
  alone (`TableKept`) or forgets the table (`TableForgotten`); only `WriteChunk`
  changes a slot, and there the slot is being written, or its image has just been
  staged.
* `PLLPhysical` goes the same way with `ClockKept`; `PLLEchoed` is the one step
  that sets a word.
* `DriverProtocol` and `FaultSticks` need `DriverInv`: which of the driver's
  states go with which place of the caller, and that execute runs only
  unfaulted.
* `EvidenceKept` needs `ChunkInv`: a chunk that waits to be appended is not
  empty; a read of half a record leaves the codec's carry as the evidence.

`UsbExecuteProofs` and `UsbAnswersProofs` build on it:

* `BudgetCorrect`: `Spec => []BudgetExact`
* `AnswersCorrect`: `BoardQuiet` implies `Spec => []AnswersComplete`
* `ComputationCorrect`: `BoardQuiet` implies `Spec => []ComputedAsAsked`
* `NoAlarmIsFalse`: `Spec => []NoFalseAlarm`

`BoardQuiet` is the assumption the runs make too (section 3); `NoFalseAlarm`
states it, and the absence of failures, itself.  The argument, for any packet
size, channels, programs and number of calls and failures:

* `BudgetInv` keeps `Balance`: the budget, the records being delivered, the
  flits of partial packets (`Total`, a count over channels), the packets queued
  and those taken make up the batch.  Records and packets differ in size, so the
  proof is in the lemmas on `Total` (one channel changes the total by as much)
  and on appending and taking.
* `FlowInv` looks further, to what can still come: `Supply` counts the flits of
  targets not asked for, of replies owed and half sent, in the wire and in the
  chunk not yet budgeted.  `Slack`, the budget less the supply, never falls below
  zero, grows by one with every flit lost or not sent, and while it is zero
  nothing is missing: the flits of each channel follow each other without a gap
  from the board's place to the decoder's (`Carries`, `Aligned`).  A sealed batch
  took its whole budget, so its slack is zero and every packet in it is whole.
  That is why a lost flit, which shifts all later packets of its channel, cannot
  end in a complete batch.
* `SilentInv` says that between batches of a session that is not faulted nothing
  is owed, under way or queued, so a batch starts with a slack of zero, and
  `SightInv` that what an awaited batch can get are replies to its own request,
  in this call and under its Macro (`SelectedInv`).  `KeysInv` keeps one packet
  per target; `DoneInv` and `ReturnedInv` carry a sealed batch to the return.
* `PhaseInv` and `WorkInv` (`UsbExecuteProofs`) say which clock a phase runs
  with and which weights the slots hold: those of the last operation that
  configures each, by a write or by a hit, except for the slot being written.
  With them the replies in sight were computed as asked.
* For `NoFalseAlarm`, `Undisturbed`: no fault so far; half a record was read only
  if the rest of it comes (`HalfInv`); and an awaited batch is `Expectant`, that
  is, its slack is zero, all flits are sound, and each key it waits for is not yet
  asked for or in exactly one place between the board and the queue (`Once`).
  From that, each check the code makes (boundary, budget, acceptance of a packet,
  end of a batch) passes: `NoCheckFails` goes through them one by one.

`LibusbDriverProofs` and `CyApiDriverProofs` prove for every chunk size, any
bounds, and cancels or aborts that may fail:

* `Implements`: `Spec => Contract`, the refinement of `UsbDriver`
* `OwnershipCorrect`: `Spec => []BufferOwnership`
* `ErrorsCorrect`: `Spec => []ErrorsJustified`
* `TypeCorrect`: `Spec => []TypeOK`

Both invariants have the same parts.  `PlaceInv` ties the flags to the caller's
place (`stopping` outside of open and write, no reader once drain begins), which
`BufferOwnership` needs when a session is opened on the remains of another.
`CauseInv` says what an error or a cancelled status came from.  `StreamInv` is
the argument of the refinement: what was handed over is a prefix of the stream,
and what was received and not handed over is in the buffer, next in order
(`Held`) -- on Linux until an error, as a failed submission drops the bytes just
copied.  `EndInv` says that a drained session has nothing pending.  The
refinement maps each step to the contract's action of its kind or a stutter; its
sequence arithmetic is in `Continued`.

`WebTaskProofs` proves for any numbers of tasks, processes, samples, requests and
failures:

* `TypeCorrect`, `OneComputeCorrect`, `OneWriterCorrect`, `CommandCorrect`,
  `PointerCorrect`, `CompletedCorrect`, `RowsCorrect`, `CancelCorrect`,
  `MeantCorrect`: the property each is named for
* `ModelCorrect`: `~ChangeAnytime` implies `Spec => []OneModel`
* `DeathCorrect`: `~DiskMayFail` implies `Spec => []DeathNoticed`

The two assumptions are exactly those whose absence `web_weights` and `web_disk`
show to matter.  The inductive invariant `Inv` is the agreement of the two
processes: no property above is inductive alone, since each rests on what the
file says of the worker.  `HearInv` is its heart: a worker that is busy has an
active status on disk, one that waits with an empty pipe has not (except while a
command is being sent), one that exits has published `compiled = FALSE`.  From
that, `QuietInv` follows: after the test that nothing is active the worker waits
or is gone, until the manager's own first save.  `RowInv`, `CancelInv`,
`ModelInv` and `DeathInv` are each inductive on top of `Inv`: the rows a worker
holds are those on disk or one more; the event is cleared before a command and
not set without a request; a worker past validation has the weights of the
import; an active task without a process is about to be recovered.

`CIMRunnersProofs` proves of one transaction, for every executable that is
`WellFormed`, any chip, inputs and compensation:

* `BackendsEqual`: if the board runner assembles a program for inputs that are
  `InRange`, then the board, in any state whose table of residents is true, and
  the software runner both succeed, with the same results
* `SoftwareStepsOf`: a plan of waves executes works and readbacks of the
  transaction only, reads each of them, and no readback before its work
* `PartialSumFits`, `AcceptedGroupFits`: a sum of one Macro leaves an i21 only
  when all its weights and inputs are the lowest byte, and what
  `validateBF16Group` accepts never does
* `RangesExact`: `proveMatMulIntegerRanges`, by which the compiler decides what a
  byte contraction may leave to the chip, holds if and only if no input within the
  ranges makes a tile of any row leave an i21, for every matrix and every ranges:
  it admits nothing that overflows and refuses nothing that fits
* `WavesPlaced`: the waves `materialize-cim-execution-plan` makes of any mapped
  schedule keep its order, are numbered densely, mix no two transactions of it, and
  have one group per Core and at most `Cores` groups; a wave ends early only where
  its next group needs a Core it has

For `RangesExact` the analysis is first shown to look at two inputs per row
(`AnalysisIs`): the `Corner` that takes, lane by lane, the end of the range that makes
the product largest, and the one that makes it smallest.  Both are inputs within
the ranges, which gives one direction; every other input's products lie between
theirs, and sums are monotone (`TotalMonotone`), which gives the other.
For `WavesPlaced` the invariant of the fold is `Filled`: the Cores of the wave are
those of its works and are as many as its groups; of every earlier work of the same
wave it says that its group's number is not larger, and equal exactly when its Core
is.  That the numbers of different groups differ needs all of that: a new group is
numbered past all others because its Core is a new one.

`BackendsEqual` compares each backend with `Outputs`, which says of every readback
what the work it is bound to computes from its own weight and input (`Value`):

* The software runner: `SoftwareStepsOf` is about the order of steps.  The plan
  sorts groups, puts those on different Cores into one wave, and reorders the
  readbacks of a wave by Macro; `PlanWaves` keeps every group in one wave, and
  every readback follows the works of its wave.  `Ran` is the invariant of a run:
  every work executed so far has its value in its cell of the output cache, and
  every readback made so far has it in its output.  That a later work does not
  overwrite the cell before it is read is `SlotsApart`: two works of a transaction
  that share a Macro are the same, which `validateInputs` of the board runner
  demands (a group on one Core, its works on different Macros) together with one
  group per Core in `materializeProgram`.  No step fails, because no sum is out of
  range (`NoneOutOfRange`, from `AcceptedGroupFits` and `InRange`).
* The board: `WrittenHas` shows that after the operations of the program each
  Macro of a work holds the work's data type, input row, input and weight
  (`ChipHas`), a weight that was skipped as resident included.  `WorkedHas`: the
  Work operation leaves its raw product in the row of its input (`InputCell`).
  `RepliesOf`: the two batches ask for every readback once, and the reply to each
  is that cell (`Answers`).  `RestoredIs`: decoding a reply of a float product with
  the exponents and the support of its group gives what the software runner
  computes from the same sum.

Row equality of inputs and readbacks, the packets and the bindings are facts of
the compiler, not checked by either runner; they are in `WellFormed` and TLC checks them.
So is that the mantissas of an aligned input are bytes: `prealignBF16Vector` divides by
powers of two, on which the provers do not compute.

`CIMSessionProofs` proves for any threads, executables, samples and failures:

* `MutexCorrect`: `Spec => []Exclusive`, the holder of the mutex is the only
  thread within a call
* `FaultIsReported`: `Spec => FaultReported`
* `ResidencyCorrect`: `Spec => []ResidencyTrue`
* `ResultsCorrect`: `Spec => []ResultsRight`
* `FailsOnceCorrect`: `Spec => []FailsOnce`

The first two rest on `IInv`: the shape of the device record (no step but the
configuration's replaces it), and that a thread is within a call exactly when it
holds the lock.  From the shape every step but `ConfigureFailed` keeps a failed
device failed.

* `BoardInv`: what the table calls resident is in the chip (`Holds`).  A program
  may stop after any prefix, so `WrittenRight` shows it after each: a program
  selects a Core's Macro right before it writes there (`Orderly`, proved of
  `materializeProgram` in `ProgramOrderly`), so a tracked weight lands in the slot
  its identity is stored under.  `OpenInv` adds that residents need an open device.
* `SoftwareHolds`: a software run computes the same whatever was resident, as a
  hit is of the same image and mode.  Two runs stay `Alike` step by step:
  the same Macros and outputs, and only the residents differ.
* `BoardHolds`: a program that is executed has the results of a software runner of
  its own, on any chip whose residents are true: `BackendsEqual`, with `BoardInv`.
* `ProgressInv`, with `CallInv` (who is within a call, and how far), carries that
  through the waves: until an error every wave has its reference, and then the
  wave that failed is the only one that is neither right nor zeroed.

The operations of a program, the steps of a run, the groups of a plan and the
lanes of a sum are sequences of any length, and an induction over them is made
without an induction theorem: the least index at which a claim fails (`LeastOf`)
would be broken by one step.  `Operated`, `SoftwareStates`, `PlanWaves` and the
folds are recursive functions of that index for this reason.

Only model-checked: `MeaningKept`, `BackendsAgree`, `NeverRejected` and
`WeightsTogether`, which say what recursive passes over programs compute, and need
induction over the bodies of programs, whose depth and length nothing bounds.
Out of the prover's reach: `CallsReturn`, `CloseReturns` and `TaskEnds`, as liveness
under fairness.

## 9. Not modelled

Each component has its status and reason in `PROJECT.json`.  In short:

* the ONNX importer, the Python compiler and TensorFlow front end and the web front end
  translate or transport without state or order of their own;
* `LowerHostCopies` and the lowering of the Host program to LLVM: bufferized
  loops, of which the model keeps the values only;
* `BindParameters`, model containers (`ModelData.cpp`) and the compiler's C++
  facade (`Compiler.cpp`): lookup, parsing and files; their results are constants here;
* the RTL exporter, the flit bits of the frame and packet codecs and of USB
  records: fixed fields; packets are records (`CIMExecutable`) and flits with a
  place (`UsbDevice`);
* the ends of the floats' exponent range.
