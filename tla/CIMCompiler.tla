---------------------------- MODULE CIMCompiler -----------------------------
(***************************************************************************)
(* The compiler as a pass manager runs it: one action per pass, in the     *)
(* order of a pipeline, over one module.  Two pipelines exist.  The direct *)
(* one turns the contractions of a function into transactions of that      *)
(* function.  The split one (cim-bf16-pipeline) outlines kernels first,    *)
(* compiles the device module and leaves a Host program of wave calls.     *)
(*                                                                         *)
(* A case is a program with the options and the samples it is run with:    *)
(* [name, pipeline, main, inputs, compensation, maxColumns, extraKTile,    *)
(*  residency].                                                            *)
(***************************************************************************)
EXTENDS CIMMeaning

CONSTANTS Cases

VARIABLES
  job,       \* the case being compiled
  module,    \* the module the next pass rewrites
  todo,      \* the passes left
  status,    \* "running", "done", or the pass that failed
  expected   \* what the source program computes for the case's inputs

vars == <<job, module, todo, status, expected>>

DevicePasses ==
  <<"partition-cim-program", "form-cim-program", "materialize-cim-schedule",
    "map-cim-schedule", "materialize-cim-execution-plan",
    "materialize-cim-static-weight-section", "lower-cimframe-commands-to-packets",
    "verify-cimframe">>
Pipeline ==
  [direct |-> <<"normalize-cim-linear", "normalize-cim-conv", "fold-cim-int8-bias">>
                \o DevicePasses,
   split |-> <<"normalize-cim-linear", "mark-residency-linear", "normalize-cim-conv",
               "split-cim-bf16-signs", "prepare-cim-bf16", "outline-cim-bf16">>
               \o DevicePasses \o <<"outline-transactions", "verify-cim-execution-plan">>]

Direct == job.pipeline = "direct"
\* The functions the device passes run on.
Functions == IF Direct THEN "main" :> module.host ELSE module.device
FunctionOrder == IF Direct THEN <<"main">> ELSE module.order
WithFunctions(fs) ==
  IF Direct THEN [module EXCEPT !.host = fs["main"]] ELSE [module EXCEPT !.device = fs]
OnEach(P(_)) == WithFunctions([k \in DOMAIN Functions |-> P(Functions[k])])
AnyFunction(P(_)) == \E k \in DOMAIN Functions : P(Functions[k])
Named(P(_, _)) == WithFunctions([k \in DOMAIN Functions |-> P(k, Functions[k])])

SourceModule(c) ==
  [host |-> c.main, order |-> <<>>, device |-> NoAttrs, wrappers |-> NoAttrs,
   weights |-> NoAttrs, commands |-> <<>>, packets |-> <<>>, mode |-> "unmarked"]
Init ==
  \E c \in Cases :
    /\ job = c
    /\ module = SourceModule(c)
    /\ todo = Pipeline[c.pipeline]
    /\ status = "running"
    /\ expected = Mapped(LAMBDA x : Meaning(module, x, "software"), c.inputs)

\* A pass replaces the module, or fails and leaves the compilation there.
Run(pass, rejected, result) ==
  /\ todo # <<>> /\ Head(todo) = pass /\ status = "running"
  /\ IF rejected
     THEN status' = pass /\ UNCHANGED <<module, todo>>
     ELSE /\ module' = result /\ todo' = Tail(todo)
          /\ status' = IF Tail(todo) = <<>> THEN "done" ELSE "running"
  /\ UNCHANGED <<job, expected>>
OnHost(f) == [module EXCEPT !.host = f]
Floats32 == ~Direct     \* allow-f32 and allow-bias-epilogue

NormalizeLinearPass ==
  Run("normalize-cim-linear", FALSE, OnHost(NormalizeCIMLinear(Pruned(module.host), Floats32)))
MarkResidencyPass ==
  Run("mark-residency-linear", FALSE,
      IF job.residency THEN OnHost(MarkResidencyLinear(module.host)) ELSE module)
NormalizeConvPass ==
  Run("normalize-cim-conv", ConvRejected(module.host),
      OnHost(NormalizeCIMConv(module.host, Floats32, Floats32)))
FoldBiasPass ==
  Run("fold-cim-int8-bias", FALSE, OnHost(FoldCIMInt8Bias(module.host, job.extraKTile)))
SplitSignsPass ==
  Run("split-cim-bf16-signs", FALSE,
      [OnHost(SplitCIMBF16Signs(module.host, job.compensation))
         EXCEPT !.mode = CompensationOf(module.host, job.compensation)])
PreparePass ==
  Run("prepare-cim-bf16", FALSE, OnHost(PrepareCIMBF16(module.host)))
WithKernels(o) == [module EXCEPT !.host = o.host, !.device = o.device, !.order = o.names]
OutlinePass ==
  Run("outline-cim-bf16", FALSE, WithKernels(OutlineCIMBF16(module.host, job.maxColumns)))

PartitionPass == Run("partition-cim-program", FALSE, OnEach(PartitionCIMProgram))
FormPass == Run("form-cim-program", AnyFunction(FormRejected), OnEach(FormCIMProgram))
SchedulePass ==
  Run("materialize-cim-schedule", AnyFunction(ScheduleRejected),
      OnEach(MaterializeCIMSchedule))
MapPass == Run("map-cim-schedule", AnyFunction(MapRejected), OnEach(MapCIMSchedule))
PlanPass ==
  LET Weights(s, k) == PlanWeights(k, Functions[k]) @@ s
  IN Run("materialize-cim-execution-plan", AnyFunction(PlanRejected),
         [Named(Planned) EXCEPT !.weights = Fold(Weights, NoAttrs, FunctionOrder)])
StaticWeightPass ==
  Run("materialize-cim-static-weight-section", FALSE,
      [module EXCEPT !.commands =
         MaterializeCIMStaticWeightSection([module EXCEPT !.device = Functions], FunctionOrder)])
PacketPass ==
  Run("lower-cimframe-commands-to-packets", FALSE,
      [module EXCEPT !.commands = <<>>,
                     !.packets = LowerCIMFrameCommandsToPackets(module.commands)])
VerifyFramePass == Run("verify-cimframe", FALSE, module)
OutlineTransactionsPass ==
  Run("outline-transactions", FALSE, outlineTransactions(module, job.residency))
VerifyPlanPass ==
  Run("verify-cim-execution-plan",
      AnyFunction(LAMBDA f : ~verifyCIMExecutionPlan(f, module.weights)), module)

Next ==
  \/ NormalizeLinearPass \/ MarkResidencyPass \/ NormalizeConvPass \/ FoldBiasPass
  \/ SplitSignsPass \/ PreparePass \/ OutlinePass
  \/ PartitionPass \/ FormPass \/ SchedulePass \/ MapPass \/ PlanPass
  \/ StaticWeightPass \/ PacketPass \/ VerifyFramePass
  \/ OutlineTransactionsPass \/ VerifyPlanPass

Spec == Init /\ [][Next]_vars

-----------------------------------------------------------------------------
Finished == status = "done"
Results(backend) == Mapped(LAMBDA x : Meaning(module, x, backend), job.inputs)

\* Every pass keeps what the program computes: after each of them the module
\* is well formed (no value is read before it is computed, every call and every
\* resource exists) and gives the results of the source on every sample, by its
\* transactions and, once there are packets, by those packets in the software
\* runner.
MeaningKept == status \in {"running", "done"} => Results("software") = expected

\* The two backends agree on every compiled program: the board runner refuses
\* none of the transactions the software runner accepts and the replies a board
\* gives restore to the same results.  Every transaction is as the runners take
\* it (one binding of its own for every work, its packets there, the products in
\* range), on every sample: "assumed" gives them too.
Backends == {"software", "board", "assumed"}
BackendsAgree ==
  Finished => Cardinality({Results(backend) : backend \in Backends}) = 1

\* What the compiler takes on it finishes: only the source form of a marked
\* convolution is refused, never a contraction an earlier pass has admitted.
NeverRejected == status \in {"running", "done", "normalize-cim-conv"}

\* The waves a resident Linear calls load each set of weights once: a set is
\* not loaded again after another one has replaced it, neither in the function
\* of a branch nor in the helper that joins the branches, whatever the columns
\* are.
Loads(f) ==
  Mapped(LAMBDA op : WaveWrites(module, op.at.callee),
         SelectSeq(f.body, LAMBDA op : op.name = "wave"))
ResidentFunctions ==
  {w \in DOMAIN module.wrappers :
     module.wrappers[w].at.resid >= 0 \/ \E n \in 0..Len(job.main.body) : w = Helper(n)}
WeightsTogether ==
  Finished /\ job.residency =>
    \A w \in ResidentFunctions :
      LET s == Loads(module.wrappers[w])
      IN \A i, k \in DOMAIN s : \A j \in i..k : s[i] = s[k] => s[j] = s[i]
=============================================================================
