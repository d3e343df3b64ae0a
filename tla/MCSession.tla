----------------------------- MODULE MCSession ------------------------------
(***************************************************************************)
(* One float Linear on a small chip, compiled: four sign branches, which   *)
(* are four transactions with two weights for one Macro; a Program of      *)
(* three of them goes from one weight to the other.  Inputs are            *)
(* non-negative, as a branch's are; a negative value stands for one a      *)
(* runner refuses (in the program, one that is not finite).                *)
(***************************************************************************)
EXTENDS CIMSession, CIMMeaning

CONSTANTS t1, t2

Layer ==
  LET x == Op(<<"x">>, "arg", <<>>, <<1, 2>>, "f32", [n |-> 1])
      w == Const(<<"w">>, <<2, 2>>, "f32", <<1, -1, 2, 3>>)
      z == Splat(<<"z">>, <<1, 2>>, "f32", 0)
      y == Dot(<<"y">>, "matmul", x, w, z, <<1, 2>>, <<2>>, NoAttrs)
  IN [body |-> <<x, w, z, y>>, out |-> <<y.id>>, at |-> NoAttrs]

Branches ==
  OutlineCIMBF16(
    PrepareCIMBF16(SplitCIMBF16Signs(NormalizeCIMLinear(Pruned(Layer), TRUE), "sign-split")),
    AutoWidth)
Kernels ==
  [k \in DOMAIN Branches.device |->
     Planned(k, MapCIMSchedule(MaterializeCIMSchedule(
       FormCIMProgram(PartitionCIMProgram(Branches.device[k])))))]
Compiled ==
  LET Weights(s, k) ==
        PlanWeights(k, MapCIMSchedule(MaterializeCIMSchedule(
          FormCIMProgram(PartitionCIMProgram(Branches.device[k]))))) @@ s
      m == [device |-> Kernels, weights |-> Fold(Weights, NoAttrs, Branches.names),
            packets |-> <<>>]
  IN [m EXCEPT !.packets =
        LowerCIMFrameCommandsToPackets(MaterializeCIMStaticWeightSection(m, Branches.names))]
\* The transactions as they are loaded, and that they are the compiler's.
Transaction(n, values, exponents) ==
  LET route == <<0, 0, 0, 0, 0, 0>>  key == Key(0, 0)
      Sent(kind) == Frame(kind, "bf16", key, 0, route, 0)
      there == [key |-> key, macro |-> 0, dataType |-> "bf16"]
  IN [ok |-> TRUE,
      groups |-> <<[group |-> 0,
                    works |-> <<[work |-> 0, core |-> 0, macro |-> 0, route |-> route]>>]>>,
      weights |-> <<there @@ [core |-> 0, route |-> route, resource |-> <<KernelName(n), 0, 0>>,
                              values |-> values, exponents |-> exponents]>>,
      inputs |-> <<there @@ [slot |-> 1, row |-> 0]>>,
      readbacks |-> <<there @@ [row |-> 0, route |-> route]>>,
      packets |-> <<Sent("Control"), Sent("WeightExponent"), Sent("Weight"),
                    Sent("InputCacheWrite"), Frame("Work", "i8", Key(0, -1), -1, route, 0),
                    Sent("ReturnRoute"), Sent("Control"), Sent("OutputCacheRead")>>]
MCExecutables ==
  <<Transaction(0, <<2, 4, 0, 6>>, <<-2, -2>>), Transaction(1, <<0, 0, 4, 0>>, <<-8, -3>>),
    Transaction(2, <<2, 4, 0, 6>>, <<-2, -2>>), Transaction(3, <<0, 0, 4, 0>>, <<-8, -3>>)>>
ASSUME AsCompiled ==
  MCExecutables = Mapped(LAMBDA k : ExecutableOf(Compiled, k, Kernels[k]), Branches.names)

\* The branches by sign: both of the positive part of x, both of the negative.
MCProgram == <<1, 2, 3>>
MCSamples ==
  {<< << <<1, 0>> >>, << <<1, 0>> >>, << <<0, 2>> >> >>,
   << << <<1, 3>> >>, << <<-1, 3>> >>, << <<2, 1>> >> >>}
MCCaptures == {<<2, << <<3, 1>> >> >>}
MCSymmetry == Permutations(Threads)
=============================================================================
