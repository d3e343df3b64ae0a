----------------------------- MODULE CIMMeaning -----------------------------
(***************************************************************************)
(* What a program computes, at every stage of its compilation: the values  *)
(* of its results for given arguments.  Operations of MLIR's own dialects  *)
(* are the environment; the products of the chip are those of CIMRunners.  *)
(* An operation that reads a value computed later, or a transaction that a *)
(* backend refuses, computes nothing, and so does what depends on it.      *)
(***************************************************************************)
EXTENDS CIMWaves, CIMRunners

\* A contraction over exact numbers.
Contraction(f, op, a, b, init) ==
  LET loops == Kind[op.name].loops
      n == Len(op.shape)
      reds == SubSeq(loops, n + 1, Len(loops))
      ashape == At(f, op.ins[1]).shape  bshape == At(f, op.ins[2]).shape
      At1(c, r) == [l \in ToSet(loops) |->
                      LET i == CHOOSE j \in DOMAIN loops : loops[j] = l
                      IN IF i <= n THEN c[i] ELSE r[i - n]]
      Term(c, r) ==
        LET p == At1(c, r)
        IN a[1 + Index(ashape, Place(op, Kind[op.name].a, p))]
             * b[1 + Index(bshape, Place(op, Kind[op.name].b, p))]
      k == Product(op.at.red)
      Sum1(i) ==
        CASE op.name = "matmul" ->
               LET m == (i - 1) \div op.shape[2]  j == (i - 1) % op.shape[2]
               IN Total(List(k, LAMBDA t : a[m * k + t] * b[(t - 1) * op.shape[2] + j + 1]))
          [] op.name = "matvec" -> Total(List(k, LAMBDA t : a[(i - 1) * k + t] * b[t]))
          [] OTHER -> LET c == Coord(op.shape, i - 1)
                      IN Total(List(k, LAMBDA t : Term(c, Coord(op.at.red, t - 1))))
  IN List(Size(op), LAMBDA i : Wrap(op.elem, init[i] + Sum1(i)))

\* The product of a weight tile and an input on the chip.
ChipProduct(weight, x, mode) ==
  LET Product1(tile) == MacroOutput(tile.mantissas, tile.exponents, "bf16",
                                    prepareBF16Input(x, mode), mode, FALSE)
  IN IF weight.elem = "bf16" THEN Product1(prealignBF16WeightTile(weight.data))
     ELSE MacroOutput(weight.data, <<>>, "i8", Int8Input(x), mode, FALSE)
\* A transaction, before it is packets: one product per configured work.
PlannedProducts(op, xs, weights, mode) ==
  LET inputs == SelectSeq(op.at.steps, LAMBDA s : s.step = "configure_input")
      resources == SelectSeq(op.at.steps, LAMBDA s : s.step = "configure_weight")
  IN List(Len(inputs), LAMBDA i :
        ChipProduct(weights[resources[i].resource], xs[inputs[i].arg], mode))

\* One operation, its operands xs known.
Value(f, m, op, xs) ==
  LET Each1(F(_)) == List(Len(xs[1]), LAMBDA i : F(xs[1][i]))
      Pair(F(_, _)) == List(Len(xs[1]), LAMBDA i : Wrap(op.elem, F(xs[1][i], xs[2][i])))
  IN CASE op.name \in {"const", "fill"} -> op.at.data
       [] op.name = "empty" -> List(Size(op), LAMBDA i : 0)
       [] Has(op, "from") -> Moved(op, xs)
       [] op.name \in DOMAIN Kind -> Contraction(f, op, xs[1], xs[2], xs[3])
       [] op.name = "vmm" ->
            ChipProduct([data |-> xs[2], elem |-> ElemOf(f, op.ins[2])], xs[1], m.mode)
       [] op.name = "transaction" -> PlannedProducts(op, xs, m.weights, m.mode)
       [] op.name = "result" -> xs[1][op.at.n]
       [] op.name \in {"addi", "addf", "add"} -> Pair(LAMBDA a, b : a + b)
       [] op.name \in {"subi", "subf"} -> Pair(LAMBDA a, b : a - b)
       [] op.name = "maximumf" -> Pair(LAMBDA a, b : IF a < b THEN b ELSE a)
       [] op.name = "keep_positive" -> Each1(LAMBDA v : IF v > 0 THEN v ELSE 0)
       [] op.name = "keep_negative" -> Each1(LAMBDA v : IF v < 0 THEN -v ELSE 0)
       [] op.name = "truncf" -> Each1(RoundEven)
       [] op.name = "trunci" -> Each1(LAMBDA v : Wrap(op.elem, v))
       [] OTHER -> xs[1]     \* extensions

\* The results of f, nothing when one of them is not computed.  Run is the
\* meaning of a call.
Bind(env, id, called) == IF called = <<>> THEN env ELSE env @@ (id :> called)
Operands(env, op) == Mapped(LAMBDA v : env[v], op.ins)
Returns(f, env) ==
  IF ToSet(f.out) \subseteq DOMAIN env THEN Mapped(LAMBDA v : env[v], f.out) ELSE <<>>
Evaluated(f, m, args, Run(_, _)) ==
  Returns(f, Fold(LAMBDA env, op :
    IF ~(ToSet(op.ins) \subseteq DOMAIN env) THEN env
    ELSE IF op.name = "arg" THEN env @@ (op.id :> args[op.at.n])
    ELSE IF op.name \in Calls \cup {"transaction"}
    THEN Bind(env, op.id, Run(op, Operands(env, op)))
    ELSE env @@ (op.id :> Value(f, m, op, Operands(env, op))),
    NoAttrs, f.body))

-----------------------------------------------------------------------------
(* Calls, by level: main calls wrappers (or kernels not yet outlined into  *)
(* transactions), a wrapper calls waves.                                   *)

\* A compiled transaction on a backend; values is what its inputs hold.  On the
\* backend "assumed", nothing that is not as the runners take it is computed.
OnBackend(exe, values, mode, backend) ==
  LET assumed == WellFormed(exe) /\ InRange(exe, values, mode)
  IN CASE ~exe.ok \/ (backend = "assumed" /\ ~assumed) -> <<>>
       [] exe.ok /\ backend = "board" ->
            BoardRun(exe, values, mode, <<>>, Chip, NothingResident).outs
       [] OTHER -> SoftwareRun(exe, values, mode, NothingResident, <<>>).outs
PacketsOf(m, name) == SelectSeq(m.packets, LAMBDA p : p.binding.function = name)
\* What the runtime compiles for one device function.
ExecutableOf(m, name, f) ==
  compileCIMTransaction([device |-> name :> f, weights |-> m.weights,
                         packets |-> PacketsOf(m, name)])
RunTransaction(m, op, xs) == PlannedProducts(op, xs, m.weights, m.mode)
OnWave(exe, xs, mode, backend) ==
  OnBackend(exe, Mapped(LAMBDA i : xs[i.slot], exe.inputs), mode, backend)
RunWave(m, op, xs, backend) ==
  IF op.name = "transaction" THEN RunTransaction(m, op, xs)
  ELSE OnWave(ExecutableOf(m, op.at.callee, m.device[op.at.callee]), xs, m.mode, backend)
\* The only transaction of a function that is packets already: its inputs are
\* given binding by binding.
RunPackets(m, op, xs, backend) ==
  LET args == SelectSeq(op.at.steps, LAMBDA s : s.step = "configure_input")
  IN OnBackend(ExecutableOf(m, "main", m.host), Mapped(LAMBDA s : xs[s.arg], args),
               m.mode, backend)
CallResult(op, outs) == IF op.name = "grouped" \/ outs = <<>> THEN outs ELSE outs[1]
RunCall(m, op, xs, backend) ==
  CASE op.name = "transaction" ->
         IF m.packets # <<>> /\ Len(TransactionsOf(m.host)) = 1
         THEN RunPackets(m, op, xs, backend) ELSE RunTransaction(m, op, xs)
    [] op.at.callee \in DOMAIN m.wrappers ->
         CallResult(op, Evaluated(m.wrappers[op.at.callee], m, xs,
                                  LAMBDA o, ys : RunWave(m, o, ys, backend)))
    [] op.at.callee \in DOMAIN m.device ->
         CallResult(op, Evaluated(m.device[op.at.callee], m, xs,
                                  LAMBDA o, ys : RunTransaction(m, o, ys)))
    [] OTHER -> <<>>
Meaning(m, args, backend) ==
  Evaluated(m.host, m, args, LAMBDA op, xs : RunCall(m, op, xs, backend))

-----------------------------------------------------------------------------
\* Placed weights of a wave, as what a Macro holds.
WaveWrites(m, k) ==
  weightSignature(TransactionsOf(m.device[k])[1], m.weights)
=============================================================================
