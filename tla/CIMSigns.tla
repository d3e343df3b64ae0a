------------------------------ MODULE CIMSigns ------------------------------
(***************************************************************************)
(* What prepares a float contraction for a chip that truncates: the mark   *)
(* of the Linear it came from, the split of weights and inputs by sign     *)
(* (split-cim-bf16-signs), and the rounding to bf16 (prepare-cim-bf16).    *)
(***************************************************************************)
EXTENDS CIMNormalize

\* MarkResidencyLinear: numbers the matmuls and matvecs that exist before the
\* convolutions are normalized.
MarkResidencyLinear(f) ==
  LET linear == Walk(f, LAMBDA op : op.name \in Matmuls \cup {"matvec"})
      Number(id) == (CHOOSE i \in DOMAIN linear : linear[i] = id) - 1
  IN [f EXCEPT !.body = Mapped(LAMBDA op :
        IF op.id \in ToSet(linear)
        THEN [op EXCEPT !.at = [resid |-> Number(op.id)] @@ @] ELSE op, @)]

\* A contraction of weights known at compile time, in normal form.
isStaticFloatKernel(f, op, elem) ==
  /\ op.name \in {"matmul", "matvec"} /\ Mark(op) \notin Int8Marks
  /\ op.elem = elem /\ SameElem(f, op)
  /\ IsKnown(f, op.ins[1])
  /\ isEvaluatedZeroSplat(f, op.ins[3])

\* The sign facts constants, views and monotone expressions give.
isNonnegativeFloat(f, id) ==
  LET Known[v \in {op.id : op \in ToSet(f.body)}] ==
        LET op == At(f, v)
        IN CASE op.name = "const" -> \A i \in DOMAIN op.at.data : op.at.data[i] >= 0
             [] op.name \in {"uitofp"} -> TRUE
             [] op.name \in {"addf", "mulf", "insert", "concat", "extf", "truncf",
                             "reshape", "slice", "transpose", "pad", "generic"} ->
                  \A i \in DOMAIN op.ins : Known[op.ins[i]]
             [] op.name = "maximumf" -> Known[op.ins[1]] \/ Known[op.ins[2]]
             [] OTHER -> FALSE
  IN Known[id]

Positive(data) == List(Len(data), LAMBDA i : IF data[i] > 0 THEN data[i] ELSE 0)
Negative(data) == List(Len(data), LAMBDA i : IF data[i] < 0 THEN -data[i] ELSE 0)

\* W x = Wp xp - Wn xp - Wp xn + Wn xn, with every factor nonnegative; inputs
\* proved nonnegative need no xn.  The branches are cloned from the operation.
SignBranch(op, tag, weight, input) ==
  LET clone == [op EXCEPT !.id = Sub(op.id, tag), !.ins = <<weight.id, input.id, @[3]>>,
                          !.at = [branch |-> TRUE] @@ @]
  IN IF op.elem = "bf16" THEN <<clone, Each(Sub(clone.id, "e"), "extf", <<clone>>, "f32")>>
     ELSE <<clone>>
\* The branches and their sum, the last of which is in f32.
SignSum(op, nonnegative, pp, np, pn, nn) ==
  LET narrow == op.elem = "bf16"  real == Last(pp).elem
      first == Each(IF nonnegative /\ ~narrow THEN op.id ELSE Sub(op.id, "s1"),
                    "subf", <<Last(pp), Last(np)>>, real)
      second == Each(Sub(op.id, "s2"), "subf", <<first, Last(pn)>>, real)
      third == Each(IF narrow THEN Sub(op.id, "s3") ELSE op.id,
                    "addf", <<second, Last(nn)>>, real)
  IN pp \o np \o <<first>> \o IF nonnegative THEN <<>> ELSE pn \o nn \o <<second, third>>
SignParts(op, nonnegative, wp, wn, xp, xn) ==
  <<wp, wn, xp>> \o (IF nonnegative THEN <<>> ELSE <<xn>>)
    \o SignSum(op, nonnegative, SignBranch(op, "pp", wp, xp), SignBranch(op, "np", wn, xp),
               SignBranch(op, "pn", wp, xn), SignBranch(op, "nn", wn, xn))
AsBF16(op, ops) ==
  IF op.elem = "bf16" THEN Append(ops, Each(op.id, "truncf", <<Last(ops)>>, "bf16")) ELSE ops
SplitSigns(f, op) ==
  LET w == At(f, op.ins[1])  x == At(f, op.ins[2])
      nonnegative == isNonnegativeFloat(f, op.ins[2])
  IN AsBF16(op, SignParts(op, nonnegative,
       Const(Sub(op.id, "wp"), w.shape, op.elem, Positive(KnownData(f, op.ins[1]))),
       Const(Sub(op.id, "wn"), w.shape, op.elem, Negative(KnownData(f, op.ins[1]))),
       Each(Sub(op.id, "xp"), IF nonnegative THEN "keep_all" ELSE "keep_positive",
            <<x>>, x.elem),
       Each(Sub(op.id, "xn"), "keep_negative", <<x>>, x.elem)))

SignCandidates(f) ==
  Walk(f, LAMBDA op : /\ ~Has(op, "branch")
                      /\ \E e \in {"f32", "bf16"} : isStaticFloatKernel(f, op, e))
\* The mode the module is marked with: none without a candidate.
CompensationOf(f, compensation) ==
  IF SignCandidates(f) = <<>> THEN "unmarked" ELSE compensation
SplitCIMBF16Signs(f, compensation) ==
  IF compensation # "sign-split" THEN f
  ELSE Rewrite(f, SignCandidates(f), SplitSigns)

\* Rounded weights, an input truncated to bf16, a bf16 contraction, and its
\* result extended again: bias and other users keep their precision.
PrepareBF16(f, op) ==
  LET w == Const(Sub(op.id, "w"), At(f, op.ins[1]).shape, "bf16",
                 Mapped(RoundEven, KnownData(f, op.ins[1])))
      x == Each(Sub(op.id, "x"), "truncf", <<At(f, op.ins[2])>>, "bf16")
      z == Splat(Sub(op.id, "z"), op.shape, "bf16", 0)
      kept == {"branch", "resid"} \cap DOMAIN op.at
      product == Dot(Sub(op.id, "mm"), op.name, w, x, z, op.shape, op.at.red,
                     [a \in kept |-> op.at[a]])
  IN <<w, x, z, product, Each(op.id, "extf", <<product>>, "f32")>>
PrepareCIMBF16(f) ==
  Rewrite(f, Walk(f, LAMBDA op : isStaticFloatKernel(f, op, "f32")), PrepareBF16)
=============================================================================
