---------------------------- MODULE CIMNormalize ----------------------------
(***************************************************************************)
(* The normalization passes: normalize-cim-linear, normalize-cim-conv and  *)
(* fold-cim-int8-bias bring every contraction with weights known at        *)
(* compile time into one form, a matmul of a weight matrix by columns of   *)
(* activations, with the weights first.  What the IR verifier guarantees   *)
(* (ranks and shapes that fit together) is not repeated in the guards, and *)
(* destination buffers, which hold nothing, are left out.                  *)
(***************************************************************************)
EXTENDS CIMProgram

Sub(id, tag) == Append(id, tag)
Sub2(id, tag, n) == Append(id, tag \o ToString(n))
Floats(allowF32) == {"bf16"} \cup IF allowF32 THEN {"f32"} ELSE {}
ElemOf(f, id) == At(f, id).elem
SameElem(f, op) == \A v \in ToSet(op.ins) : ElemOf(f, v) = op.elem
\* The column-by-row copy of a matrix stored with its rows one per output.
TransposedData(rows, columns, data) ==
  List(rows * columns, LAMBDA i :
     data[((i - 1) % columns) * rows + ((i - 1) \div columns) + 1])
AnyBytes(k) == List(k, LAMBDA i : AnyByte)

-----------------------------------------------------------------------------
(* Linear operations.                                                      *)

\* W x for every column of x: the one form of an integer or float contraction.
WeightTimesColumns(id, w, x, elem, at) ==
  LET z == Splat(Sub(id, "zero"), <<w.shape[1], x.shape[2]>>, elem, 0)
  IN <<z, Dot(id, "matmul", w, x, z, z.shape, <<w.shape[2]>>, at)>>

isBF16LinearCandidate(f, op, allowF32) ==
  /\ op.name \in Matmuls /\ Mark(op) # "matmul_integer"
  /\ op.elem \in Floats(allowF32) /\ SameElem(f, op)
  /\ isEvaluatedZeroSplat(f, op.ins[3])
  /\ IsKnown(f, op.ins[2])

getInt8LinearWeight(f, op) ==
  LET data == KnownData(f, op.ins[2])
  IN IF op.name = "matmul_transpose_b" THEN data
     ELSE TransposedData(op.shape[2], op.at.red[1], data)

isInt8LinearCandidate(f, op) ==
  /\ op.name \in Matmuls /\ Mark(op) \notin Int8Marks
  /\ ElemOf(f, op.ins[1]) = "i8" /\ ElemOf(f, op.ins[2]) = "i8" /\ op.elem = "i32"
  /\ isEvaluatedZeroSplat(f, op.ins[3])
  /\ IsKnown(f, op.ins[2])
  /\ proveMatMulIntegerRanges(op.shape[2], op.at.red[1],
       getInt8LinearWeight(f, op), AnyBytes(op.at.red[1]))

\* A product by a new weight matrix, and its result by rows again.
NewWeight(op, w, x, at) ==
  <<w, x>> \o WeightTimesColumns(Sub(op.id, "mm"), w, x,
                                IF w.elem = "i8" THEN "i32" ELSE op.elem, at)
Turned(id, ops) == Append(ops, Transpose(id, Last(ops)))
normalizeCIMLinear(f, op) ==
  LET a == At(f, op.ins[1])  k == op.at.red[1]  n == op.shape[2]
      x == Transpose(Sub(op.id, "x"), a)
  IN Turned(op.id,
       IF a.elem = "i8" \/ op.name # "matmul_transpose_b"
       THEN NewWeight(op, Const(Sub(op.id, "w"), <<n, k>>, a.elem, getInt8LinearWeight(f, op)), x,
                      IF a.elem = "i8" THEN [mark |-> "cim_int8"] ELSE NoAttrs)
       ELSE <<x>> \o WeightTimesColumns(Sub(op.id, "mm"), At(f, op.ins[2]), x, op.elem, NoAttrs))

-----------------------------------------------------------------------------
(* The widened form an ONNX importer emits: an i64 product of i32 operands *)
(* that are extensions of i8 values, with zero points of zero.             *)

NoValue == <<>>
getSignedInt8Source(f, id) ==
  LET Source[v \in {op.id : op \in ToSet(f.body)}] ==
        LET op == At(f, v)
        IN CASE op.elem = "i8" -> v
             [] op.elem # "i8" /\ op.name = "extsi" /\ Has(op, "generic")
                  /\ ElemOf(f, op.ins[1]) = "i8" -> op.ins[1]
             [] op.name = "subi" /\ Has(op, "generic")
                  /\ isEvaluatedZeroSplat(f, op.ins[2]) -> Source[op.ins[1]]
             [] OTHER -> NoValue
  IN Source[id]

OrElse(id, default) == IF id = NoValue THEN default ELSE id
ImportedWeight(f, op) == OrElse(getSignedInt8Source(f, op.ins[2]), op.ins[2])
WeightsFit(n, k, data) ==
  /\ \A i \in DOMAIN data : IsFit(Byte, data[i])
  /\ proveMatMulIntegerRanges(n, k, TransposedData(n, k, data), AnyBytes(k))
\* The sum of k products of bytes must fit an i32 before an i64 is narrowed.
isImportedInt8Linear(f, op) ==
  LET k == op.at.red[1]  n == op.shape[2]
  IN /\ op.name = "matmul" /\ Mark(op) \notin Int8Marks
     /\ isEvaluatedZeroSplat(f, op.ins[3])
     /\ k <= (Word - 1) \div (Byte * Byte)
     /\ op.elem = "i64" /\ ElemOf(f, op.ins[1]) = "i32" /\ ElemOf(f, op.ins[2]) = "i32"
     /\ getSignedInt8Source(f, op.ins[1]) # NoValue
     /\ IsKnown(f, ImportedWeight(f, op))
     /\ WeightsFit(n, k, KnownData(f, ImportedWeight(f, op)))
Widened(id, ops) == Append(ops, Each(id, "extsi", <<Last(ops)>>, "i64"))
normalizeImportedInt8Linear(f, op) ==
  LET k == op.at.red[1]  n == op.shape[2]
  IN Widened(op.id, Turned(Sub(op.id, "t"), NewWeight(op,
       Const(Sub(op.id, "w"), <<n, k>>, "i8",
             TransposedData(n, k, KnownData(f, ImportedWeight(f, op)))),
       Transpose(Sub(op.id, "x"), At(f, getSignedInt8Source(f, op.ins[1]))),
       [mark |-> "cim_int8"])))

-----------------------------------------------------------------------------
(* A batched product whose weights are one matrix copied to every batch.   *)

getSharedBatchWeight(f, id) ==
  LET op == At(f, id)
      w == At(f, op.ins[1])
  IN IF /\ op.name \in {"broadcast", "generic"}
        /\ Len(w.shape) = 2 /\ SubSeq(op.shape, 2, 3) = w.shape
        /\ op.at.from = Broadcast(id, w, op.shape, <<1>>).at.from
     THEN op.ins[1] ELSE NoValue
isSharedBatchLinear(f, op, allowF32) ==
  /\ op.name = "batch_matmul"
  /\ op.elem \in Floats(allowF32) /\ SameElem(f, op)
  /\ isEvaluatedZeroSplat(f, op.ins[3])
  /\ At(f, op.ins[2]).name \in {"broadcast", "generic"}
  /\ getSharedBatchWeight(f, op.ins[2]) # NoValue
  /\ IsKnown(f, getSharedBatchWeight(f, op.ins[2]))
normalizeSharedBatchLinear(f, op) ==
  LET a == At(f, op.ins[1])  columns == a.shape[1] * a.shape[2]
      id == getSharedBatchWeight(f, op.ins[2])
      w == Const(Sub(op.id, "w"), At(f, id).shape, op.elem, KnownData(f, id))
      x == Reshape(Sub(op.id, "x"), a, <<columns, a.shape[3]>>)
      z == Splat(Sub(op.id, "zero"), <<columns, op.shape[3]>>, op.elem, 0)
      product == Dot(Sub(op.id, "mm"), "matmul", x, w, z, z.shape, op.at.red, NoAttrs)
  IN <<x, w, z, product, Reshape(op.id, product, op.shape)>>

\* The pass: imported forms first, then batched ones (whose matmul is a
\* candidate of the last step), then every linear candidate.
NormalizeImported(f) ==
  Rewrite(f, Walk(f, LAMBDA op : isImportedInt8Linear(f, op)), normalizeImportedInt8Linear)
NormalizeShared(f, allowF32) ==
  Rewrite(f, Walk(f, LAMBDA op : isSharedBatchLinear(f, op, allowF32)),
          normalizeSharedBatchLinear)
NormalizeCandidates(f, allowF32) ==
  Rewrite(f, Walk(f, LAMBDA op : \/ isInt8LinearCandidate(f, op)
                                 \/ isBF16LinearCandidate(f, op, allowF32)),
          normalizeCIMLinear)
NormalizeCIMLinear(f, allowF32) ==
  NormalizeCandidates(NormalizeShared(NormalizeImported(f), allowF32), allowF32)

-----------------------------------------------------------------------------
(* Convolutions of floats.  Each loop of the named operation indexes the   *)
(* groups, the rows, the reduction or the columns of the matmuls.          *)

Role(op, names) == SelectSeq(Kind[op.name].loops, LAMBDA l : l \in names)
Groups(op) == Role(op, {"g"})
Rows(op) == Role(op, {"f"})
Reduction(op) == Role(op, {"c", "kh", "kw"})
Columns(op) == Role(op, {"n", "oh", "ow"})
Count(op, loops) == Product(Mapped(LAMBDA l : LoopSizes(op)[l], loops))
\* The loop position of a flat index over some loops, and back.
Spread(op, loops, v) ==
  LET c == Coord(Mapped(LAMBDA l : LoopSizes(op)[l], loops), v)
  IN [l \in ToSet(loops) |-> c[CHOOSE i \in DOMAIN loops : loops[i] = l]]
Linear(op, loops, p) ==
  Index(Mapped(LAMBDA l : LoopSizes(op)[l], loops), Mapped(LAMBDA l : p[l], loops))
Position(op, g, r, k, c) ==
  Spread(op, Groups(op), g) @@ Spread(op, Rows(op), r)
    @@ Spread(op, Reduction(op), k) @@ Spread(op, Columns(op), c)

\* An initializer that is a bias the Host can add after the contraction.
IsBiasInit(f, op) ==
  LET init == At(f, op.ins[3])
      expanded == op.name = "conv_2d_ngchw_gfchw" /\ init.name = "reshape"
      bias == IF expanded THEN At(f, init.ins[1]) ELSE init
  IN \/ init.name = "const"
     \/ /\ bias.name = "broadcast" /\ bias.at.dims = <<1, 3, 4>>
        /\ expanded \/ op.name \in {"conv_2d_nchw_fchw", "depthwise_conv_2d_nchw_chw"}
getBF16ConvInfo(f, op, allowF32, allowBiasEpilogue) ==
  /\ op.name \in Convs /\ Mark(op) # "conv_integer"
  /\ op.elem \in Floats(allowF32) /\ SameElem(f, op)
  /\ \/ isEvaluatedZeroSplat(f, op.ins[3])
     \/ allowBiasEpilogue /\ op.elem = "f32" /\ IsBiasInit(f, op)
  /\ IsKnown(f, op.ins[2])
  /\ LET last == [l \in DOMAIN LoopSizes(op) |-> LoopSizes(op)[l] - 1]
         c == Place(op, Kind[op.name].a, last)
     IN \A d \in DOMAIN c : c[d] < At(f, op.ins[1]).shape[d]

\* A pointwise convolution of one image reads its input as it lies in memory.
IsPointwise(f, op) ==
  LET x == At(f, op.ins[1]).shape  w == At(f, op.ins[2]).shape
  IN /\ op.name = "conv_2d_nchw_fchw" /\ x[1] = 1 /\ w[3] = 1 /\ w[4] = 1
     /\ x[3] = op.shape[3] /\ x[4] = op.shape[4]
     /\ Get(op, "stride", <<1, 1>>) = <<1, 1>>
ConvWeight(op, g, wshape, source, rows, k) ==
  Const(Sub2(op.id, "w", g), <<rows, k>>, op.elem,
        List(rows * k, LAMBDA i :
           source[1 + Index(wshape, Place(op, Kind[op.name].b,
             Position(op, g, (i - 1) \div k, (i - 1) % k, 0)))]))
ConvPatches(f, op, g, shape) ==
  LET x == At(f, op.ins[1])
  IN IF IsPointwise(f, op) THEN Reshape(Sub2(op.id, "x", g), x, shape)
     ELSE Gather(Sub2(op.id, "x", g), x, shape,
                 LAMBDA c : Place(op, Kind[op.name].a, Position(op, g, 0, c[1], c[2])))
ConvProduct(op, g, w, patches) ==
  <<w, patches>> \o WeightTimesColumns(Sub2(op.id, "mm", g), w, patches, op.elem, NoAttrs)
ConvGroup(f, op, g) ==
  LET k == Count(op, Reduction(op))
  IN ConvProduct(op, g,
       ConvWeight(op, g, At(f, op.ins[2]).shape, KnownData(f, op.ins[2]),
                  Count(op, Rows(op)), k),
       ConvPatches(f, op, g, <<k, Count(op, Columns(op))>>))
\* The groups one over the other, then every element in its place.
ConvStacked(op, parts) ==
  Flat(parts) \o IF Len(parts) = 1 THEN <<>>
                 ELSE <<Concat(Sub(op.id, "groups"), Mapped(Last, parts), 1)>>
ConvRestored(op, id, ops) ==
  LET loops == Kind[op.name].loops
      Row(p) == Linear(op, Groups(op), p) * Count(op, Rows(op)) + Linear(op, Rows(op), p)
      At2(p) == <<Row(p), Linear(op, Columns(op), p)>>
  IN Append(ops, Gather(id, Last(ops), op.shape, LAMBDA c :
       At2([l \in ToSet(SubSeq(loops, 1, Len(c))) |->
              c[CHOOSE i \in DOMAIN c : loops[i] = l]])))
ConvOps(f, op, id) ==
  ConvRestored(op, id, ConvStacked(op,
    List(Count(op, Groups(op)), LAMBDA g : ConvGroup(f, op, g - 1))))
WithInit(f, op, ops) ==
  Append(ops, Each(op.id, "addf", <<Last(ops), At(f, op.ins[3])>>, op.elem))
normalizeBF16Conv(f, op) ==
  IF isEvaluatedZeroSplat(f, op.ins[3]) THEN ConvOps(f, op, op.id)
  ELSE WithInit(f, op, ConvOps(f, op, Sub(op.id, "r")))

-----------------------------------------------------------------------------
(* Convolutions of bytes.                                                  *)

Int8ConvProfile(f, op) ==
  /\ op.name = "conv_2d_nchw_fchw" /\ op.shape[1] = 1
  /\ ElemOf(f, op.ins[1]) = "i8" /\ ElemOf(f, op.ins[2]) = "i8" /\ op.elem = "i32"
  /\ isEvaluatedZeroSplat(f, op.ins[3])
  /\ IsKnown(f, op.ins[2])
  /\ Get(op, "dilation", <<1, 1>>) = <<1, 1>>
isInt8ConvCandidate(f, op) ==
  /\ Int8ConvProfile(f, op)
  /\ \A d \in {3, 4} :
       LET x == At(f, op.ins[1]).shape[d]  k == At(f, op.ins[2]).shape[d]
       IN x >= k /\ op.shape[d] = (x - k) \div Get(op, "stride", <<1, 1>>)[d - 2] + 1
  /\ LET k == Product(op.at.red)
     IN proveMatMulIntegerRanges(op.shape[2], k, KnownData(f, op.ins[2]), AnyBytes(k))
\* linalg::rewriteInIm2Col, then the batch of one taken off the contraction.
normalizeCIMInt8Conv(f, op) ==
  LET patch == Product(op.at.red)  spatial == op.shape[3] * op.shape[4]
      w == Reshape(Sub(op.id, "w"), At(f, op.ins[2]), <<op.shape[2], patch>>)
      im2col == Gather(Sub(op.id, "col"), At(f, op.ins[1]), <<1, patch, spatial>>,
                  LAMBDA c : Place(op, Kind[op.name].a, Position(op, 0, 0, c[2], c[3])))
      col2D == Reshape(Sub(op.id, "x"), im2col, <<patch, spatial>>)
      init2D == Reshape(Sub(op.id, "init"), At(f, op.ins[3]), <<op.shape[2], spatial>>)
      product == Dot(Sub(op.id, "mm"), "matmul", w, col2D, init2D, init2D.shape, <<patch>>,
        [mark |-> IF Mark(op) = "conv_integer" THEN "matmul_integer" ELSE "cim_int8"])
      expanded == Reshape(Sub(op.id, "e"), product, <<1, op.shape[2], spatial>>)
  IN <<w, im2col, col2D, init2D, product, expanded,
       Reshape(op.id, expanded, op.shape)>>

\* A marked ConvInteger that does not have the frozen profile fails the pass.
ConvRejected(f) ==
  \E op \in ToSet(f.body) : Mark(op) = "conv_integer" /\ ~Int8ConvProfile(f, op)
NormalizeInt8Convs(f) ==
  Rewrite(f, Walk(f, LAMBDA op : Mark(op) = "conv_integer" \/ isInt8ConvCandidate(f, op)),
          normalizeCIMInt8Conv)
NormalizeBF16Convs(f, allowF32, allowBiasEpilogue) ==
  Rewrite(f, Walk(f, LAMBDA op : getBF16ConvInfo(f, op, allowF32, allowBiasEpilogue)),
          normalizeBF16Conv)
NormalizeCIMConv(f, allowF32, allowBiasEpilogue) ==
  NormalizeBF16Convs(NormalizeInt8Convs(f), allowF32, allowBiasEpilogue)

-----------------------------------------------------------------------------
(* The i32 contract of a marked matmul, and the fold of a bias into one    *)
(* more input lane that is always one.                                     *)

IsMarkedContraction(f, op) ==
  /\ op.name \in {"matvec", "matmul"} /\ Mark(op) \in Int8Marks
  /\ ElemOf(f, op.ins[1]) = "i8" /\ ElemOf(f, op.ins[2]) = "i8" /\ op.elem = "i32"
  /\ isEvaluatedZeroSplat(f, op.ins[3])
  /\ IsKnown(f, op.ins[1])
getMatMulIntegerStatus(f, op) ==
  IF ~IsMarkedContraction(f, op) THEN "invalid"
  ELSE IF proveMatMulIntegerRanges(op.shape[1], op.at.red[1], KnownData(f, op.ins[1]),
            getMatMulIntegerInputRanges(f, op.ins[2], op.at.red[1]))
  THEN "valid" ELSE "partialRangeOverflow"

\* The matmul whose result, seen through a transpose or the two reshapes of a
\* convolution, is the value id, when nothing else reads it.
matchBiasMatmulProducer(f, id) ==
  LET v == At(f, id)
      inner == At(f, v.ins[1])
      source == IF v.name = "transpose" THEN inner ELSE At(f, inner.ins[1])
      convolution == v.name = "reshape"
  IN IF /\ v.name \in {"transpose", "reshape"} /\ Uses(f, id) = 1
        /\ convolution => /\ inner.name = "reshape" /\ Uses(f, inner.id) = 1
                          /\ Len(v.shape) = 4 /\ Len(inner.shape) = 3 /\ v.shape[1] = 1
        /\ source.name = "matmul" /\ Uses(f, source.id) = 1
     THEN <<source.id, convolution>> ELSE NoValue

\* The weights with the bias as the column of lane biasLane.
WithBias(rows, k, biasLane, weights, bias) ==
  List(rows * (k + 1), LAMBDA i :
     LET r == (i - 1) \div (k + 1)  c == (i - 1) % (k + 1)
     IN IF c = biasLane THEN bias[r + 1]
        ELSE weights[r * k + (IF c < biasLane THEN c ELSE c - 1) + 1])
\* A multiple of Lanes has no free lane: the bias takes one more tile, and the
\* place before the last input keeps that tile from holding the bias alone.
BiasLane(k) == IF k % Lanes = 0 THEN k - 1 ELSE k
CanFoldBias(f, add, allowExtraKTile) ==
  LET broadcast == At(f, add.ins[2])
      bias == At(f, broadcast.ins[1])
      producer == matchBiasMatmulProducer(f, add.ins[1])
      mm == At(f, producer[1])
      k == mm.at.red[1]  rows == mm.shape[1]
      lane == BiasLane(k)
  IN /\ add.name = "add" /\ broadcast.name = "broadcast"
     /\ bias.name = "const" /\ Len(bias.shape) = 1 /\ bias.elem = "i32"
     /\ Uses(f, broadcast.id) = 1 /\ Uses(f, bias.id) = 1
     /\ producer # NoValue
     /\ broadcast.at.dims = IF producer[2] THEN <<1, 3, 4>> ELSE <<1>>
     /\ getMatMulIntegerStatus(f, mm) = "valid"
     /\ bias.shape = <<rows>>
     /\ k % Lanes = 0 => allowExtraKTile
     /\ \A i \in 1..rows : IsFit(Byte, bias.at.data[i])
     /\ proveMatMulIntegerRanges(rows, k + 1,
          WithBias(rows, k, lane, KnownData(f, mm.ins[1]), bias.at.data),
          [AnyBytes(k + 1) EXCEPT ![lane + 1] = <<1, 1>>])
BiasedWeight(f, mm, bias) ==
  LET k == mm.at.red[1]  rows == mm.shape[1]
  IN Const(Sub(mm.id, "wb"), <<rows, k + 1>>, "i8",
           WithBias(rows, k, BiasLane(k), KnownData(f, mm.ins[1]), bias.at.data))
\* The product of the weights ops[1] and the parts of the input.
BiasedProduct(f, mm, ops, parts) ==
  LET xb == Concat(Sub(mm.id, "xb"), parts, 1)
  IN ops \o <<xb, Dot(mm.id, "matmul", ops[1], xb, At(f, mm.ins[3]), mm.shape,
                      <<mm.at.red[1] + 1>>, [mark |-> Mark(mm)])>>
BiasedOps(f, mm, w) ==
  LET k == mm.at.red[1]  x == At(f, mm.ins[2])
      one == Splat(Sub(mm.id, "one"), <<1, mm.shape[2]>>, "i8", 1)
      Lines(tag, from, n) ==
        Slice(Sub(mm.id, tag), x, <<from, 0>>, <<n, mm.shape[2]>>, <<n, mm.shape[2]>>)
      prefix == Lines("prefix", 0, k - 1)  last == Lines("last", k - 1, 1)
  IN IF k % Lanes = 0
     THEN BiasedProduct(f, mm, <<w, one, prefix, last>>, <<prefix, one, last>>)
     ELSE BiasedProduct(f, mm, <<w, one>>, <<x, one>>)
Instead(f, old, new) ==
  LET Of(v) == IF v = old THEN new ELSE v
  IN [f EXCEPT !.body = Mapped(LAMBDA op : [op EXCEPT !.ins = Mapped(Of, @)], @),
               !.out = Mapped(Of, @)]
FoldBias(f, add) ==
  LET mm == At(f, matchBiasMatmulProducer(f, add.ins[1])[1])
      bias == At(f, At(f, add.ins[2]).ins[1])
  IN Erase(Instead(Splice(f, mm.id, BiasedOps(f, mm, BiasedWeight(f, mm, bias))),
                   add.id, add.ins[1]),
           {add.id, add.ins[2], bias.id})
\* Greedily, until no addition can be folded.
FoldCIMInt8Bias(f, allowExtraKTile) ==
  Fold(LAMBDA g, id : IF CanFoldBias(g, At(g, id), allowExtraKTile)
                      THEN FoldBias(g, At(g, id)) ELSE g,
       f, Walk(f, LAMBDA op : op.name = "add"))
=============================================================================
