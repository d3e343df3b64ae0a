------------------------------ MODULE CIMForm -------------------------------
(***************************************************************************)
(* From contractions to single-Macro products: the outlining of kernels    *)
(* (outline-cim-bf16), the numbering of offloadable contractions           *)
(* (partition-cim-program), and their tiles (form-cim-program).            *)
(***************************************************************************)
EXTENDS CIMSigns

CONSTANTS
  Cores,     \* Cores of the chip (20); each has two Macros
  BaseWidth  \* columns of a kernel before waves are counted (32)

ASSUME FormAssumption == {Cores, BaseWidth} \subseteq Nat \ {0}

WorksPerWave == 2 * Cores

-----------------------------------------------------------------------------
(* What can be offloaded.                                                  *)

\* An unmarked contraction the chip computes as it stands: bf16, or i8 into
\* an i21, with no bias.
isConvertible(f, op) ==
  /\ op.name \in {"matvec", "matmul"} /\ Mark(op) \notin Int8Marks
  /\ \/ /\ op.elem = "bf16" /\ SameElem(f, op)
        /\ isEvaluatedZeroSplat(f, op.ins[3])
     \/ /\ op.elem = "i21"
        /\ ElemOf(f, op.ins[1]) = "i8" /\ ElemOf(f, op.ins[2]) = "i8"
        /\ isZeroSplat(f, op.ins[3])
isOffloadableRoot(f, op) ==
  IF Mark(op) \in Int8Marks THEN getMatMulIntegerStatus(f, op) = "valid"
  ELSE isConvertible(f, op)
isPartitionedRoot(f, op) == Has(op, "tx") /\ isOffloadableRoot(f, op)

-----------------------------------------------------------------------------
(* Outlining.                                                              *)

\* The columns of one kernel: the width with the fewest waves, then the
\* fewest statically expanded columns, and never more than one wave of them
\* above the baseline.
selectColumnWidth(columns, reduction, outputs) ==
  LET width == Least(columns, BaseWidth)
      kTiles == CeilDiv(reduction, Lanes)
      nTiles == CeilDiv(outputs, Outs)
      works == nTiles * kTiles
      Waves(b) == (columns \div b) * CeilDiv(b * works, WorksPerWave)
                  + CeilDiv((columns % b) * works, WorksPerWave)
      Static(b) == b + (columns % b)
      Better(best, b) ==
        IF /\ (Static(b) - Static(width)) * works <= WorksPerWave
           /\ \/ Waves(b) < Waves(best)
              \/ /\ Waves(b) = Waves(best) /\ Waves(b) < Waves(width)
                 /\ Static(b) < Static(best)
        THEN b ELSE best
      most == Least(columns, WorksPerWave)
  IN IF nTiles > WorksPerWave \div kTiles THEN width
     ELSE Fold(Better, width, List(most, LAMBDA i : most + 1 - i))

KernelName(n) == "__cim_kernel_" \o ToString(n)
\* The proof of an outlined kernel may not use what the Host knows of its
\* input, which becomes an argument.
IsKernel(f, op) ==
  \/ /\ Mark(op) \in Int8Marks /\ isOffloadableRoot(f, op)
     /\ proveMatMulIntegerRanges(op.shape[1], op.at.red[1], KnownData(f, op.ins[1]),
                                 AnyBytes(op.at.red[1]))
  \/ isStaticFloatKernel(f, op, "bf16")
\* The function of a kernel over "columns" columns of op's input.
Kernel(f, op, columns) ==
  LET w == At(f, op.ins[1])
      Columns2(shape) ==
        IF op.name = "matmul" THEN [shape EXCEPT ![2] = columns] ELSE shape
  IN [body |-> <<Op(<<"x">>, "arg", <<>>, Columns2(At(f, op.ins[2]).shape),
                    ElemOf(f, op.ins[2]), [n |-> 1]),
                 Const(<<"w">>, w.shape, w.elem, KnownData(f, op.ins[1])),
                 Splat(<<"z">>, Columns2(op.shape), op.elem, 0),
                 [op EXCEPT !.id = <<"y">>, !.ins = << <<"w">>, <<"x">>, <<"z">> >>,
                            !.shape = Columns2(@)]>>,
      out |-> << <<"y">> >>, at |-> [resid |-> Get(op, "resid", -1)]]

Call(id, callee, xs, shape, elem) ==
  Op(id, "call", Mapped(LAMBDA x : x.id, xs), shape, elem, [callee |-> callee])
\* One block of columns of op: slice, call, insert.  The full blocks are the
\* iterations of one loop.
BlockOps(f, op, callee, start, columns, output, tag) ==
  LET x == At(f, op.ins[2])
      sizes == <<x.shape[1], columns>>
      slice == Slice(Sub(op.id, "s" \o tag), x, <<0, start>>, sizes, sizes)
      call == Call(Sub(op.id, "c" \o tag), callee, <<slice>>,
                   <<op.shape[1], columns>>, op.elem)
  IN <<slice, call, Insert(Sub(op.id, "i" \o tag), call, output, <<0, start>>)>>
Looped(ops) == Mapped(LAMBDA op : [op EXCEPT !.at = [loop |-> TRUE] @@ @], ops)
\* The last of ops is the value id.
Named1(ops, id) == [ops EXCEPT ![Len(ops)].id = id]
WithTail(f, op, tailName, tail, full) ==
  IF tail = 0 THEN full
  ELSE full \o BlockOps(f, op, tailName, op.shape[2] - tail, tail, Last(full), "t")
Blocks(f, op, name, tailName, width) ==
  LET columns == op.shape[2]
      empty == Op(Sub(op.id, "empty"), "empty", <<>>, op.shape, op.elem, NoAttrs)
  IN Named1(WithTail(f, op, tailName, columns % width,
              Fold(LAMBDA ops, b : ops \o Looped(BlockOps(f, op, name, (b - 1) * width, width,
                                                          Last(ops), ToString(b))),
                   <<empty>>, List(columns \div width, LAMBDA b : b))),
            op.id)

AutoWidth == 0   \* no fixed width
KernelColumns(op) == IF op.name = "matmul" THEN op.shape[2] ELSE 1
KernelWidth(op, maxColumns) ==
  IF maxColumns = AutoWidth
  THEN selectColumnWidth(KernelColumns(op), op.at.red[1], op.shape[1])
  ELSE maxColumns
\* The Host program, the kernels and their names in module order.  Tails are
\* named after every candidate.
OutlineWhole(f, s, op, name) ==
  [s EXCEPT !.host = Splice(@, op.id,
                       <<Call(op.id, name, <<At(f, op.ins[2])>>, op.shape, op.elem)>>),
            !.device = (name :> Kernel(f, op, KernelColumns(op))) @@ @,
            !.names = Append(@, name)]
OutlineBlocks(f, s, op, name, width) ==
  LET tail == KernelColumns(op) % width
      tailName == KernelName(s.next)
  IN [host |-> Splice(s.host, op.id, Blocks(s.host, op, name, tailName, width)),
      names |-> s.names \o IF tail = 0 THEN <<name>> ELSE <<name, tailName>>,
      device |-> (name :> Kernel(f, op, width))
                 @@ (IF tail = 0 THEN NoAttrs ELSE tailName :> Kernel(f, op, tail)) @@ s.device,
      next |-> IF tail = 0 THEN s.next ELSE s.next + 1]
Outline(f, s, op, name, width) ==
  IF KernelColumns(op) <= width THEN OutlineWhole(f, s, op, name)
  ELSE OutlineBlocks(f, s, op, name, width)
OutlineAll(f, candidates, maxColumns) ==
  Fold(LAMBDA s, n : LET op == At(s.host, candidates[n])
                     IN Outline(f, s, op, KernelName(n - 1), KernelWidth(op, maxColumns)),
       [host |-> f, device |-> NoAttrs, names |-> <<>>, next |-> Len(candidates)],
       List(Len(candidates), LAMBDA n : n))
OutlineCIMBF16(f, maxColumns) ==
  OutlineAll(f, Walk(f, LAMBDA op : IsKernel(f, op)), maxColumns)

-----------------------------------------------------------------------------
(* Formation.                                                              *)

Partitioned(f, roots) ==
  LET Segment(id) == (CHOOSE i \in DOMAIN roots : roots[i] = id) - 1
  IN [f EXCEPT !.body = Mapped(LAMBDA op :
        IF op.id \in ToSet(roots) THEN [op EXCEPT !.at = [tx |-> Segment(op.id)] @@ @]
        ELSE op, @)]
PartitionCIMProgram(f) == Partitioned(f, Walk(f, LAMBDA op : isOffloadableRoot(f, op)))

\* One matvec per column, each with its column number.
FormMatmul(f, op) ==
  LET w == At(f, op.ins[1])  x == At(f, op.ins[2])
      k == op.at.red[1]  m == op.shape[1]
      zero == Splat(Sub(op.id, "zero"), <<m>>, op.elem, 0)
      Column(c) == Slice(Sub2(op.id, "x", c), x, <<0, c>>, <<k, 1>>, <<k>>)
      Matvec(c) == Dot(Sub2(op.id, "v", c), "matvec", w, Column(c), zero, <<m>>, op.at.red,
                       [mat |-> c, tx |-> op.at.tx]
                         @@ (IF Mark(op) \in Int8Marks THEN [mark |-> Mark(op)] ELSE NoAttrs))
      Expanded(c) == Reshape(IF op.shape[2] = 1 THEN op.id ELSE Sub2(op.id, "e", c),
                             Matvec(c), <<m, 1>>)
      columns == List(op.shape[2], LAMBDA c : c - 1)
  IN <<zero>> \o Flat(Mapped(LAMBDA c : <<Column(c), Matvec(c), Expanded(c)>>, columns))
       \o IF op.shape[2] = 1 THEN <<>>
          ELSE <<Concat(op.id, Mapped(Expanded, columns), 2)>>

\* The part of x from offs, of sizes, padded with zeros to shape.  An unmarked
\* contraction slices only what is not the whole.
Padded(id, x, ops, sizes, shape) ==
  IF sizes = shape THEN ops
  ELSE Append(ops, PadTo(Sub(id, "p"), Last(<<x>> \o ops), shape))
Tile(id, x, offs, sizes, shape, always) ==
  Padded(id, x, IF ~always /\ sizes = x.shape THEN <<>>
                ELSE <<Slice(Sub(id, "s"), x, offs, sizes, sizes)>>, sizes, shape)
VMM(id, x, w, elem, at) == Op(id, "vmm", <<x, w>>, <<Outs>>, elem, at)

\* A matvec as tiles of Outs outputs and Lanes inputs, the partial results of
\* an output tile added on the Host: in f32 for bf16, in an i32 for a marked
\* contraction, and otherwise in an integer wide enough for every tile, from
\* which the i21 is taken again.  A single tile of an unmarked one is used as
\* it is.
IsMarked(op) == Mark(op) \in Int8Marks
KTiles(op) == CeilDiv(op.at.red[1], Lanes)
IsDirect(op) == ~IsMarked(op) /\ KTiles(op) = 1
PartialElem(op) == IF op.elem = "bf16" THEN "bf16" ELSE "i21"
WideElem(op) == CASE IsMarked(op) -> "i32" [] PartialElem(op) = "bf16" -> "f32" [] OTHER -> "i64"
TileId(op, name, n, j) == Sub(op.id, name \o ToString(n) \o "_" \o ToString(j))
TileProduct(op, n, j, w, weight, x, input) ==
  LET vmm == VMM(TileId(op, "v", n, j), Last(<<x>> \o input).id, Last(<<w>> \o weight).id,
                 PartialElem(op), [tx |-> op.at.tx, m_tile |-> Get(op, "mat", 0),
                               n_tile |-> n, k_tile |-> j])
  IN input \o weight \o <<vmm>>
       \o IF IsDirect(op) THEN <<>>
          ELSE <<Each(TileId(op, "e", n, j), IF op.elem = "bf16" THEN "extf" ELSE "extsi",
                      <<vmm>>, WideElem(op))>>
Part(f, op, n, j) ==
  LET w == At(f, op.ins[1])  x == At(f, op.ins[2])
      lanes == Least(op.at.red[1] - j * Lanes, Lanes)
      outs == Least(op.shape[1] - n * Outs, Outs)
  IN TileProduct(op, n, j,
       w, Tile(TileId(op, "w", n, j), w, <<n * Outs, j * Lanes>>, <<outs, lanes>>,
               <<Outs, Lanes>>, IsMarked(op)),
       x, Tile(TileId(op, "x", n, j), x, <<j * Lanes>>, <<lanes>>, <<Lanes>>, IsMarked(op)))
\* One output tile: its parts and their sum.
Summed(op, n, parts) ==
  Fold(LAMBDA ops, j :
         ops \o parts[j] \o <<Each(TileId(op, "a", n, j),
                                   IF op.elem = "bf16" THEN "addf" ELSE "addi",
                                   <<Last(ops), Last(parts[j])>>, WideElem(op))>>,
       parts[1], List(Len(parts) - 1, LAMBDA j : j + 1))
Narrowed(op, n, sum) ==
  IF IsMarked(op) \/ IsDirect(op) THEN sum
  ELSE Append(sum, Each(TileId(op, "t", n, 0), IF op.elem = "bf16" THEN "truncf" ELSE "trunci",
                        <<Last(sum)>>, PartialElem(op)))
Row(f, op, n) ==
  Narrowed(op, n, Summed(op, n, List(KTiles(op), LAMBDA j : Part(f, op, n, j - 1))))
Stacked(op, rows) ==
  Flat(rows) \o IF Len(rows) = 1 THEN <<>>
                ELSE <<Concat(Sub(op.id, "rows"), Mapped(Last, rows), 1)>>
Cut(op, ops) ==
  LET m == op.shape[1]
  IN IF m % Outs = 0 THEN Named1(ops, op.id)
     ELSE Append(ops, Slice(op.id, Last(ops), <<0>>, <<m>>, <<m>>))
FormMatvec(f, op) ==
  Cut(op, Stacked(op, List(CeilDiv(op.shape[1], Outs), LAMBDA n : Row(f, op, n - 1))))

\* The columns of every numbered matmul, then the tiles of every numbered
\* matvec; a numbered contraction no pattern takes fails the pass.
FormColumns(f) ==
  Rewrite(f, Walk(f, LAMBDA op : op.name = "matmul" /\ isPartitionedRoot(f, op)),
          FormMatmul)
RootLeft(g) ==
  \E op \in ToSet(g.body) : /\ op.name \in {"matmul", "matvec"} /\ Has(op, "tx")
                            /\ ~isPartitionedRoot(g, op)
FormRejected(f) == RootLeft(FormColumns(f))
FormTiles(g) ==
  Rewrite(g, Walk(g, LAMBDA op : Has(op, "tx") /\ op.name = "matvec"), FormMatvec)
FormCIMProgram(f) == Pruned(FormTiles(FormColumns(f)))
=============================================================================
