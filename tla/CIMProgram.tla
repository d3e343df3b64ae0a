----------------------------- MODULE CIMProgram -----------------------------
(***************************************************************************)
(* The programs the compiler rewrites: tensors, operations, functions, and *)
(* the two analyses every pass uses, evaluateDenseTensor (which values are *)
(* known at compile time) and proveMatMulIntegerRanges (which weights can  *)
(* never leave a signed i21 partial sum).                                  *)
(*                                                                         *)
(* A tensor is its elements in row-major order.  A float is an integer: it *)
(* keeps Mantissa significant bits once it is a bf16.  An operation is a   *)
(* record whose ins are the ids of the values it reads; a function is a    *)
(* body in SSA order and the ids it returns.                               *)
(***************************************************************************)
EXTENDS Integers, SequencesExt, FiniteSetsExt, TLC

CONSTANTS
  Lanes,     \* inputs of one Macro (64)
  Outs,      \* outputs of one Macro (16)
  Byte,      \* half the range of a weight or an input (i8: 128)
  Acc,       \* half the range of a partial sum (i21: 2^20)
  Word,      \* half the range of an i32
  Mantissa   \* significant bits of a bf16 (8)

ASSUME ProgramAssumption ==
  /\ {Lanes, Outs, Byte, Acc, Word, Mantissa} \subseteq Nat \ {0}
  /\ Acc = Lanes * Byte * Byte
  /\ Word > Acc

-----------------------------------------------------------------------------
(* Sequences.  Fold is FoldLeft with a linear evaluation: the passes fold  *)
(* over bodies of hundreds of operations, so it goes by stretches, each    *)
(* begun from the value of the one before, and recursion stays shallow.    *)
(* List is a function on 1..n as a tuple, so that its elements are         *)
(* evaluated once.                                                         *)

List(n, F(_)) == <<>> \o [i \in 1..n |-> F(i)]
\* F(v), v evaluated first.
Eagerly(v, F(_)) == CHOOSE r \in {F(x) : x \in {v}} : TRUE
Stretch == 16
Fold(op(_, _), base, s) ==
  LET Steps(acc, from) ==
        LET F[i \in from..Len(s)] == IF i = from THEN acc ELSE op(F[i - 1], s[i])
        IN F[IF from + Stretch < Len(s) THEN from + Stretch ELSE Len(s)]
      count == (Len(s) + Stretch - 1) \div Stretch
      After[b \in 0..count] ==
        IF b = 0 THEN base
        ELSE Eagerly(After[b - 1], LAMBDA acc : Steps(acc, (b - 1) * Stretch))
  IN After[count]
Total(s) == Fold(LAMBDA a, b : a + b, 0, s)
Product(s) == Fold(LAMBDA a, b : a * b, 1, s)
Flat(s) == Fold(LAMBDA a, b : a \o b, <<>>, s)
Mapped(F(_), s) == List(Len(s), LAMBDA i : F(s[i]))
CeilDiv(a, b) == (a + b - 1) \div b
Least(a, b) == IF a < b THEN a ELSE b

-----------------------------------------------------------------------------
(* Coordinates: c is the coordinate of element i (from 0) of a tensor.     *)

Stride(shape, d) == Product(SubSeq(shape, d + 1, Len(shape)))
Coord(shape, i) ==
  List(Len(shape), LAMBDA d : (i \div Stride(shape, d)) % shape[d])
Index(shape, c) == Total(List(Len(shape), LAMBDA d : c[d] * Stride(shape, d)))

-----------------------------------------------------------------------------
(* Numbers.                                                                *)

Fit(half, v) == ((v + half) % (2 * half)) - half
IsFit(half, v) == v \in -half..half - 1
Ints == {"i8", "i21", "i32", "i64"}
Half(elem) == CASE elem = "i8" -> Byte [] elem = "i21" -> Acc [] OTHER -> Word
Wrap(elem, v) == IF elem \in {"i8", "i21", "i32"} THEN Fit(Half(elem), v) ELSE v

Magnitude(v) == IF v < 0 THEN -v ELSE v
\* The weight of the last bit a bf16 keeps of v.
Unit(v) ==
  LET U[u \in Nat] ==
        IF Magnitude(v) < 2 ^ (Mantissa + u) THEN 2 ^ u ELSE U[u + 1]
  IN U[0]
\* Round to nearest even, and truncation toward zero, to a bf16.
Rounded(n, u) ==
  LET q == n \div u  r == n % u
  IN IF 2 * r > u \/ (2 * r = u /\ q % 2 = 1) THEN (q + 1) * u ELSE q * u
Signed(v, n) == IF v < 0 THEN -n ELSE n
RoundEven(v) == Signed(v, Rounded(Magnitude(v), Unit(v)))
Truncate(v) == Signed(v, Magnitude(v) - (Magnitude(v) % Unit(v)))

-----------------------------------------------------------------------------
(* Operations.  "at" holds an operation's attributes.                      *)

NoAttrs == [a \in {} |-> 0]
Op(id, name, ins, shape, elem, at) ==
  [id |-> id, name |-> name, ins |-> ins, shape |-> shape, elem |-> elem,
   at |-> at]
Has(op, a) == a \in DOMAIN op.at
Get(op, a, default) == IF Has(op, a) THEN op.at[a] ELSE default
Size(op) == Product(op.shape)

At(f, id) == f.body[CHOOSE i \in DOMAIN f.body : f.body[i].id = id]
\* The ids of the operations that satisfy P, in the order of a walk.
Walk(f, P(_)) == Mapped(LAMBDA op : op.id, SelectSeq(f.body, P))
Users(f, id) == {op \in ToSet(f.body) : id \in ToSet(op.ins)}
Uses(f, id) ==
  Total(Mapped(LAMBDA op : Len(SelectSeq(op.ins, LAMBDA v : v = id)), f.body))
  + Len(SelectSeq(f.out, LAMBDA v : v = id))

\* Replaces operation id by ops, the last of which computes its value.
Splice(f, id, ops) ==
  [f EXCEPT !.body = Flat(Mapped(
     LAMBDA op : IF op.id = id THEN ops ELSE <<op>>, f.body))]
\* Applies rewrite R to each of ids in turn.
Rewrite(f, ids, R(_, _)) ==
  Fold(LAMBDA g, id : Splice(g, id, R(g, At(g, id))), f, ids)
Erase(f, ids) == [f EXCEPT !.body = SelectSeq(@, LAMBDA op : op.id \notin ids)]

\* Dead code goes with every canonicalization.
Live(f) ==
  Fold(LAMBDA need, op : IF op.id \in need THEN need \cup ToSet(op.ins) ELSE need,
       ToSet(f.out), Reverse(f.body))
Pruned(f) ==
  LET live == Live(f)
  IN Erase(f, {op.id : op \in {o \in ToSet(f.body) : o.id \notin live /\ o.name # "arg"}})

Const(id, shape, elem, data) ==
  Op(id, "const", <<>>, shape, elem, [data |-> data])
Splat(id, shape, elem, v) ==
  Const(id, shape, elem, List(Product(shape), LAMBDA i : v))

\* A value that moves elements: element i of the result is element from[i][2]
\* of source from[i][1], or zero when from[i][1] is 0.
Move(id, name, xs, shape, G(_), at) ==
  Op(id, name, Mapped(LAMBDA x : x.id, xs), shape, xs[1].elem,
     at @@ [from |-> List(Product(shape), LAMBDA i : G(Coord(shape, i - 1)))])

Reshape(id, x, shape) ==
  Op(id, "reshape", <<x.id>>, shape, x.elem,
     [from |-> List(Size(x), LAMBDA i : <<1, i>>)])
Transpose(id, x) ==
  Move(id, "transpose", <<x>>, <<x.shape[2], x.shape[1]>>,
       LAMBDA c : <<1, 1 + Index(x.shape, <<c[2], c[1]>>)>>, NoAttrs)
\* sizes has the rank of x; shape may drop its unit dimensions.
Slice(id, x, offs, sizes, shape) ==
  Op(id, "slice", <<x.id>>, shape, x.elem,
     [offs |-> offs, sizes |-> sizes, rank |-> Len(x.shape),
      from |-> List(Product(shape), LAMBDA i :
        LET c == Coord(sizes, i - 1)
        IN <<1, 1 + Index(x.shape, List(Len(sizes), LAMBDA d : offs[d] + c[d]))>>)])
PadTo(id, x, shape) ==
  Move(id, "pad", <<x>>, shape,
       LAMBDA c : IF \E d \in DOMAIN c : c[d] >= x.shape[d] THEN <<0, 0>>
                  ELSE <<1, 1 + Index(x.shape, c)>>, NoAttrs)
\* Along dimension dim, the parts one after the other.
Concat(id, xs, dim) ==
  LET start[n \in 1..Len(xs)] ==
        IF n = 1 THEN 0 ELSE start[n - 1] + xs[n - 1].shape[dim]
      last == start[Len(xs)] + xs[Len(xs)].shape[dim]
  IN Move(id, "concat", xs, [xs[1].shape EXCEPT ![dim] = last],
          LAMBDA c :
            LET n == Max({k \in 1..Len(xs) : start[k] <= c[dim]})
            IN <<n, 1 + Index(xs[n].shape, [c EXCEPT ![dim] = @ - start[n]])>>,
          [dim |-> dim])
\* y with x written over the rows that begin at offs.
Insert(id, x, y, offs) ==
  Move(id, "insert", <<x, y>>, y.shape,
       LAMBDA c :
         LET k == List(Len(c), LAMBDA d : c[d] - offs[d])
         IN IF \A d \in DOMAIN c : k[d] \in 0..x.shape[d] - 1
            THEN <<1, 1 + Index(x.shape, k)>> ELSE <<2, 1 + Index(y.shape, c)>>,
       NoAttrs)
\* x copied along the dimensions dims of the result.
Broadcast(id, x, shape, dims) ==
  LET kept == SetToSortSeq(DOMAIN shape \ ToSet(dims), <)
  IN Move(id, "broadcast", <<x>>, shape,
          LAMBDA c : <<1, 1 + Index(x.shape, Mapped(LAMBDA d : c[d], kept))>>,
          [dims |-> dims])
\* A linalg.generic that only reads x at the coordinate G gives.
Gather(id, x, shape, G(_)) ==
  Move(id, "generic", <<x>>, shape, LAMBDA c : <<1, 1 + Index(x.shape, G(c))>>,
       NoAttrs)

\* An elementwise operation: "generic" ones are linalg.generic regions.
Each(id, name, xs, elem) ==
  Op(id, name, Mapped(LAMBDA x : x.id, xs), xs[1].shape, elem, NoAttrs)

-----------------------------------------------------------------------------
(* Contractions.  The loops of a kind are those of the result, in its      *)
(* order, then the reduction loops; a and b name the loops that index each *)
(* dimension of the operands ("h": oh * stride + kh * dilation).           *)

Kind ==
  [matvec |-> [loops |-> <<"m", "k">>, a |-> <<"m", "k">>, b |-> <<"k">>],
   matmul |-> [loops |-> <<"m", "n", "k">>, a |-> <<"m", "k">>, b |-> <<"k", "n">>],
   matmul_transpose_b |->
     [loops |-> <<"m", "n", "k">>, a |-> <<"m", "k">>, b |-> <<"n", "k">>],
   batch_matmul |->
     [loops |-> <<"b", "m", "n", "k">>, a |-> <<"b", "m", "k">>,
      b |-> <<"b", "k", "n">>],
   conv_2d_nchw_fchw |->
     [loops |-> <<"n", "f", "oh", "ow", "c", "kh", "kw">>,
      a |-> <<"n", "c", "h", "w">>, b |-> <<"f", "c", "kh", "kw">>],
   conv_2d_nhwc_hwcf |->
     [loops |-> <<"n", "oh", "ow", "f", "kh", "kw", "c">>,
      a |-> <<"n", "h", "w", "c">>, b |-> <<"kh", "kw", "c", "f">>],
   conv_2d_ngchw_gfchw |->
     [loops |-> <<"n", "g", "f", "oh", "ow", "c", "kh", "kw">>,
      a |-> <<"n", "g", "c", "h", "w">>, b |-> <<"g", "f", "c", "kh", "kw">>],
   depthwise_conv_2d_nchw_chw |->
     [loops |-> <<"n", "g", "oh", "ow", "kh", "kw">>,
      a |-> <<"n", "g", "h", "w">>, b |-> <<"g", "kh", "kw">>]]
Matmuls == {"matmul", "matmul_transpose_b"}
Convs == {k \in DOMAIN Kind : "h" \in ToSet(Kind[k].a)}

\* red: the sizes of the reduction loops.  mark: "matmul_integer", "cim_int8"
\* or "conv_integer" when the operation carries that attribute.
Dot(id, name, a, b, init, shape, red, at) ==
  Op(id, name, <<a.id, b.id, init.id>>, shape, init.elem, at @@ [red |-> red])
Mark(op) == Get(op, "mark", "none")
Int8Marks == {"matmul_integer", "cim_int8"}
LoopSizes(op) ==
  LET n == Kind[op.name].loops  s == op.shape \o op.at.red
  IN [l \in ToSet(n) |-> s[CHOOSE i \in DOMAIN n : n[i] = l]]
\* The coordinate a list of index names stands for at loop position p.
Place(op, names, p) ==
  LET stride == Get(op, "stride", <<1, 1>>)
      dilation == Get(op, "dilation", <<1, 1>>)
  IN Mapped(LAMBDA l :
       CASE l = "h" -> p["oh"] * stride[1] + p["kh"] * dilation[1]
         [] l = "w" -> p["ow"] * stride[2] + p["kw"] * dilation[2]
         [] OTHER -> p[l], names)

-----------------------------------------------------------------------------
(* Values known at compile time.                                           *)

Moved(op, xs) ==
  List(Len(op.at.from), LAMBDA i :
     LET g == op.at.from[i] IN IF g[1] = 0 THEN 0 ELSE xs[g[1]][g[2]])
\* Which operations evaluateDenseTensor follows.
Foldable(op) ==
  CASE op.name \in {"reshape", "transpose"} -> TRUE
    [] op.name = "slice" -> op.at.rank = 2 /\ Len(op.shape) = 2
    [] op.name = "pad" -> Len(op.shape) = 2
    [] op.name = "truncf" -> op.elem = "bf16"
    [] OTHER -> FALSE
KnownStep(env, op) ==
  IF op.name \in {"const", "fill"} THEN env @@ (op.id :> op.at.data)
  ELSE IF Foldable(op) /\ ToSet(op.ins) \subseteq DOMAIN env
  THEN env @@ (op.id :>
         LET x == env[op.ins[1]]
         IN IF op.name = "truncf" THEN Mapped(RoundEven, x) ELSE Moved(op, <<x>>))
  ELSE env
evaluateDenseTensor(f) == Fold(KnownStep, NoAttrs, f.body)
IsKnown(f, id) == id \in DOMAIN evaluateDenseTensor(f)
KnownData(f, id) == evaluateDenseTensor(f)[id]
AllZero(data) == \A i \in DOMAIN data : data[i] = 0
isZeroSplat(f, id) ==
  At(f, id).name = "const" /\ AllZero(At(f, id).at.data)
isEvaluatedZeroSplat(f, id) == IsKnown(f, id) /\ AllZero(KnownData(f, id))

-----------------------------------------------------------------------------
(* The i21 contract of an integer contraction.                             *)

AnyByte == <<-Byte, Byte - 1>>
\* The rows of a concatenation that are all ones.
OnesRows(f, c) ==
  LET parts == Mapped(LAMBDA i : At(f, i), c.ins)
      First(n) == Total(List(n - 1, LAMBDA j : parts[j].shape[1]))
      Ones(p) == p.shape[1] = 1 /\ p.name = "const" /\ \A i \in DOMAIN p.at.data : p.at.data[i] = 1
  IN {1 + First(n) : n \in {i \in DOMAIN parts : Ones(parts[i])}}
IsBiased(c, k) ==
  c.name = "concat" /\ c.at.dim = 1 /\ Len(c.shape) = 2 /\ c.shape[1] = k
\* Mutant: the bias lane is not seen through the slice of one column.
getMatMulIntegerInputRanges_NoColumn(f, id, k) ==
  LET c == At(f, id)
  IN List(k, LAMBDA i : IF IsBiased(c, k) /\ i \in OnesRows(f, c) THEN <<1, 1>> ELSE AnyByte)
\* The range of each input lane of a weight matrix with k columns: a row of
\* ones of a concatenation (the bias lane) is known to be one.
getMatMulIntegerInputRanges(f, id, k) ==
  LET x == At(f, id)
      column == x.name = "slice" /\ Len(x.shape) = 1
      c == IF column THEN At(f, x.ins[1]) ELSE x
      known == /\ IsBiased(c, k)
               /\ column => x.at.offs[1] = 0 /\ x.at.sizes = <<k, 1>>
  IN List(k, LAMBDA i : IF known /\ i \in OnesRows(f, c) THEN <<1, 1>> ELSE AnyByte)

\* Every partial sum of at most Lanes products stays in an i21, whatever the
\* inputs in their ranges.
proveMatMulIntegerRanges(rows, k, weights, ranges) ==
  \A r \in 0..rows - 1, t \in 0..CeilDiv(k, Lanes) - 1 :
    LET End(up) == Total(List(Least(k - t * Lanes, Lanes), LAMBDA j :
          LET l == t * Lanes + j  w == weights[r * k + l]
          IN w * ranges[l][IF (w >= 0) = up THEN 2 ELSE 1]))
    IN IsFit(Acc, End(FALSE)) /\ IsFit(Acc, End(TRUE))
=============================================================================
