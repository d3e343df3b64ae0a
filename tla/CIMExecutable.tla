--------------------------- MODULE CIMExecutable ----------------------------
(***************************************************************************)
(* From an execution plan to the transaction a runtime executes: the       *)
(* static weight section and its packets (the CIMFrame dialect), and       *)
(* compileCIMTransaction, which collects the packets, the works and the    *)
(* bindings of inputs and readbacks.                                       *)
(*                                                                         *)
(* A module is [host, device, weights, packets]: the Host program, the     *)
(* kernels by name, the weight resources and the top-level packets.        *)
(***************************************************************************)
EXTENDS CIMSchedule

ASSUME ExecutableAssumption == Lanes % 2 = 0 /\ Byte = 2 ^ (Mantissa - 1)

-----------------------------------------------------------------------------
(* The bytes of a weight tile as the words of a CIM array: word 8Q + R     *)
(* holds bit R of the inputs Q of the upper and of the lower half, from    *)
(* the last, of every output lane.                                         *)

mapInt8WeightTileToCIMWords(bytes) ==
  [address \in 0..(Lanes \div 2) * Mantissa - 1 |->
     LET q == address \div Mantissa  r == address % Mantissa
         Bit(lane, k) == ((bytes[lane * Lanes + k + 1] % (2 * Byte)) \div 2 ^ r) % 2
     IN [b \in 0..2 * Outs - 1 |->
           Bit(b \div 2, (IF b % 2 = 0 THEN Lanes ELSE Lanes \div 2) - 1 - q)]]
unmapCIMWordsToInt8WeightTile(words) ==
  List(Outs * Lanes, LAMBDA i :
     LET lane == (i - 1) \div Lanes  k == (i - 1) % Lanes
         upper == k >= Lanes \div 2
         q == (IF upper THEN Lanes ELSE Lanes \div 2) - 1 - k
         b == 2 * lane + IF upper THEN 0 ELSE 1
     IN Fit(Byte, Total(List(Mantissa, LAMBDA r : words[q * Mantissa + r - 1][b] * 2 ^ (r - 1)))))

-----------------------------------------------------------------------------
(* Floats on the chip: signed mantissas under the exponent of the largest. *)

Log2(n) == CHOOSE e \in 0..24 : 2 ^ e <= n /\ n < 2 ^ (e + 1)
\* The weight of the last bit of v, as an exponent that may be negative.
FloatExponent(v) == Log2(Magnitude(v)) - (Mantissa - 1)
Shifted(n, e) == IF e >= 0 THEN n * 2 ^ e ELSE n \div 2 ^ (-e)
NoExponent == -2 * Mantissa
\* A negative mantissa is complemented, shifted without its sign and given one
\* sign bit: below the largest exponent that is not a division.
Aligned(v, m, down) ==
  CASE v = 0 \/ down >= Mantissa - 1 -> 0
    [] v > 0 -> m \div 2 ^ (down + 1)
    [] OTHER -> ((2 ^ Mantissa - m) \div 2 ^ (down + 1)) - Byte
AlignedVector(values, exponent) ==
  LET At0(v) == Aligned(v, Shifted(Magnitude(v), -FloatExponent(v)),
                        exponent - FloatExponent(v))
  IN [exponent |-> exponent, mantissas |-> Mapped(At0, values)]
LargestExponent(nonzero) ==
  IF nonzero = {} THEN NoExponent ELSE Max({FloatExponent(v) : v \in nonzero})
prealignBF16Vector(values) == AlignedVector(values, LargestExponent(ToSet(values) \ {0}))
\* The output lanes of a weight tile.
Lane(values, row) == List(Lanes, LAMBDA k : values[(row - 1) * Lanes + k])
WeightTile(rows) ==
  [exponents |-> List(Outs, LAMBDA r : rows[r].exponent),
   mantissas |-> Flat(List(Outs, LAMBDA r : rows[r].mantissas))]
prealignBF16WeightTile(values) ==
  WeightTile(List(Outs, LAMBDA r : prealignBF16Vector(Lane(values, r))))

-----------------------------------------------------------------------------
(* The static weight section and its packets.                              *)

NoBinding == [a \in {} |-> 0]
planStaticWeightCommand(name, step, weights) ==
  LET weight == weights[step.resource]
      bf16 == weight.elem = "bf16"
      tile == prealignBF16WeightTile(weight.data)
  IN [command |-> IF bf16 THEN "WriteBF16Weights" ELSE "WriteInt8Weights",
      route |-> step.mapping.route, macro |-> step.macro,
      words |-> mapInt8WeightTileToCIMWords(IF bf16 THEN tile.mantissas ELSE weight.data),
      exponents |-> IF bf16 THEN tile.exponents ELSE <<>>,
      binding |-> [function |-> name, resource |-> step.resource]
                    @@ [a \in IdentityAttrs |-> step[a]]]
\* The commands of every plan, functions in module order.
MaterializeCIMStaticWeightSection(m, names) ==
  LET Steps(op) == IF op.name = "transaction"
                   THEN SelectSeq(op.at.steps, LAMBDA s : s.step = "configure_weight") ELSE <<>>
      Commands(name) ==
        Mapped(LAMBDA s : planStaticWeightCommand(name, s, m.weights),
               Flat(Mapped(Steps, m.device[name].body)))
  IN Flat(Mapped(Commands, names))

Packet(kind, dataType, c, more) ==
  [packet |-> kind, dataType |-> dataType, route |-> c.route, macro |-> c.macro,
   binding |-> c.binding] @@ more
LowerCIMFrameCommandsToPackets(commands) ==
  LET Lower(c) ==
        LET t == IF c.command = "WriteBF16Weights" THEN "bf16" ELSE "i8"
        IN <<Packet("Control", t, c, NoAttrs)>>
             \o (IF t = "bf16"
                 THEN <<Packet("WeightExponent", t, c, [exponents |-> c.exponents])>>
                 ELSE <<>>)
             \o <<Packet("Weight", t, c, [words |-> c.words])>>
  IN Flat(Mapped(Lower, commands))

-----------------------------------------------------------------------------
(* The executable.                                                         *)

isExecutionPlanFunction(f) == \E op \in ToSet(f.body) : op.name = "transaction"
\* The flits of a packet stage: packets only, none that is copied on its way.
encodeRejected(packets) ==
  \/ packets = <<>>
  \/ \E p \in ToSet(packets) : SubSeq(p.route, 4, 6) # <<0, 0, 0>>

Key(group, work) == <<group, work>>
\* Weight sections, in packet order; a bf16 one takes its exponents from the
\* packet before it.
buildStaticWeight(packets, i) ==
  LET p == packets[i]  b == p.binding
  IN [key |-> Key(b.group, b.work), core |-> b.core, macro |-> b.macro,
      resource |-> b.resource, route |-> p.route, dataType |-> p.dataType,
      values |-> unmapCIMWordsToInt8WeightTile(p.words),
      exponents |-> IF p.dataType = "bf16" THEN packets[i - 1].exponents
                    ELSE List(Outs, LAMBDA r : 0)]
\* What a run sends, apart from payloads.
Frame(kind, dataType, key, macro, route, row) ==
  [kind |-> kind, dataType |-> dataType, key |-> key, macro |-> macro,
   route |-> route, row |-> row]
StaticFrame(p) ==
  Frame(p.packet, p.dataType, Key(p.binding.group, p.binding.work), p.binding.macro,
        p.route, 0)

\* Operand n of the transaction: a Host argument by its own number.
InputSlot(f, tx, n) ==
  LET v == At(f, tx.ins[n]) IN IF v.name = "arg" THEN v.at.n ELSE n
TransactionInputs(f, tx) ==
  Mapped(LAMBDA s : [key |-> Key(s.group, s.work), macro |-> s.macro,
                     slot |-> InputSlot(f, tx, s.arg),
                     dataType |-> ElemOf(f, tx.ins[s.arg]), row |-> s.row],
         SelectSeq(tx.at.steps, LAMBDA s : s.step = "configure_input"))
TransactionReadbacks(tx) ==
  Mapped(LAMBDA s : [key |-> Key(s.group, s.work), macro |-> s.macro, row |-> s.row,
                     route |-> s.mapping.route,
                     dataType |-> IF s.elem = "bf16" THEN "bf16" ELSE "i8"],
         SelectSeq(tx.at.steps, LAMBDA s : s.step = "readback"))
\* The works of a plan by group, groups in the order they are configured.
TransactionGroups(tx) ==
  LET works == ConfiguredWorks(tx)
      Work(w) == [work |-> w.at.work, core |-> w.at.core, macro |-> w.at.macro,
                  route |-> w.at.mapping.route]
  IN List(1 + Last(works).at.group, LAMBDA g :
        [group |-> g - 1, works |-> Mapped(Work, InGroup(works, g - 1))])
DynamicFrames(f, tx) ==
  LET Frames(s) ==
        LET key == Key(s.group, s.work)
            type == IF s.elem = "bf16" THEN "bf16" ELSE "i8"
        IN CASE s.step = "configure_input" ->
                  <<Frame("InputCacheWrite", ElemOf(f, tx.ins[s.arg]), key, s.macro,
                          s.mapping.route, 0)>>
             [] s.step = "readback" ->
                  <<Frame("ReturnRoute", type, key, s.macro, s.mapping.route, 0),
                    Frame("Control", type, key, s.macro, s.mapping.route, 0),
                    Frame("OutputCacheRead", type, key, s.macro, s.mapping.route, s.row)>>
             [] s.step = "once" ->
                  <<Frame("Work", "i8", Key(s.group, -1), -1, s.mapping.route, 0)>>
             [] OTHER -> <<>>
  IN Flat(Mapped(Frames, tx.at.steps))

\* The first element of s with key k; the empty sequence when there is none.
Find(s, k) ==
  LET hits == {i \in DOMAIN s : s[i].key = k}
  IN IF hits = {} THEN <<>> ELSE <<s[Min(hits)]>>
Rejected == [ok |-> FALSE]
compileCIMTransaction(m) ==
  LET plans == {n \in DOMAIN m.device : isExecutionPlanFunction(m.device[n])}
      f == m.device[CHOOSE n \in plans : TRUE]
      txs == SelectSeq(f.body, LAMBDA op : op.name = "transaction")
      tx == txs[1]
      isWeight == SelectSeq(List(Len(m.packets), LAMBDA i : i),
                            LAMBDA i : m.packets[i].packet = "Weight")
      weights == Mapped(LAMBDA i : buildStaticWeight(m.packets, i), isWeight)
      inputs == TransactionInputs(f, tx)
      readbacks == TransactionReadbacks(tx)
      groups == TransactionGroups(tx)
      Matches(key) ==
        LET w == Find(weights, key)  i == Find(inputs, key)  r == Find(readbacks, key)
        IN w # <<>> /\ i # <<>> /\ r # <<>>
           /\ {i[1].dataType, r[1].dataType} = {w[1].dataType}
  IN IF \/ Cardinality(plans) # 1 \/ ~verifyCIMExecutionPlan(f, m.weights)
        \/ Len(txs) # 1 \/ weights = <<>> \/ encodeRejected(m.packets)
        \/ \E i \in DOMAIN inputs : inputs[i].row >= CacheRows \/ readbacks[i].row >= CacheRows
        \/ \E g \in ToSet(groups), w \in UNION {ToSet(h.works) : h \in ToSet(groups)} :
             w \in ToSet(g.works) /\ ~Matches(Key(g.group, w.work))
     THEN Rejected
     ELSE [ok |-> TRUE, groups |-> groups, weights |-> weights, inputs |-> inputs,
           readbacks |-> readbacks,
           packets |-> Mapped(StaticFrame, m.packets) \o DynamicFrames(f, tx)]
=============================================================================
