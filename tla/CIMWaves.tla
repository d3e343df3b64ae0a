------------------------------ MODULE CIMWaves ------------------------------
(***************************************************************************)
(* Device waves as calls of the Host (outlineTransactions of the compiler  *)
(* pipelines) and their order: waves that load the same weights into the   *)
(* same Macros are brought together, first in one wrapper, then over the   *)
(* sign branches of one Linear.                                            *)
(*                                                                         *)
(* A module is [host, order, device, wrappers, weights, packets, mode]:    *)
(* the main function, the device functions' names in module order, those   *)
(* functions, the Host's private functions, the weight resources, the      *)
(* packets, and the compensation mode of its floats.  A "wave" calls an    *)
(* outlined transaction, a "call" a wrapper, and "grouped" the helper of   *)
(* scheduleLinearBranches; "result" is one result of such a call.          *)
(***************************************************************************)
EXTENDS CIMExecutable

\* Operations with a region that no window may hold: linalg ones and loops.
HasRegion(op) ==
  \/ op.name \in {"transpose", "broadcast", "generic", "add", "fill"} \cup DOMAIN Kind
  \/ Has(op, "loop") \/ Has(op, "generic")
Calls == {"call", "wave", "grouped"}
HasEffects(op) == op.name \in Calls

\* Placement and exact tile of every weight of a wave, in order.
weightSignature(tx, weights) ==
  Mapped(LAMBDA s : <<s.core, s.macro, s.mapping, weights[s.resource]>>,
         SelectSeq(tx.at.steps, LAMBDA s : s.step = "configure_weight"))

IndexOf(f, id) == CHOOSE i \in DOMAIN f.body : f.body[i].id = id
\* What the calls need that is computed after the first of them, provided that
\* nothing of it is one of them.
NeededPreparation(f, calls) ==
  LET slices == BackwardSlices(f)
      first == IndexOf(f, calls[1])
      needed == UNION {UNION {slices[v] : v \in ToSet(At(f, c).ins)} : c \in ToSet(calls)}
  IN {v \in needed : IndexOf(f, v) >= first}
movablePreparation(f, calls) ==
  LET first == IndexOf(f, calls[1])  last == IndexOf(f, Last(calls))
  IN /\ \A i \in first..last - 1 :
          f.body[i].id \in ToSet(calls) \/ (~HasEffects(f.body[i]) /\ ~HasRegion(f.body[i]))
     /\ NeededPreparation(f, calls) \cap ToSet(calls) = {}

\* First-seen order of signatures, then the order of the calls.
groupWeightCalls(f, calls, signatures) ==
  LET Signature(c) == signatures[At(f, c).at.callee]
      Seen(s, c) == IF Signature(c) \in ToSet(s) THEN s ELSE Append(s, Signature(c))
      Members(g) == SelectSeq(calls, LAMBDA c : Signature(c) = g)
  IN IF \E c \in ToSet(calls) : At(f, c).at.callee \notin DOMAIN signatures THEN <<>>
     ELSE Flat(Mapped(Members, Fold(Seen, <<>>, calls)))

\* Moves the preparation before the first call.
Prepared(f, calls) ==
  LET first == IndexOf(f, calls[1])
      needed == NeededPreparation(f, calls)
      tail == SubSeq(f.body, first, Len(f.body))
  IN [f EXCEPT !.body = SubSeq(@, 1, first - 1)
                        \o SelectSeq(tail, LAMBDA op : op.id \in needed)
                        \o SelectSeq(tail, LAMBDA op : op.id \notin needed)]
\* Mutant: the calls are prepared but stay in their order.
scheduleWeightCalls_InOrder(f, calls, signatures) ==
  IF movablePreparation(f, calls) THEN Prepared(f, calls) ELSE f
scheduleWeightCalls(f, calls, signatures) ==
  LET grouped == groupWeightCalls(f, calls, signatures)
      g == Prepared(f, calls)
      moved == Mapped(LAMBDA c : At(g, c), grouped)
      Place3(op) == IF op.id = calls[1] THEN moved
                    ELSE IF op.id \in ToSet(calls) THEN <<>> ELSE <<op>>
  IN IF grouped \in {<<>>, calls} \/ ~movablePreparation(f, calls) THEN f
     ELSE [g EXCEPT !.body = Flat(Mapped(Place3, @))]

-----------------------------------------------------------------------------
(* Every transaction a device function of its own, every kernel a private  *)
(* function of the Host.                                                   *)

TransactionsOf(f) == SelectSeq(f.body, LAMBDA op : op.name = "transaction")
WaveName(wrapper, n) == wrapper \o "_transaction_" \o ToString(n)
\* The device function of one transaction.
WaveKernel(f, tx) ==
  LET arg(i) == Op(<<"arg" \o ToString(i)>>, "arg", <<>>, At(f, tx.ins[i]).shape,
                   ElemOf(f, tx.ins[i]), [n |-> i])
      args == List(Len(tx.ins), LAMBDA i : arg(i))
      results == SelectSeq(f.body, LAMBDA op : op.name = "result" /\ op.ins = <<tx.id>>)
  IN [body |-> args \o <<[tx EXCEPT !.ins = Mapped(LAMBDA a : a.id, args), !.at.tx = 0]>>
               \o results,
      out |-> Mapped(LAMBDA r : r.id, results), at |-> NoAttrs]
\* One wrapper: its transactions outlined, its packets given to them.
OutlineWrapper(s, wrapper, scheduleResidency) ==
  LET f == s.device[wrapper]
      txs == TransactionsOf(f)
      Name(id) == WaveName(wrapper, (CHOOSE i \in DOMAIN txs : txs[i].id = id) - 1)
      Wave(op) == IF op.name # "transaction" THEN op
                  ELSE Op(op.id, "wave", op.ins, op.shape, "none", [callee |-> Name(op.id)])
      waves == List(Len(txs), LAMBDA i : txs[i].id)
      kernels == [k \in {Name(id) : id \in ToSet(waves)} |->
                    WaveKernel(f, At(f, CHOOSE id \in ToSet(waves) : Name(id) = k))]
      resident == f.at.resid >= 0
      signed == IF scheduleResidency /\ resident
                THEN [k \in DOMAIN kernels |->
                        weightSignature(TransactionsOf(kernels[k])[1], s.weights)]
                ELSE NoAttrs
      Owner(p) ==
        LET w == {k \in DOMAIN kernels :
                    \E c \in ToSet(TransactionsOf(kernels[k])[1].at.steps) :
                      c.step = "configure_weight" /\ c.resource = p.binding.resource}
        IN IF p.binding.function # wrapper \/ w = {} THEN p
           ELSE [p EXCEPT !.binding.function = CHOOSE k \in w : TRUE]
      host == [f EXCEPT !.body = Mapped(Wave, @)]
      signatures == signed @@ s.signatures
  IN [s EXCEPT !.device = kernels @@ [k \in DOMAIN @ \ {wrapper} |-> @[k]],
               !.order = SelectSeq(@, LAMBDA k : k # wrapper) \o Mapped(Name, waves),
               !.packets = Mapped(Owner, @),
               !.signatures = signatures,
               !.wrappers = (wrapper :> IF Len(waves) > 1 /\ resident
                                        THEN scheduleWeightCalls(host, waves, signatures)
                                        ELSE host) @@ @]

-----------------------------------------------------------------------------
(* The branches of one Linear in one helper.                               *)

Helper(origin) == "__cim_resident_linear_" \o ToString(origin)
Clone(n, ops) ==
  Mapped(LAMBDA op : [op EXCEPT !.id = <<n>> \o @, !.ins = Mapped(LAMBDA v : <<n>> \o v, @)],
         ops)
BranchesGrouped(s, origin) ==
  LET host == s.host
      calls == Walk(host, LAMBDA op : /\ op.name = "call" /\ ~Has(op, "loop")
                                      /\ op.at.callee \in DOMAIN s.wrappers
                                      /\ s.wrappers[op.at.callee].at.resid = origin)
      callee == List(Len(calls), LAMBDA i : s.wrappers[At(host, calls[i]).at.callee])
      operands == Flat(List(Len(calls), LAMBDA i : At(host, calls[i]).ins))
      \* Argument and body of the i-th branch, every call having one operand.
      Branch(i) ==
        Mapped(LAMBDA op : IF op.name = "arg" THEN [op EXCEPT !.at.n = i] ELSE op,
               Clone(i, callee[i].body))
      body == Flat(List(Len(calls), LAMBDA i : Branch(i)))
      helper == [body |-> body, out |-> List(Len(calls), LAMBDA i : <<i>> \o callee[i].out[1]),
                 at |-> [resid |-> -1]]
      waves == Walk(helper, LAMBDA op : op.name = "wave")
      valid == \A op \in ToSet(body) :
                 IF op.name = "wave" THEN op.at.callee \in DOMAIN s.signatures
                 ELSE ~HasEffects(op) /\ ~HasRegion(op)
      groupedId == <<"grouped", origin>>
      grouped == Op(groupedId, "grouped", operands, <<Len(calls)>>, "none",
                    [callee |-> Helper(origin)])
      Result(i) == LET c == At(host, calls[i])
                   IN Op(c.id, "result", <<groupedId>>, c.shape, c.elem, [n |-> i])
      Place4(op) == IF op.id = calls[1]
                    THEN <<grouped>> \o List(Len(calls), LAMBDA i : Result(i))
                    ELSE IF op.id \in ToSet(calls) THEN <<>> ELSE <<op>>
  IN IF \/ Len(calls) < 2 \/ ~movablePreparation(host, calls) \/ ~valid \/ waves = <<>>
        \/ groupWeightCalls(helper, waves, s.signatures) = waves
     THEN s
     ELSE [s EXCEPT !.host = [Prepared(host, calls) EXCEPT !.body = Flat(Mapped(Place4, @))],
                    !.wrappers = (Helper(origin) :>
                      scheduleWeightCalls(helper, waves, s.signatures)) @@ @]
\* Wrappers no call names are erased.
CalledOnly(s) ==
  LET called == {op.at.callee : op \in {o \in ToSet(s.host.body) : o.name \in {"call", "grouped"}}}
  IN [s EXCEPT !.wrappers = Restrict(@, DOMAIN @ \cap called)]
scheduleLinearBranches(s) ==
  LET origins == SetToSortSeq({s.wrappers[w].at.resid : w \in DOMAIN s.wrappers} \ {-1}, <)
  IN IF s.mode # "sign-split" \/ DOMAIN s.signatures = {} THEN s
     ELSE CalledOnly(Fold(BranchesGrouped, s, origins))

outlineTransactions(m, scheduleResidency) ==
  Restrict(scheduleLinearBranches(
             Fold(LAMBDA s, w : OutlineWrapper(s, w, scheduleResidency),
                  [signatures |-> NoAttrs] @@ m, m.order)),
           DOMAIN m)
=============================================================================
