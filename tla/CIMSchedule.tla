---------------------------- MODULE CIMSchedule -----------------------------
(***************************************************************************)
(* The order and the place of the single-Macro products, and the execution *)
(* plan made of them: materialize-cim-schedule, map-cim-schedule,          *)
(* materialize-cim-execution-plan and the verifier of plans.               *)
(*                                                                         *)
(* A plan replaces the products of one wave by a transaction: every input  *)
(* and weight is configured, every Core is triggered once, every result is *)
(* read back.  An operation "result" is one result of a transaction.       *)
(***************************************************************************)
EXTENDS CIMForm

CONSTANTS
  GridColumns,  \* columns of the grid of Cores (5)
  CacheRows     \* rows of the input and of the output cache of a Macro (8)

ASSUME ScheduleAssumption == {GridColumns, CacheRows} \subseteq Nat \ {0}

VMMs(f) == SelectSeq(f.body, LAMBDA op : op.name = "vmm")
Transactions(works) == {w.at.tx : w \in ToSet(works)}
InTransaction(works, t) == SelectSeq(works, LAMBDA w : w.at.tx = t)
InGroup(works, g) == SelectSeq(works, LAMBDA w : w.at.group = g)
\* Each value with every value it is computed from, itself included.
BackwardSlices(f) ==
  Fold(LAMBDA env, op : env @@ (op.id :> {op.id} \cup UNION {env[v] : v \in ToSet(op.ins)}),
       NoAttrs, f.body)
\* Numbers that begin at zero and grow by at most one.
Dense(numbers) ==
  \A i \in DOMAIN numbers :
    IF i = 1 THEN numbers[i] = 0 ELSE numbers[i] - numbers[i - 1] \in {0, 1}

-----------------------------------------------------------------------------
(* Order: M-major, N-major, K-minor; two works of one segment share a Core. *)

WorkId(segment, w) ==
  LET Tiles(a) == 1 + Max({v.at[a] : v \in ToSet(segment)})
  IN (w.at.m_tile * Tiles("n_tile") + w.at.n_tile) * Tiles("k_tile") + w.at.k_tile
ScheduleRejected(f) ==
  LET slices == BackwardSlices(f)
  IN \/ ~Dense(Mapped(LAMBDA w : w.at.tx, VMMs(f)))
     \/ \E t \in Transactions(VMMs(f)) :
          LET s == InTransaction(VMMs(f), t)
              Tiles(a) == 1 + Max({v.at[a] : v \in ToSet(s)})
          IN \/ Tiles("m_tile") * Tiles("n_tile") * Tiles("k_tile") # Len(s)
             \/ \E i \in DOMAIN s : WorkId(s, s[i]) # i - 1
             \/ \E i \in 1..Len(s) - 1 :
                  i % 2 = 1 /\ (s[i].id \in slices[s[i + 1].id]
                                \/ s[i + 1].id \in slices[s[i].id])
MaterializeCIMSchedule(f) ==
  [f EXCEPT !.body = Mapped(LAMBDA op :
     IF op.name # "vmm" THEN op
     ELSE LET work == WorkId(InTransaction(VMMs(f), op.at.tx), op)
          IN [op EXCEPT !.at = [work |-> work, group |-> work \div 2] @@ @], @)]

-----------------------------------------------------------------------------
(* Place: core-major, two Macros per Core; a route goes diagonally first.  *)

MapRejected(f) == \E op \in ToSet(VMMs(f)) : op.at.group # op.at.work \div 2
MapCIMSchedule(f) ==
  LET Mapping(core) ==
        LET row == core \div GridColumns  column == core % GridColumns
            diagonal == Least(row, column)
        IN [core_coord |-> <<row, column>>,
            route |-> <<diagonal, column - diagonal, row - diagonal, 0, 0, 0>>]
      Core(work) == (work \div 2) % Cores
  IN [f EXCEPT !.body = Mapped(LAMBDA op :
        IF op.name # "vmm" THEN op
        ELSE [op EXCEPT !.at = [core |-> Core(op.at.work), macro |-> op.at.work % 2,
                                mapping |-> Mapping(Core(op.at.work))] @@ @], @)]

-----------------------------------------------------------------------------
(* The execution plan.                                                     *)

CollectRejected(f) ==
  LET s == VMMs(f)
  IN \/ ~Dense(Mapped(LAMBDA w : w.at.tx, s))
     \/ \E i \in DOMAIN s :
          \/ s[i].at.work # IF i = 1 \/ s[i].at.tx # s[i - 1].at.tx THEN 0
                            ELSE s[i - 1].at.work + 1
          \/ s[i].at.group # s[i].at.work \div 2 \/ s[i].at.macro > 1
          \/ ~IsKnown(f, s[i].ins[2])

\* A wave holds one group per Core: a group whose Core is taken opens the next
\* transaction, whose groups and works are numbered from zero again.  s: where the
\* work before comes from, its numbers, the Cores of its wave, the works so far.
NoWave ==
  [source |-> -1, group |-> -1, tx |-> -1, local |-> 0, work |-> 0, cores |-> {}, out |-> <<>>]
OpensGroup(s, w) == w.at.tx # s.source \/ w.at.group # s.group
OpensWave(s, w) ==
  \/ w.at.tx # s.source
  \/ OpensGroup(s, w) /\ (w.at.core \in s.cores \/ Cardinality(s.cores) = Cores)
Numbered(w, tx, group, work) ==
  [w EXCEPT !.at.tx = tx, !.at.group = group, !.at.work = work]
PlaceInWave(s, w) ==
  LET fresh == OpensWave(s, w)
      opens == OpensGroup(s, w)
      tx == IF fresh THEN s.tx + 1 ELSE s.tx
      group == IF fresh THEN 0 ELSE IF opens THEN s.local + 1 ELSE s.local
      work == IF fresh THEN 0 ELSE s.work + 1
  IN [source |-> w.at.tx, group |-> w.at.group, tx |-> tx, local |-> group, work |-> work,
      cores |-> (IF fresh THEN {} ELSE s.cores) \cup (IF opens THEN {w.at.core} ELSE {}),
      out |-> Append(s.out, Numbered(w, tx, group, work))]
Waves(works) == Fold(PlaceInWave, NoWave, works).out
GroupsRejected(works) ==
  \E a \in ToSet(works) :
    LET g == InGroup(InTransaction(works, a.at.tx), a.at.group)
    IN ~ \/ Len(g) = 1 /\ g[1].at.macro = 0
         \/ /\ Len(g) = 2 /\ g[1].at.core = g[2].at.core
            /\ g[1].at.macro = 0 /\ g[2].at.macro = 1
            /\ g[1].at.mapping = g[2].at.mapping

\* Every input of a transaction is computed before its first product: what
\* prepares it moves up, in order, unless it needs the transaction itself.
Preparation(f, works, t) ==
  LET slices == BackwardSlices(f)
  IN UNION {slices[w.ins[1]] : w \in ToSet(InTransaction(works, t))}
PreparationRejected(f, works) ==
  \E t \in Transactions(works) :
    \E w \in ToSet(InTransaction(works, t)) : w.id \in Preparation(f, works, t)
\* Mutant: what prepares a transaction stays where it is.
Hoisted_Nothing(f, works, t) == f
Hoisted(f, works, t) ==
  LET start == InTransaction(works, t)[1].id
      p == CHOOSE i \in DOMAIN f.body : f.body[i].id = start
      preparation == Preparation(f, works, t)
      tail == SubSeq(f.body, p, Len(f.body))
      Prepares(op) == op.id \in preparation
  IN [f EXCEPT !.body = SubSeq(@, 1, p - 1) \o SelectSeq(tail, Prepares)
                        \o SelectSeq(tail, LAMBDA op : ~Prepares(op))]

IdentityAttrs == {"m_tile", "n_tile", "k_tile", "work", "group", "core", "macro", "mapping"}
Step(name, w, more) == [step |-> name] @@ more @@ [a \in IdentityAttrs |-> w.at[a]]
Resource(name, w) == <<name, w.at.tx, w.at.work>>
\* The three phases over the works of one transaction.
PlanSteps(works, Input(_), Weight(_)) ==
  LET Configure(w) ==
        <<Step("configure_input", w,
               [arg |-> Input(w), row |-> w.at.n_tile % CacheRows]),
          Step("configure_weight", w, [resource |-> Weight(w)])>>
      groups == List(1 + Last(works).at.group, LAMBDA g : InGroup(works, g - 1))
      Work(g) == Mapped(LAMBDA w : Step("dispatch", w, NoAttrs), g)
                   \o <<[step |-> "once", group |-> g[1].at.group,
                         core |-> g[1].at.core, mapping |-> g[1].at.mapping]>>
      Read(g) == Mapped(LAMBDA w : Step("readback", w, [elem |-> w.elem,
                          row |-> w.at.n_tile % CacheRows]), g)
                   \o <<[step |-> "group_barrier", group |-> g[1].at.group]>>
  IN Flat(Mapped(Configure, works)) \o Flat(Mapped(Work, groups)) \o Flat(Mapped(Read, groups))

\* The inputs of a transaction, each once, in the order of first use.
DistinctInputs(works) ==
  Fold(LAMBDA s, w : IF w.ins[1] \in ToSet(s) THEN s ELSE Append(s, w.ins[1]), <<>>, works)
Position1(s, v) == CHOOSE i \in DOMAIN s : s[i] = v
TransactionId(t) == <<"tx", t>>
TransactionOps(name, works, t) ==
  LET s == InTransaction(works, t)
      inputs == DistinctInputs(s)
      Input(w) == Position1(inputs, w.ins[1])
      Weight(w) == Resource(name, w)
  IN <<Op(TransactionId(t), "transaction", inputs, <<Len(s)>>, "none",
          [tx |-> t, steps |-> PlanSteps(s, Input, Weight)])>>
       \o List(Len(s), LAMBDA i : Op(s[i].id, "result", <<TransactionId(t)>>, s[i].shape,
                                 s[i].elem, [n |-> i]))

PlanRejected(f) ==
  LET works == Waves(VMMs(f))
  IN CollectRejected(f) \/ GroupsRejected(works) \/ PreparationRejected(f, works)
\* The function with its transactions, each in the place of its first product.
Planned(name, f) ==
  LET works == Waves(VMMs(f))
      waves == SetToSortSeq(Transactions(works), <)
      hoisted == Fold(LAMBDA g, t : Hoisted(g, works, t), f, waves)
      ids == {w.id : w \in ToSet(works)}
      Starts(op) == {w \in ToSet(works) : w.id = op.id /\ w.at.work = 0}
      Replace(op) ==
        IF op.id \notin ids THEN <<op>>
        ELSE Flat(Mapped(LAMBDA w : TransactionOps(name, works, w.at.tx),
                         SetToSeq(Starts(op))))
  IN [hoisted EXCEPT !.body = Flat(Mapped(Replace, @))]
PlanWeights(name, f) ==
  LET works == Waves(VMMs(f))
      Named(weights, w) ==
        Resource(name, w) :> [data |-> KnownData(f, w.ins[2]), elem |-> ElemOf(f, w.ins[2])]
          @@ weights
  IN Fold(Named, NoAttrs, works)

-----------------------------------------------------------------------------
(* The verifier.                                                           *)

\* The works a transaction configures, as the products they stand for.
ConfiguredWorks(tx) ==
  Mapped(LAMBDA s : [at |-> s, elem |-> "i8"],
         SelectSeq(tx.at.steps, LAMBDA s : s.step = "configure_input"))
verifyTransaction(f, tx, weights) ==
  LET steps == tx.at.steps
      Named(name) == SelectSeq(steps, LAMBDA s : s.step = name)
      works == ConfiguredWorks(tx)
      inputs == Named("configure_input")
      resources == Named("configure_weight")
      readbacks == Named("readback")
      Plain(s) == [a \in DOMAIN s \ {"arg", "resource", "elem", "row"} |-> s[a]]
      Elem(i) == ElemOf(f, tx.ins[inputs[i].arg])
      groups == {w.at.group : w \in ToSet(works)}
      Members(g) == InGroup(works, g)
      CoreOf(g) == Members(g)[1].at.core
  IN /\ works # <<>>
     /\ Dense(Mapped(LAMBDA w : w.at.group, works))
     \* The three phases, each step with the identity of its work or group.
     /\ Mapped(Plain, steps) = Mapped(Plain, PlanSteps(works, LAMBDA w : 0, LAMBDA w : 0))
     /\ \A i \in DOMAIN works :
          /\ works[i].at.work = i - 1
          /\ resources[i].resource \in DOMAIN weights
          /\ weights[resources[i].resource].elem = Elem(i)
          /\ inputs[i].arg \in DOMAIN tx.ins
          /\ Elem(i) = "bf16" => readbacks[i].elem = "bf16"
          /\ Elem(i) = "i8" => readbacks[i].elem = "i21"
     /\ \A g \in groups :
          /\ Len(Members(g)) \in {1, 2}
          /\ \A i \in DOMAIN Members(g) :
               /\ Members(g)[i].at.macro = i - 1
               /\ Members(g)[i].at.core = CoreOf(g)
               /\ Members(g)[i].at.mapping = Members(g)[1].at.mapping
     /\ \A i, j \in DOMAIN works :
          works[i].at.group = works[j].at.group => Elem(i) = Elem(j)
     /\ \A g, h \in groups : CoreOf(g) = CoreOf(h) => g = h
     /\ Cardinality(groups) <= Cores
\* Between transactions there are Host operations only.
verifyCIMExecutionPlan(f, weights) ==
  LET txs == SelectSeq(f.body, LAMBDA op : op.name = "transaction")
  IN /\ \A i \in DOMAIN txs : txs[i].at.tx = i - 1 /\ verifyTransaction(f, txs[i], weights)
     /\ \A op \in ToSet(f.body) : op.name # "vmm"
=============================================================================
