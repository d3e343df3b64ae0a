----------------------------- MODULE CIMRunners -----------------------------
(***************************************************************************)
(* The two backends of an executable transaction, as functions of its      *)
(* inputs: CIMSoftwareRunner, which follows its plan of waves, and         *)
(* CIMBoardRunner, which builds a device program, has a board execute it   *)
(* and decodes the replies.  The board is the environment: Execute says    *)
(* what it does with a program.                                            *)
(*                                                                         *)
(* A float keeps its value through the exponents of the chip: the constant *)
(* factor between the bits it returns and the value is left out, and so is *)
(* what happens at the ends of the exponent range.                         *)
(***************************************************************************)
EXTENDS CIMExecutable

Slot(core, macro) == 2 * core + macro
Slots == 0..2 * Cores - 1
NoImage ==
  [image |-> [words |-> <<>>, exponents |-> <<>>, route |-> <<>>, dataType |-> "none"],
   mode |-> "none"]
NothingResident == [s \in Slots |-> NoImage]

\* f, and v at x.
With(f, x, v) == [y \in DOMAIN f \cup {x} |-> IF y = x THEN v ELSE f[y]]
\* A set of numbers from the least one up.
Ascending(S) ==
  List(Cardinality(S), LAMBDA n : CHOOSE i \in S : Cardinality({j \in S : j <= i}) = n)

\* The image of a weight section: what CIMWeightCatalog compares.
intern(weight) ==
  [words |-> weight.values, exponents |-> weight.exponents, route |-> weight.route,
   dataType |-> weight.dataType]
Images(exe) == Mapped(intern, exe.weights)
Resident(image, mode) == [image |-> image, mode |-> mode]

-----------------------------------------------------------------------------
(* BF16 on the chip.                                                       *)

\* The highest bits of a sum.  A sum of zero reads as the smallest normal one.
int21ToBF16(sum) == IF sum = 0 THEN 2 ^ (Mantissa - 1) ELSE Truncate(sum)
AlignedInput(values, aligned, mode) ==
  [ok |-> mode = "sign-split" => \A k \in DOMAIN values : values[k] >= 0,
   mantissas |-> aligned.mantissas, exponent |-> aligned.exponent,
   support |-> {k \in DOMAIN values : aligned.mantissas[k] # 0}]
prepareBF16Input(values, mode) == AlignedInput(values, prealignBF16Vector(values), mode)
Int8Input(values) == [ok |-> TRUE, mantissas |-> values, exponent |-> 0, support |-> {}]
validateBF16Group(weight, input, mode) ==
  LET AllLowest(values) == \A k \in DOMAIN values : values[k] = -Byte
  IN CASE mode = "legacy" ->
            ~ /\ AllLowest(input.mantissas)
              /\ \E r \in 1..Outs : AllLowest(Lane(weight.values, r))
       [] mode = "sign-split" -> \A i \in DOMAIN weight.values : weight.values[i] >= 0
       [] OTHER -> TRUE
hasBF16Support(lane, support) == \E k \in support : lane[k] # 0
restoreBF16Output(q, weightExponent, hasSupport, input, mode) ==
  IF mode = "sign-split" /\ ~hasSupport THEN 0
  ELSE Shifted(q, weightExponent + input.exponent + 2)

DotLane(lane, x) == Total(List(Lanes, LAMBDA k : lane[k] * x[k]))
\* The output lanes of one Macro.  raw: as the chip leaves them.
LaneOutput(lane, exponents, r, dataType, input, mode, raw) ==
  LET sum == DotLane(lane, input.mantissas)
  IN CASE dataType = "i8" -> sum
       [] dataType # "i8" /\ raw -> int21ToBF16(sum)
       [] OTHER -> restoreBF16Output(int21ToBF16(sum), exponents[r],
                     mode = "sign-split" => hasBF16Support(lane, input.support), input, mode)
MacroOutput(values, exponents, dataType, input, mode, raw) ==
  List(Outs, LAMBDA r :
     LaneOutput(Lane(values, r), exponents, r, dataType, input, mode, raw))
\* Lanes the software runner computes and finds outside an i21.
OutOfRange(values, dataType, input, mode) ==
  \E r \in 1..Outs :
    /\ dataType = "bf16" /\ mode = "sign-split"
         => hasBF16Support(Lane(values, r), input.support)
    /\ ~IsFit(Acc, DotLane(Lane(values, r), input.mantissas))
PreparedInput(binding, values, mode) ==
  IF binding.dataType = "bf16" THEN prepareBF16Input(values, mode)
  ELSE Int8Input(values)

-----------------------------------------------------------------------------
(* The software runner.                                                    *)

\* The number of a binding among inputs, weights or readbacks.
BindingOf(s, key) == CHOOSE i \in DOMAIN s : s[i].key = key
WorkKey(g, w) == [key |-> Key(g.group, w.work), w |-> w]
WorkKeys(exe) == Flat(Mapped(LAMBDA g : Mapped(LAMBDA w : WorkKey(g, w), g.works), exe.groups))
HasPacket(exe, kind, b) ==
  \E p \in ToSet(exe.packets) :
    p.kind = kind /\ p.key = b.key /\ p.macro = b.macro /\ p.dataType = b.dataType
hasReadbackSequence(exe, r) ==
  \E i \in 1..Len(exe.packets) - 2 :
    SubSeq(exe.packets, i, i + 2) =
      <<Frame("ReturnRoute", r.dataType, r.key, r.macro, r.route, 0),
        Frame("Control", r.dataType, r.key, r.macro, r.route, 0),
        Frame("OutputCacheRead", r.dataType, r.key, r.macro, r.route, r.row)>>
validateWork(exe, k) ==
  LET i == Find(exe.inputs, k.key)  w == Find(exe.weights, k.key)
      r == Find(exe.readbacks, k.key)
  IN /\ i # <<>> /\ w # <<>>
     /\ k.w.core \in 0..Cores - 1 /\ k.w.macro \in {0, 1}
     /\ i[1].macro = k.w.macro /\ w[1].macro = k.w.macro /\ w[1].core = k.w.core
     /\ HasPacket(exe, "InputCacheWrite", i[1]) /\ HasPacket(exe, "Weight", w[1])
     /\ w[1].dataType = "bf16" => HasPacket(exe, "WeightExponent", w[1])
     /\ r # <<>>
     /\ {i[1].dataType, r[1].dataType} = {w[1].dataType}
\* Readbacks of a group as indices, and whether a wave may hold the group.
GroupReadbacks(exe, g) ==
  Ascending({i \in DOMAIN exe.readbacks : exe.readbacks[i].key[1] = g.group})
WorkOf(exe, r) == Find(WorkKeys(exe), r.key)
ReadbackPlaced(exe, r) == WorkOf(exe, r) # <<>> /\ WorkOf(exe, r)[1].w.macro = r.macro
Batchable(exe, g) ==
  /\ \A w \in ToSet(g.works) : validateWork(exe, WorkKey(g, w))
  /\ \A i \in ToSet(GroupReadbacks(exe, g)) :
       hasReadbackSequence(exe, exe.readbacks[i]) /\ ReadbackPlaced(exe, exe.readbacks[i])
GroupCores(g) == {w.core : w \in ToSet(g.works)}
\* Waves: consecutive groups on different Cores.
PlaceGroup(exe, waves, g) ==
  LET last == Last(waves)
      taken == UNION {GroupCores(h) : h \in ToSet(last.groups)}
  IN IF waves # <<>> /\ last.batchable /\ Batchable(exe, g) /\ taken \cap GroupCores(g) = {}
     THEN [waves EXCEPT ![Len(waves)].groups = Append(@, g)]
     ELSE Append(waves, [groups |-> <<g>>, batchable |-> Batchable(exe, g)])
PlanWaves(exe, groups) ==
  LET After[n \in 0..Len(groups)] ==
        IF n = 0 THEN <<>> ELSE PlaceGroup(exe, After[n - 1], groups[n])
  IN After
\* Macro 0 of a wave is read first.
OfMacro(exe, readbacks, macro) ==
  Mapped(LAMBDA n : readbacks[n],
         Ascending({n \in DOMAIN readbacks : exe.readbacks[readbacks[n]].macro = macro}))
WaveReadbacks(exe, w) ==
  LET readbacks == Flat(Mapped(LAMBDA g : GroupReadbacks(exe, g), w.groups))
  IN IF w.batchable THEN OfMacro(exe, readbacks, 0) \o OfMacro(exe, readbacks, 1)
     ELSE readbacks
SortedGroups(groups) ==
  Mapped(LAMBDA n : CHOOSE g \in ToSet(groups) : g.group = n,
         Ascending({g.group : g \in ToSet(groups)}))
SoftwarePlan(exe) ==
  LET sorted == SortedGroups(exe.groups)
      waves == PlanWaves(exe, sorted)[Len(sorted)]
  IN Mapped(LAMBDA w : [groups |-> w.groups, readbacks |-> WaveReadbacks(exe, w)], waves)

\* s: [ok, macros, resid, outs].  The lanes of one work, with the image its
\* weight is taken from, into the output cache.
CacheWork(s, cell, image, input, mode) ==
  IF OutOfRange(image.words, image.dataType, input, mode) THEN [s EXCEPT !.ok = FALSE]
  ELSE [s EXCEPT !.macros =
          With(@, cell,
               MacroOutput(image.words, image.exponents, image.dataType, input, mode, FALSE))]
\* The weight is the resident one, or the section's, which becomes resident;
\* id: the identity of a tracked weight, NoImage of another.
PlaceWork(exe, s, k, weight, id, input, mode) ==
  LET slot == Slot(k.w.core, k.w.macro)
      cell == <<slot, Find(exe.readbacks, k.key)[1].row>>
  IN IF ~ /\ validateWork(exe, k) /\ input.ok
          /\ weight.dataType = "bf16" => validateBF16Group(weight, input, mode)
     THEN [s EXCEPT !.ok = FALSE]
     ELSE IF id = NoImage THEN CacheWork(s, cell, intern(weight), input, mode)
     ELSE CacheWork([s EXCEPT !.resid[slot] = id], cell,
                    IF s.resid[slot] = id THEN id.image ELSE intern(weight), input, mode)
ExecuteWork(exe, inputs, mode, ids, s, k) ==
  LET n == BindingOf(exe.inputs, k.key)
      j == BindingOf(exe.weights, k.key)
  IN IF ~s.ok THEN s
     ELSE PlaceWork(exe, s, k, exe.weights[j],
                    IF ids = <<>> THEN NoImage ELSE Resident(ids[j], mode),
                    PreparedInput(exe.inputs[n], inputs[n], mode), mode)
ReadOutput(exe, s, i) ==
  LET r == exe.readbacks[i]
      work == WorkOf(exe, r)
      cell == <<Slot(work[1].w.core, r.macro), r.row>>
  IN IF ~s.ok \/ ~hasReadbackSequence(exe, r) \/ ~ReadbackPlaced(exe, r)
        \/ cell \notin DOMAIN s.macros
     THEN [s EXCEPT !.ok = FALSE]
     ELSE [s EXCEPT !.outs = With(@, i, s.macros[cell])]
\* The works of every wave, and then its readbacks.
SoftwareSteps(exe) ==
  LET Works(wave) == Mapped(LAMBDA k : [kind |-> "work", work |-> k], WorkKeys(wave))
      Reads(wave) == Mapped(LAMBDA i : [kind |-> "read", readback |-> i], wave.readbacks)
  IN Flat(Mapped(LAMBDA wave : Works(wave) \o Reads(wave), SoftwarePlan(exe)))
SoftwareStep(exe, inputs, mode, ids, s, step) ==
  IF step.kind = "work" THEN ExecuteWork(exe, inputs, mode, ids, s, step.work)
  ELSE ReadOutput(exe, s, step.readback)
\* The states of a run, from start on.
SoftwareStates(exe, steps, inputs, mode, ids, start) ==
  LET After[n \in 0..Len(steps)] ==
        IF n = 0 THEN start
        ELSE SoftwareStep(exe, inputs, mode, ids, After[n - 1], steps[n])
  IN After
\* Any error forgets what is resident.
SoftwareResult(exe, end) ==
  IF end.ok
  THEN [ok |-> TRUE, resid |-> end.resid,
        outs |-> List(Len(exe.readbacks), LAMBDA i : end.outs[i])]
  ELSE [ok |-> FALSE, resid |-> NothingResident, outs |-> <<>>]
SoftwareRun(exe, inputs, mode, resid, ids) ==
  LET start == [ok |-> Len(ids) \in {0, Len(exe.weights)} /\ Len(inputs) = Len(exe.inputs),
                macros |-> NoAttrs, resid |-> resid, outs |-> NoAttrs]
      steps == SoftwareSteps(exe)
  IN SoftwareResult(exe,
       IF start.ok THEN SoftwareStates(exe, steps, inputs, mode, ids, start)[Len(steps)]
       ELSE start)

-----------------------------------------------------------------------------
(* The board runner: the device program.                                   *)

\* The canonical route to a Core.
CoreRoute(core) ==
  LET x == core % GridColumns  y == core \div GridColumns
  IN <<Least(x, y), x - Least(x, y), y - Least(x, y), 0, 0, 0>>
AllCores == 0..Cores - 1
resolveWorkBindings(exe, k) ==
  LET i == Find(exe.inputs, k.key)  w == Find(exe.weights, k.key)
      r == Find(exe.readbacks, k.key)
  IN /\ i # <<>> /\ w # <<>> /\ r # <<>>
     /\ k.w.core \in AllCores /\ k.w.macro \in {0, 1}
     /\ i[1].macro = k.w.macro /\ r[1].macro = k.w.macro
     /\ w[1].macro = k.w.macro /\ w[1].core = k.w.core
     /\ {i[1].dataType, r[1].dataType} = {w[1].dataType}
validateInputs(exe, inputs) ==
  /\ Len(inputs) = Len(exe.inputs)
  /\ \A g \in ToSet(exe.groups) :
       /\ g.works # <<>>
       /\ \A w \in ToSet(g.works) : w.core = g.works[1].core /\ w.route = g.works[1].route
       /\ \A i, j \in DOMAIN g.works : g.works[i].macro = g.works[j].macro => i = j
       /\ \A w \in ToSet(g.works) : w.macro \in {0, 1}
       /\ g.works[1].core \in AllCores
  /\ \A i \in DOMAIN exe.inputs : exe.inputs[i].row \in 0..CacheRows - 1
  /\ \A r \in ToSet(exe.readbacks) :
       /\ r.row \in 0..CacheRows - 1
       /\ WorkOf(exe, r) # <<>>
       /\ r.route = WorkOf(exe, r)[1].w.route /\ r.macro = WorkOf(exe, r)[1].w.macro

\* One batch per Macro: a selection of the Macro on its Cores, then requests;
\* "all" where one broadcast serves every Core.
ReadbackBatch(exe, macro) ==
  LET mine == {i \in DOMAIN exe.readbacks : exe.readbacks[i].macro = macro}
      CoreOf(i) == WorkOf(exe, exe.readbacks[i])[1].w.core
      RowCores(row) == {CoreOf(i) : i \in {j \in mine : exe.readbacks[j].row = row}}
      cores == {CoreOf(i) : i \in mine}
      Types(core) == {exe.readbacks[i].dataType : i \in {j \in mine : CoreOf(j) = core}}
      canonical == \A i \in mine : exe.readbacks[i].route = CoreRoute(CoreOf(i))
      selectAll == /\ canonical /\ cores = AllCores
                   /\ Cardinality(UNION {Types(c) : c \in cores}) = 1
      Request(i) == IF canonical /\ RowCores(exe.readbacks[i].row) = AllCores
                    THEN [core |-> "all", row |-> exe.readbacks[i].row]
                    ELSE [core |-> ToString(CoreOf(i)), row |-> exe.readbacks[i].row]
  IN [macro |-> macro,
      targets |-> {[out |-> i, core |-> CoreOf(i), row |-> exe.readbacks[i].row] : i \in mine},
      select |-> IF selectAll THEN {"all"} ELSE {ToString(c) : c \in cores},
      request |-> {Request(i) : i \in mine},
      ok |-> /\ \A i, j \in mine : CoreOf(i) = CoreOf(j)
                    /\ exe.readbacks[i].row = exe.readbacks[j].row => i = j
             /\ \A c \in cores : Cardinality(Types(c)) = 1]
\* Mutant: the input is written before its Macro is selected.
WorkOperations_InputFirst(exe, inputs, mode, ids, k) ==
  LET n == BindingOf(exe.inputs, k.key)
      j == BindingOf(exe.weights, k.key)
      slot == Slot(k.w.core, k.w.macro)
  IN <<[kind |-> "input", core |-> k.w.core, row |-> exe.inputs[n].row,
        values |-> PreparedInput(exe.inputs[n], inputs[n], mode)],
       [kind |-> "select", core |-> k.w.core, macro |-> k.w.macro,
        dataType |-> exe.inputs[n].dataType],
       [kind |-> "weight", core |-> k.w.core, slot |-> slot, mode |-> mode,
        image |-> IF ids = <<>> THEN intern(exe.weights[j]) ELSE ids[j]]>>
\* The writes of one work; zeroed exponents are restored after the readback.
WorkOperations(exe, inputs, mode, ids, k) ==
  LET n == BindingOf(exe.inputs, k.key)
      j == BindingOf(exe.weights, k.key)
      slot == Slot(k.w.core, k.w.macro)
  IN <<[kind |-> "select", core |-> k.w.core, macro |-> k.w.macro,
        dataType |-> exe.inputs[n].dataType],
       [kind |-> "input", core |-> k.w.core, row |-> exe.inputs[n].row,
        values |-> PreparedInput(exe.inputs[n], inputs[n], mode)],
       [kind |-> "weight", core |-> k.w.core, slot |-> slot, mode |-> mode,
        image |-> IF ids = <<>> THEN intern(exe.weights[j]) ELSE ids[j]]>>
AssembledProgram(exe, inputs, mode, ids, works, batches) ==
  LET Route(k) == Find(exe.readbacks, k.key)[1].route
      writes == Mapped(LAMBDA k : WorkOperations(exe, inputs, mode, ids, k), works)
      Operation(n) == writes[(n + 2) \div 3][1 + ((n + 2) % 3)]
  IN IF \/ works = <<>>
        \/ \E k \in ToSet(works) : ~resolveWorkBindings(exe, k)
        \* One group and one return route per Core.
        \/ \E k, l \in ToSet(works) :
             k.w.core = l.w.core /\ (k.key[1] # l.key[1] \/ Route(k) # Route(l))
        \/ \E b \in ToSet(batches) : ~b.ok
     THEN Rejected
     ELSE [ok |-> TRUE, tracked |-> ids # <<>>,
           operations |-> List(3 * Len(works), Operation),
           work |-> {g.works[1].core : g \in ToSet(exe.groups)},
           batches |-> batches]
materializeProgram(exe, inputs, mode, ids) ==
  LET Batch(b) == IF b.targets = {} THEN <<>> ELSE <<b>>
  IN AssembledProgram(exe, inputs, mode, ids, WorkKeys(exe),
       Batch(ReadbackBatch(exe, 0)) \o Batch(ReadbackBatch(exe, 1)))

-----------------------------------------------------------------------------
(* The board: what a program does to the chip.  chip: the selected Macro   *)
(* of every Core, and the row, the input, the weight and the output cache  *)
(* of every Macro.                                                         *)

Chip == [selected |-> [c \in AllCores |-> 0], inputs |-> NoAttrs,
         weights |-> [s \in Slots |-> NoImage.image], types |-> NoAttrs, cache |-> NoAttrs]
\* A chip, a table of what is resident, and a table that is true of the chip.
IsChip(ch) ==
  /\ ch = [selected |-> ch.selected, inputs |-> ch.inputs, weights |-> ch.weights,
           types |-> ch.types, cache |-> ch.cache]
  /\ ch.selected = [c \in AllCores |-> ch.selected[c]]
  /\ ch.weights = [s \in Slots |-> ch.weights[s]]
IsTable(resid) == resid = [s \in Slots |-> resid[s]]
Holds(ch, resid) ==
  \A s \in Slots : resid[s] # NoImage => ch.weights[s] = resid[s].image
\* Mutant: any resident weight is a hit.
Operate_AnyHit(s, op, tracked) ==
  LET macro == s.chip.selected[op.core]
      slot == Slot(op.core, macro)
      hit == op.kind = "weight" /\ tracked /\ s.resid[op.slot] # NoImage
  IN CASE op.kind = "select" ->
            [s EXCEPT !.chip.selected[op.core] = op.macro,
                      !.chip.types = With(@, Slot(op.core, op.macro), op.dataType)]
       [] op.kind = "input" ->
            [s EXCEPT !.chip.inputs = With(@, slot, [row |-> op.row, values |-> op.values])]
       [] OTHER ->
            [s EXCEPT !.chip.weights[slot] = IF hit THEN @ ELSE op.image,
                      !.resid = IF tracked
                                THEN [@ EXCEPT ![op.slot] = Resident(op.image, op.mode)]
                                ELSE NothingResident]
\* s: [chip, resid].  A tracked weight that is resident is not written.
Operate(s, op, tracked) ==
  LET macro == s.chip.selected[op.core]
      slot == Slot(op.core, macro)
      hit == op.kind = "weight" /\ tracked /\ s.resid[op.slot] = Resident(op.image, op.mode)
  IN CASE op.kind = "select" ->
            [s EXCEPT !.chip.selected[op.core] = op.macro,
                      !.chip.types = With(@, Slot(op.core, op.macro), op.dataType)]
       [] op.kind = "input" ->
            [s EXCEPT !.chip.inputs = With(@, slot, [row |-> op.row, values |-> op.values])]
       [] OTHER ->
            [s EXCEPT !.chip.weights[slot] = IF hit THEN @ ELSE op.image,
                      !.resid = IF tracked
                                THEN [@ EXCEPT ![op.slot] = Resident(op.image, op.mode)]
                                ELSE NothingResident]
\* Once on a Core: every Macro that got an input computes into the row of it.
ChipWork(chip, cores) ==
  LET cells == {<<i, chip.inputs[i].row>> : i \in {j \in DOMAIN chip.inputs : j \div 2 \in cores}}
      Output(i) == MacroOutput(chip.weights[i].words, <<>>, chip.types[i],
                               chip.inputs[i].values, "none", TRUE)
  IN [chip EXCEPT !.cache =
        [cell \in cells \cup DOMAIN @ |-> IF cell \in cells THEN Output(cell[1]) ELSE @[cell]]]
\* The states of the chip and of the table of residents as operations are written.
Operated(chip, resid, operations, tracked) ==
  LET After[n \in 0..Len(operations)] ==
        IF n = 0 THEN [chip |-> chip, resid |-> resid]
        ELSE Operate(After[n - 1], operations[n], tracked)
  IN After
\* The Macro selected on a Core once the first n batches were read.
SelectedAfter(chip, batches, n, core) ==
  LET selecting == {i \in 1..n : batches[i].select \cap {"all", ToString(core)} # {}}
  IN IF selecting = {} THEN chip.selected[core] ELSE batches[Max(selecting)].macro
\* The replies of the batches: the selected Macro's row, for every target asked.
Replies(chip, batches) ==
  LET Cell(r) == <<Slot(r[2].core, SelectedAfter(chip, batches, r[1], r[2].core)), r[2].row>>
      Asked(r) ==
        \E q \in batches[r[1]].request :
          q.core \in {"all", ToString(r[2].core)} /\ q.row = r[2].row
      asked == {r \in UNION {{n} \X batches[n].targets : n \in DOMAIN batches} : Asked(r)}
      sent == {r \in asked : Cell(r) \in DOMAIN chip.cache}
  IN [i \in {r[2].out : r \in sent} |->
        chip.cache[Cell(CHOOSE r \in sent : r[2].out = i)]]
Execute(chip, resid, program) ==
  LET count == Len(program.operations)
      written == Operated(chip, resid, program.operations, program.tracked)[count]
      worked == ChipWork(written.chip, program.work)
      batches == program.batches
  IN [chip |-> [worked EXCEPT !.selected =
                  [c \in AllCores |-> SelectedAfter(worked, batches, Len(batches), c)]],
      resid |-> written.resid,
      out |-> Replies(worked, batches)]

\* Replies decoded, and restored from the exponents that were not sent.
Restored(exe, inputs, mode, raw) ==
  List(Len(exe.readbacks), LAMBDA i :
     LET r == exe.readbacks[i]
         n == BindingOf(exe.inputs, r.key)
         w == Find(exe.weights, r.key)[1]
         input == PreparedInput(exe.inputs[n], inputs[n], mode)
         Support(lane) == mode = "sign-split" => hasBF16Support(lane, input.support)
     IN IF r.dataType = "i8" THEN raw[i]
        ELSE [l \in 1..Outs |-> restoreBF16Output(raw[i][l], w.exponents[l],
                                  Support(Lane(w.values, l)), input, mode)])
\* What is refused before the device is used.
BoardRefuses(exe, inputs, mode, ids) ==
  \/ ~validateInputs(exe, inputs)
  \/ \E k \in ToSet(WorkKeys(exe)) : ~resolveWorkBindings(exe, k)
  \/ Len(ids) \notin {0, Len(exe.weights)}
  \/ \E i \in DOMAIN exe.inputs : ~PreparedInput(exe.inputs[i], inputs[i], mode).ok
  \/ \E k \in ToSet(WorkKeys(exe)) :
       LET n == BindingOf(exe.inputs, k.key)
           w == Find(exe.weights, k.key)[1]
       IN w.dataType = "bf16"
          /\ ~validateBF16Group(w, PreparedInput(exe.inputs[n], inputs[n], mode), mode)
\* A program on the board and its replies restored.
BoardResult(exe, inputs, mode, s) ==
  IF DOMAIN s.out = DOMAIN exe.readbacks
  THEN [ok |-> TRUE, chip |-> s.chip, resid |-> s.resid,
        outs |-> Restored(exe, inputs, mode, s.out)]
  ELSE [ok |-> FALSE, chip |-> s.chip, resid |-> NothingResident, outs |-> <<>>]
ProgramRun(exe, inputs, mode, program, chip, resid) ==
  BoardResult(exe, inputs, mode, Execute(chip, resid, program))
BoardProgram(exe, inputs, mode, ids) ==
  IF BoardRefuses(exe, inputs, mode, ids) THEN Rejected
  ELSE materializeProgram(exe, inputs, mode, ids)
\* The board's part of a run: of a program that was refused, none.
OnBoard(exe, inputs, mode, program, chip, resid) ==
  IF program.ok THEN ProgramRun(exe, inputs, mode, program, chip, resid)
  ELSE [ok |-> FALSE, chip |-> chip, resid |-> resid, outs |-> <<>>]
BoardRun(exe, inputs, mode, ids, chip, resid) ==
  OnBoard(exe, inputs, mode, BoardProgram(exe, inputs, mode, ids), chip, resid)

-----------------------------------------------------------------------------
(* What the runners take from the compiler, and from the data.             *)

IsList(s) == s \in Seq(ToSet(s))
Keyed(s) == IsList(s) /\ \A i, j \in DOMAIN s : s[i].key = s[j].key => i = j
\* Groups have numbers and works their own keys; every work is bound to one
\* input, one weight and one readback, which have their packets; a readback reads
\* the row its input is in.
WellFormed(exe) ==
  /\ IsList(exe.groups) /\ \A g \in ToSet(exe.groups) : g.group \in Nat /\ IsList(g.works)
  /\ \A g, h \in ToSet(exe.groups) : g.group = h.group => g = h
  /\ \A k, l \in ToSet(WorkKeys(exe)) : k.key = l.key => k = l
  /\ Keyed(exe.inputs) /\ Keyed(exe.weights) /\ Keyed(exe.readbacks)
  /\ \A weight \in ToSet(exe.weights) : weight.dataType \in {"i8", "bf16"}
  /\ \A k \in ToSet(WorkKeys(exe)) : validateWork(exe, k)
  /\ \A r \in ToSet(exe.readbacks) :
       /\ hasReadbackSequence(exe, r) /\ ReadbackPlaced(exe, r)
       /\ r.row = exe.inputs[BindingOf(exe.inputs, r.key)].row
ByteLists(n) == [1..n -> -Byte..Byte - 1]
\* Weights and inputs are bytes on the chip, and where validateBF16Group does not
\* see to it, their products fit: proveMatMulIntegerRanges did.
InRange(exe, inputs, mode) ==
  \A k \in ToSet(WorkKeys(exe)) :
    LET n == BindingOf(exe.inputs, k.key)
        weight == exe.weights[BindingOf(exe.weights, k.key)]
        x == PreparedInput(exe.inputs[n], inputs[n], mode).mantissas
    IN /\ weight.values \in ByteLists(Outs * Lanes) /\ x \in ByteLists(Lanes)
       /\ \/ weight.dataType = "bf16" /\ mode \in {"legacy", "sign-split"}
          \/ \A r \in 1..Outs : IsFit(Acc, DotLane(Lane(weight.values, r), x))
=============================================================================
