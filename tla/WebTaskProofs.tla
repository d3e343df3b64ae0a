--------------------------- MODULE WebTaskProofs ----------------------------
(***************************************************************************)
(* Proofs about WebTask.  Inv is inductive by itself and holds the whole   *)
(* agreement of the manager with its worker: the types, what goes with     *)
(* each place of the manager (PlaceInv), the files of a task (FileInv),    *)
(* when nothing may run (QuietInv), who runs (ProcessInv) and what         *)
(* state.json and the pipe say of it (HearInv).  RowInv, CancelInv,        *)
(* ModelInv and DeathInv are each inductive on top of it.                  *)
(***************************************************************************)
EXTENDS WebTask, SequenceTheorems, TLAPS

-----------------------------------------------------------------------------
\* The invariant.

Types ==
    /\ pointer \in Tasks \cup {None}
    /\ config \in [Tasks -> Nat \cup {None}]
    /\ state \in [Tasks -> Documents \cup {None}]
    /\ results \in [Tasks -> Seq(Nat)]
    /\ weights \in Nat
    /\ pc \in Steps /\ then \in Steps
    /\ call \in Requests \cup {"snapshot", "init"}
    /\ doc \in Documents
    /\ draft \in [task : Tasks \cup {None}, weights : Nat]
    /\ current \in Tasks \cup {None} /\ process \in Workers \cup {None}
    /\ seen \in Statuses
    /\ shown \in [status : Statuses, completed : Nat] \cup {None}
    /\ worker \in [Workers -> WorkerRecords]
    /\ asked \in BOOLEAN /\ calls \in Nat /\ mishaps \in Nat

Whole(t) == config[t] # None /\ state[t] # None

\* The manager is between the choice to send a command and the send.
Commanding == pc \in {"command", "send"} \/ (pc = "saving" /\ then = "send")

\* What goes with each place of the manager.
PlaceInv ==
    /\ pc = "recover" => then \in {"dispatch", "idle", "down"}
    /\ pc = "saving" => then \in {"dispatch", "idle", "down", "spawn", "send"}
    /\ pc \in {"mark", "marking", "saving", "count", "decide", "launch", "spawn",
               "command", "send", "cancel"} => current # None
    /\ pc \in {"decide", "launch", "spawn", "command", "send"} => call \in Actions
    /\ pc = "saving" /\ then \in {"spawn", "send"} => call \in Actions
    /\ Commanding => call \in Commands
    /\ pc \in {"stop", "join"} => call \in {"import", "close"} \cup Actions
    /\ pc \in {"stop", "join"} /\ call \in Actions => current # None
    /\ pc \in {"stop", "join"} /\ call = "close" => then = "down"
    /\ pc \in {"mark", "marking"} => then = "dispatch"
    /\ pc \in {"join", "cancel"} \/ Commanding => process # None
    /\ pc \in {"down", "mark", "marking", "recover", "create", "describe", "point",
               "launch", "spawn"} => process = None
    /\ pc = "saving" /\ then # "send" => process = None
    /\ pc = "index" => call = "import"

\* A task that is pointed to is whole, and an import completes it before.
FileInv ==
    /\ pointer # None => Whole(pointer)
    /\ current # None => Whole(current)
    /\ pc \in {"stop", "join"} /\ call = "import" => draft.task \in Tasks
    /\ pc \in {"create", "describe", "point"} => draft.task \in Tasks
    /\ pc \in {"describe", "point"} => config[draft.task] # None
    /\ pc = "point" => state[draft.task] # None

\* Between the test that nothing runs and the first save, nothing does; what a
\* save of the manager makes of the status.
QuietInv ==
    /\ pc \in {"index", "decide", "create", "describe", "point", "launch",
               "command"} => ~Busy
    /\ pc \in {"stop", "join"} /\ call # "close" => ~Busy
    /\ pc = "saving" => (then \in {"spawn", "send"} <=> doc.status \in ACTIVE)
    /\ pc \in {"spawn", "send"} => Busy

\* The process of the manager works on its task, and no other is armed.
ProcessInv ==
    /\ process # None => current # None /\ worker[process].at # "unused"
    /\ \A w \in Workers :
         /\ worker[w].at = "unused" => worker[w] = NoWorker
         /\ worker[w].at # "unused" =>
              worker[w].task \in Tasks /\ Whole(worker[w].task)
         /\ w # process => worker[w].at \in {"unused", "boot"}
         /\ worker[w].at = "boot" => worker[w].commands = <<>>
         /\ worker[w].at = "saving" =>
              worker[w].then \in {"validate", "load", "compile", "run", "recv",
                                  "check", "exit"}
         /\ worker[w].at = "committing" => worker[w].then = "check"

\* What state.json says of the worker, and the pipe.
HearInv ==
    process # None =>
        LET me == worker[process] IN
        /\ me.task = current
        /\ me.at \notin {"recv", "exit", "dead"} => Busy
        /\ me.at = "recv" /\ me.commands = <<>> /\ pc # "send" => ~Busy
        /\ me.at = "exit" => ~Busy /\ ~state[current].compiled
        /\ me.commands = <<>> \/ Len(me.commands) = 1
        /\ me.commands # <<>> => Busy /\ me.at \in {"recv", "dead"} /\ ~Commanding
        /\ me.at = "saving" /\ me.then = "exit" => ~me.doc.compiled
        /\ me.at = "saving" => (me.then \in {"recv", "exit"} <=>
                                 me.doc.status \notin ACTIVE)
        /\ Commanding => me.at \in {"recv", "dead"}

\* The rows a worker holds are those it saved, or one more.
RowOf(me) ==
    /\ me.at \in {"check", "infer"} \/ (me.at = "saving" /\ me.then = "check")
         => me.rows = results[me.task] /\ me.target <= Total
    /\ me.at = "infer" => Len(me.rows) < me.target
    /\ me.at = "committing" =>
         /\ Len(results[me.task]) < Total
         /\ me.rows = Append(results[me.task], me.model) /\ me.target <= Total
    /\ me.at = "saving" /\ me.doc.status = "completed" =>
         Len(results[me.task]) = Total

\* So is what the manager is about to save or to show.
DocInv ==
    /\ pc \in {"marking", "saving"} /\ doc.status = "completed" =>
         Len(results[current]) = Total
    /\ pc = "count" /\ seen = "completed" => Len(results[current]) = Total

RowInv ==
    /\ \A t \in Tasks : Len(results[t]) <= Total
    /\ \A w \in Workers : RowOf(worker[w])
    /\ DocInv

\* Once a row is committed under a cancel, no other is begun before it is
\* cleared; the event of the current run was set by a cancel of this run.
LateOf(me) ==
    /\ me.late <= 1
    /\ me.late = 1 =>
         /\ me.cancel
         /\ \/ me.at \in {"check", "recv", "fail", "exit", "dead"}
            \/ me.at = "saving" /\ me.then \in {"check", "recv", "exit"}
         /\ me.commands = <<>>

CancelInv ==
    /\ process # None /\ worker[process].cancel => asked
    /\ Commanding /\ pc # "command" =>
         ~worker[process].cancel /\ worker[process].late = 0
    /\ \A w \in Workers : LateOf(worker[w])

\* A worker that loaded its weights loaded those of the import, and an import
\* writes to a new directory.
ModelOf(me) ==
    /\ me.at = "load" \/ (me.at = "saving" /\ me.then = "load")
         => weights = config[me.task]
    /\ (\/ me.at \in {"compile", "run", "check", "infer", "committing", "recv"}
        \/ me.at = "saving" /\ me.then \in {"compile", "run", "check", "recv"})
         => me.model = config[me.task]

ModelInv ==
    /\ pc = "create" \/ (pc \in {"stop", "join"} /\ call = "import") =>
         config[draft.task] = None
    /\ \A w \in Workers : ModelOf(worker[w])

Inv == Types /\ PlaceInv /\ FileInv /\ QuietInv /\ ProcessInv /\ HearInv

-----------------------------------------------------------------------------
\* Types.

USE DEF Alive, Armed, ParentAlive, Busy, Whole

\* What a worker may become is a worker record.
LEMMA UpdateType ==
    ASSUME NEW me \in WorkerRecords, NEW status \in Statuses, NEW next \in Places
    PROVE  Update(me, status, next) \in WorkerRecords
  BY DEF Update, WorkerRecords, Documents, Places

\* The record of no process is one.
LEMMA NoWorkerType == NoWorker \in WorkerRecords
  BY DEF NoWorker, WorkerRecords, Places, Actions, Commands, Fresh, Documents,
     Statuses

\* So is what a process that ends leaves.
LEMMA EndedType ==
    ASSUME Types, NEW w \in Workers, NEW code \in {0, 1}
    PROVE  Ended(w, code) \in WorkerRecords
<1>1. worker[w] \in WorkerRecords
  BY DEF Types
<1>2. [worker[w] EXCEPT !.at = "dead", !.code = code] \in WorkerRecords
  BY <1>1 DEF WorkerRecords, Places
<1> QED
  BY <1>2, NoWorkerType DEF Ended

\* Types if only one worker changes.
LEMMA OneWorkerTypes ==
    ASSUME Types, NEW w \in Workers, NEW r \in WorkerRecords,
           worker' = [worker EXCEPT ![w] = r],
           UNCHANGED <<files, service, history>>
    PROVE  Types'
  BY DEF Types, files, service, history

\* A worker step keeps the types.
LEMMA WorkerTypes ==
    ASSUME Types, PlaceInv, FileInv, ProcessInv, WebAssumption,
           NEW w \in Workers, WorkerStep(w)
    PROVE  Types'
<1> DEFINE me == worker[w]
<1>0. me \in WorkerRecords
  BY DEF Types
<1>1. CASE WorkerArms(w)
  <2>1. [me EXCEPT !.at = "begin"] \in WorkerRecords
    BY <1>0 DEF WorkerRecords, Places
  <2> QED
    BY <1>1, <2>1, EndedType, OneWorkerTypes DEF WorkerArms
<1>2. CASE WorkerBegins(w)
  <2>1. state[me.task] \in Documents
    BY <1>2 DEF WorkerBegins, ProcessInv, Types
  <2>2. [me EXCEPT !.doc = state[me.task]] \in WorkerRecords
    BY <1>0, <2>1 DEF WorkerRecords
  <2>3. Update([me EXCEPT !.doc = state[me.task]], "validating", "validate")
          \in WorkerRecords
    BY <2>2, UpdateType DEF Statuses, ACTIVE, Places
  <2> QED
    BY <1>2, <2>3, OneWorkerTypes DEF WorkerBegins
<1>3. CASE WorkerValidates(w)
  <2>1. /\ Update(me, "loading", "load") \in WorkerRecords
        /\ [me EXCEPT !.at = "fail"] \in WorkerRecords
    BY <1>0, UpdateType DEF Statuses, ACTIVE, Places, WorkerRecords
  <2> QED
    BY <1>3, <2>1, OneWorkerTypes DEF WorkerValidates
<1>4. CASE WorkerLoads(w)
  <2>1. [me EXCEPT !.model = weights] \in WorkerRecords
    BY <1>0 DEF WorkerRecords, Types
  <2>2. Update([me EXCEPT !.model = weights], "compiling", "compile") \in WorkerRecords
    BY <2>1, UpdateType DEF Statuses, ACTIVE, Places
  <2> QED
    BY <1>4, <2>2, OneWorkerTypes DEF WorkerLoads
<1>5. CASE WorkerCompiles(w)
  <2>1. [me EXCEPT !.doc.compiled = TRUE] \in WorkerRecords
    BY <1>0 DEF WorkerRecords, Documents
  <2>2. \A status \in {"running", "cancelled", "ready"}, next \in {"run", "recv"} :
          Update([me EXCEPT !.doc.compiled = TRUE], status, next) \in WorkerRecords
    BY <2>1, UpdateType DEF Statuses, ACTIVE, Places
  <2>3. PICK status \in {"running", "cancelled", "ready"}, next \in {"run", "recv"} :
          worker' = [worker EXCEPT ![w] =
                       Update([me EXCEPT !.doc.compiled = TRUE], status, next)]
    BY <1>5 DEF WorkerCompiles
  <2> QED
    BY <1>5, <2>2, <2>3, OneWorkerTypes DEF WorkerCompiles
<1>6. CASE WorkerRuns(w)
  <2>1. Restored(w) \in Seq(Nat)
    BY <1>6 DEF WorkerRuns, Restored, Types, ProcessInv
  <2>2. Target(w) \in Nat
    BY <2>1, WebAssumption DEF Target, WebAssumption
  <2>3. [me EXCEPT !.rows = Restored(w), !.target = Target(w)] \in WorkerRecords
    BY <1>0, <2>1, <2>2 DEF WorkerRecords
  <2>4. Update([me EXCEPT !.rows = Restored(w), !.target = Target(w)],
               "running", "check") \in WorkerRecords
    BY <2>3, UpdateType DEF Statuses, ACTIVE, Places
  <2> QED
    BY <1>6, <2>4, OneWorkerTypes DEF WorkerRuns
<1>7. CASE WorkerChecks(w)
  <2>1. Final(w) \in Statuses /\ "cancelled" \in Statuses /\ "recv" \in Places
    BY DEF Final, Statuses, Places
  <2>2. /\ Update(me, Final(w), "recv") \in WorkerRecords
        /\ Update(me, "cancelled", "recv") \in WorkerRecords
    BY <1>0, <2>1, UpdateType
  <2>3. [me EXCEPT !.at = "infer"] \in WorkerRecords
    BY <1>0 DEF Places, WorkerRecords
  <2> QED
    BY <1>7, <2>2, <2>3, OneWorkerTypes DEF WorkerChecks
<1>8. CASE WorkerInfers(w)
  <2>1. Append(me.rows, me.model) \in Seq(Nat)
    BY <1>0 DEF WorkerRecords
  <2>2. [me EXCEPT !.at = "committing", !.then = "check",
                   !.rows = Append(me.rows, me.model)] \in WorkerRecords
    BY <1>0, <2>1 DEF WorkerRecords, Places
  <2> QED
    BY <1>8, <2>2, OneWorkerTypes DEF WorkerInfers
<1>9. CASE WorkerCommits(w)
  <2>0. Late(w) \in Nat
    BY DEF Late
  <2>1a. me.late + Late(w) \in Nat
    BY <1>0, <2>0 DEF WorkerRecords
  <2>1. [me EXCEPT !.late = me.late + Late(w)] \in WorkerRecords
    BY <1>0, <2>1a DEF WorkerRecords
  <2>2. Update([me EXCEPT !.late = me.late + Late(w)], "running", "check")
          \in WorkerRecords
    BY <2>1, UpdateType DEF Statuses, ACTIVE, Places
  <2>3. worker' \in [Workers -> WorkerRecords]
    BY <1>9, <2>2 DEF WorkerCommits, Types
  <2>4. results' \in [Tasks -> Seq(Nat)]
    BY <1>0, <1>9 DEF WorkerCommits, Types, WorkerRecords
  <2> QED
    BY <1>9, <2>3, <2>4 DEF WorkerCommits, Types, service, history
<1>10. CASE WorkerReceives(w)
  <2>1. Head(me.commands) \in Commands /\ Tail(me.commands) \in Seq(Commands)
    BY <1>0, <1>10 DEF WorkerReceives, WorkerRecords
  <2>2. \A place \in {"run", "fail"} :
          [me EXCEPT !.at = place, !.action = Head(me.commands),
                     !.commands = Tail(me.commands)] \in WorkerRecords
    BY <1>0, <2>1 DEF WorkerRecords, Places, Actions
  <2> QED
    BY <1>10, <2>2, OneWorkerTypes DEF WorkerReceives
<1>11. CASE WorkerSaves(w)
  <2>1. [me EXCEPT !.at = me.then] \in WorkerRecords
    BY <1>0 DEF WorkerRecords
  <2>2. worker' \in [Workers -> WorkerRecords]
    BY <1>11, <2>1 DEF WorkerSaves, Types
  <2>3. me.doc \in Documents
    BY <1>0 DEF WorkerRecords
  <2>4. state' \in [Tasks -> Documents \cup {None}]
    BY <1>11, <2>3 DEF WorkerSaves, Types
  <2> QED
    BY <1>11, <2>2, <2>4 DEF WorkerSaves, Types, service, history
<1>12. CASE WorkerFails(w)
  <2>1. [me EXCEPT !.doc.compiled = FALSE] \in WorkerRecords
    BY <1>0 DEF WorkerRecords, Documents
  <2>2. Update([me EXCEPT !.doc.compiled = FALSE], "interrupted", "exit")
          \in WorkerRecords
    BY <2>1, UpdateType DEF Statuses, ACTIVE, Places
  <2> QED
    BY <1>12, <2>2, OneWorkerTypes DEF WorkerFails
<1>13. CASE WorkerExits(w)
  BY <1>13, EndedType, OneWorkerTypes DEF WorkerExits
<1> QED
  BY <1>1, <1>2, <1>3, <1>4, <1>5, <1>6, <1>7, <1>8, <1>9, <1>10, <1>11, <1>12,
     <1>13 DEF WorkerStep

\* A manager step keeps the types.
LEMMA ManagerTypes ==
    ASSUME Types, PlaceInv, FileInv, ProcessInv, WebAssumption, ManagerStep
    PROVE  Types'
<1>0. process # None => worker[process] \in WorkerRecords
  BY DEF Types
<1>0a. current # None => state[current] \in Documents
  BY DEF Types, FileInv
<1>1. CASE ReapDead \/ ReapNothing
  <2>1. worker' \in [Workers -> WorkerRecords]
    BY <1>1, NoWorkerType DEF ReapDead, ReapNothing, Types
  <2> QED
    BY <1>1, <2>1 DEF ReapDead, ReapNothing, Types, files, history, Steps
<1>2. CASE Mark
  <2>1. [state[current] EXCEPT !.status = "interrupted"] \in Documents
    BY <1>2, <1>0a DEF Mark, PlaceInv, Documents, Statuses
  <2> QED
    BY <1>2, <2>1 DEF Mark, Types, files, history, Steps
<1>3. CASE Recover
  <2>1. current # None => state[current].status \in Statuses
    BY <1>0a DEF Documents
  <2>2. "interrupted" \in Statuses
    BY DEF Statuses
  <2>3. doc' \in Documents
    <3>1. CASE current = None
      BY <1>3, <3>1 DEF Recover, Types
    <3>2. CASE current # None
      <4>1. PICK status \in Statuses :
              doc' = [status |-> status, compiled |-> FALSE]
        BY <1>3, <3>2, <2>1, <2>2 DEF Recover
      <4> QED
        BY <4>1 DEF Documents
    <3> QED
      BY <3>1, <3>2
  <2> QED
    BY <1>3, <2>3 DEF Recover, Types, files, history, Steps
<1>4. CASE ManagerSaves
  BY <1>4 DEF ManagerSaves, Types, PlaceInv, FileInv, history, Steps
<1>5. CASE BeginSnapshot
  BY <1>5 DEF BeginSnapshot, Types, FileInv, files, history, Steps, Documents
<1>6. CASE EndSnapshot
  BY <1>6 DEF EndSnapshot, Types, PlaceInv, files, history, Steps
<1>7. CASE EnsureIdle \/ Index \/ Stop \/ BeginCancel
  BY <1>7 DEF EnsureIdle, Index, Stop, BeginCancel, Stopped, Refuse, Types, files,
     history, Steps
<1>8. CASE Terminated
  <2>1. process \in Workers
    BY <1>8 DEF Terminated, PlaceInv, Types
  <2> QED
    BY <1>8, <2>1, EndedType, OneWorkerTypes DEF Terminated
<1>9. CASE Join
  <2>1. worker' \in [Workers -> WorkerRecords]
    BY <1>9, NoWorkerType DEF Join, Types
  <2> QED
    BY <1>9, <2>1 DEF Join, Stopped, Types, files, history, Steps
<1>10. CASE Create
  BY <1>10 DEF Create, Types, FileInv, history, Steps
<1>11. CASE Describe
  BY <1>11 DEF Describe, Fresh, Types, FileInv, history, Steps, Documents,
     Statuses
<1>12. CASE Point
  BY <1>12 DEF Point, Answer, Types, FileInv, history, Steps
<1>13. CASE Decide
  <2>1. state[current] \in Documents
    BY <1>13 DEF Decide, Types, PlaceInv, FileInv
  <2> QED
    BY <1>13, <2>1 DEF Decide, Answer, Types, files, history, Steps
<1>14. CASE Launch
  BY <1>14 DEF Launch, Types, files, history, Steps, Documents, Statuses, ACTIVE
<1>15. CASE Spawn
  <2>1. PICK w \in Workers :
          /\ worker' = [worker EXCEPT ![w] =
                         [@ EXCEPT !.at = "boot", !.task = current, !.action = call]]
          /\ process' = w
    BY <1>15 DEF Spawn
  <2>2. [worker[w] EXCEPT !.at = "boot", !.task = current, !.action = call]
          \in WorkerRecords
    <3>1. worker[w] \in WorkerRecords /\ current \in Tasks \cup {None}
            /\ call \in Actions
      BY <1>15 DEF Spawn, Types, PlaceInv
    <3> QED
      BY <3>1 DEF WorkerRecords, Places
  <2>3. worker' \in [Workers -> WorkerRecords]
    BY <2>1, <2>2 DEF Types
  <2> QED
    BY <1>15, <2>1, <2>3 DEF Spawn, Answer, Types, files, Steps
<1>16. CASE Command
  <2>1. [worker[process] EXCEPT !.cancel = Cleared, !.late = 0] \in WorkerRecords
    <3>1. worker[process] \in WorkerRecords
      BY <1>0, <1>16 DEF Command, PlaceInv, Commanding
    <3> QED
      BY <3>1 DEF Cleared, WorkerRecords
  <2>2. worker' \in [Workers -> WorkerRecords]
    BY <1>16, <2>1 DEF Command, Types
  <2>3. [doc EXCEPT !.status = "running"] \in Documents
    BY DEF Types, Documents, Statuses, ACTIVE
  <2> QED
    BY <1>16, <2>2, <2>3 DEF Command, Types, files, Steps
<1>17. CASE Send
  <2>1. Append(worker[process].commands, call) \in Seq(Commands)
    BY <1>0, <1>17 DEF Send, PlaceInv, Commanding, WorkerRecords
  <2>2. [worker[process] EXCEPT !.commands = Append(worker[process].commands, call)]
          \in WorkerRecords
    <3>1. worker[process] \in WorkerRecords
      BY <1>0, <1>17 DEF Send, PlaceInv, Commanding
    <3> QED
      BY <2>1, <3>1 DEF WorkerRecords
  <2>3. worker' \in [Workers -> WorkerRecords]
    BY <1>17, <2>2 DEF Send, Types
  <2> QED
    BY <1>17, <2>3 DEF Send, Answer, Types, files, history, Steps
<1>18. CASE SetCancel
  <2>1. [worker[process] EXCEPT !.cancel = TRUE] \in WorkerRecords
    <3>1. worker[process] \in WorkerRecords
      BY <1>0, <1>18 DEF SetCancel, PlaceInv
    <3> QED
      BY <3>1 DEF WorkerRecords
  <2>2. worker' \in [Workers -> WorkerRecords]
    BY <1>18, <2>1 DEF SetCancel, Types
  <2> QED
    BY <1>18, <2>2 DEF SetCancel, Answer, Types, files, Steps
<1> QED
  BY <1>1, <1>2, <1>3, <1>4, <1>5, <1>6, <1>7, <1>8, <1>9, <1>10, <1>11, <1>12,
     <1>13, <1>14, <1>15, <1>16, <1>17, <1>18 DEF ManagerStep

\* The environment keeps the types.
LEMMA OtherTypes ==
    ASSUME Types, PlaceInv, FileInv, ProcessInv, WebAssumption,
           \/ Poll \/ StartService \/ ServiceCrash \/ SpawnFails
           \/ ManagerSaveFails \/ WeightsChange
           \/ \E request \in Requests : Call(request)
           \/ \E w \in Workers :
                WorkerSaveFails(w) \/ EngineFails(w) \/ WorkerKilled(w)
    PROVE  Types'
<1>1. CASE Poll \/ StartService \/ SpawnFails \/ ManagerSaveFails \/ WeightsChange
  BY <1>1 DEF Poll, Answer, StartService, SpawnFails, ManagerSaveFails, Raised,
     WeightsChange, Mishap, Types, files, service, history, Steps
<1>2. CASE ServiceCrash
  BY <1>2, NoWorkerType DEF ServiceCrash, Mishap, Types, files, Steps
<1>3. CASE \E request \in Requests : Call(request)
  BY <1>3 DEF Call, Types, files, Steps
<1>4. ASSUME NEW w \in Workers,
             WorkerSaveFails(w) \/ EngineFails(w) \/ WorkerKilled(w)
      PROVE  Types'
  <2>1. /\ [worker[w] EXCEPT !.at = "fail"] \in WorkerRecords
        /\ Ended(w, 1) \in WorkerRecords
    <3>1. worker[w] \in WorkerRecords
      BY DEF Types
    <3> QED
      BY <3>1, EndedType DEF WorkerRecords, Places
  <2>2. worker' \in [Workers -> WorkerRecords]
    BY <1>4, <2>1 DEF WorkerSaveFails, EngineFails, WorkerKilled, Types
  <2> QED
    BY <1>4, <2>2 DEF WorkerSaveFails, EngineFails, WorkerKilled, Mishap, Types,
       files, service
<1> QED
  BY <1>1, <1>2, <1>3, <1>4

-----------------------------------------------------------------------------
\* Structure.

\* A pipe of one command is empty after it.
LEMMA OneTail ==
    ASSUME NEW s \in Seq(Commands), Len(s) = 1
    PROVE  Tail(s) = <<>>
<1>1. s # <<>>
  BY EmptySeq
<1>2. Tail(s) \in Seq(Commands) /\ Len(Tail(s)) = 0
  BY <1>1, HeadTailProperties
<1> QED
  BY <1>2, EmptySeq

\* A worker step keeps the rest.
LEMMA WorkerKeeps ==
    ASSUME Inv, WebAssumption, NEW w \in Workers, WorkerStep(w)
    PROVE  PlaceInv' /\ FileInv' /\ QuietInv' /\ ProcessInv' /\ HearInv'
<1> DEFINE me == worker[w]
<1> USE DEF Inv
<1>0. /\ me \in WorkerRecords /\ worker \in [Workers -> WorkerRecords]
      /\ me.at # "unused" /\ me.at # "dead"
  BY DEF Types, WorkerStep, WorkerArms, WorkerBegins, WorkerValidates,
     WorkerLoads, WorkerCompiles, WorkerRuns, WorkerChecks, WorkerInfers,
     WorkerCommits, WorkerReceives, WorkerSaves, WorkerFails, WorkerExits
<1>1. UNCHANGED <<service, history, pointer, config>>
  BY DEF WorkerStep, WorkerArms, WorkerBegins, WorkerValidates, WorkerLoads,
     WorkerCompiles, WorkerRuns, WorkerChecks, WorkerInfers, WorkerCommits,
     WorkerReceives, WorkerSaves, WorkerFails, WorkerExits, files
<1>2. PlaceInv'
  BY <1>1 DEF PlaceInv, Commanding, service
<1>3. CASE WorkerSaves(w)
  <2>0. me.doc # None
    BY <1>0, WebAssumption DEF WebAssumption, WorkerRecords
  <2>1. FileInv'
    BY <1>0, <1>1, <1>3, <2>0 DEF WorkerSaves, FileInv, ProcessInv, Types, service
  <2>2. QuietInv'
    <3>1. process = w /\ Busy /\ ~Commanding
      BY <1>0, <1>3 DEF WorkerSaves, HearInv, ProcessInv
    <3>2. /\ pc \notin {"index", "decide", "create", "describe", "point", "launch",
                         "command", "spawn", "send"}
          /\ ~(pc \in {"stop", "join"} /\ call # "close")
      BY <3>1, WebAssumption DEF QuietInv, PlaceInv, Commanding, WebAssumption
    <3> QED
      BY <1>1, <3>2 DEF QuietInv, service
  <2>3. ProcessInv'
    BY <1>0, <1>1, <1>3, <2>0 DEF WorkerSaves, ProcessInv, Types, service
  <2>4. HearInv'
    BY <1>0, <1>1, <1>3 DEF WorkerSaves, HearInv, ProcessInv, Commanding, Types,
       service
  <2> QED
    BY <1>2, <2>1, <2>2, <2>3, <2>4
<1>4. CASE WorkerArms(w)
  <2>0. state' = state
    BY <1>4 DEF WorkerArms, files
  <2>1. FileInv' /\ QuietInv'
    BY <2>0, <1>1 DEF FileInv, QuietInv, service
  <2>2. NoWorker.at = "unused"
    BY DEF NoWorker
  <2>3. ProcessInv'
    BY <1>0, <1>1, <1>4, <2>0, <2>2 DEF WorkerArms, Ended, ProcessInv, Types,
       service
  <2>4. HearInv'
    BY <1>0, <1>1, <1>4, <2>0, <2>2 DEF WorkerArms, Ended, HearInv, ProcessInv,
       Commanding, Types, service, ACTIVE
  <2> QED
    BY <1>2, <2>1, <2>3, <2>4
<1>5. CASE WorkerBegins(w)
  <2>0. state' = state
    BY <1>5 DEF WorkerBegins, files
  <2>1. FileInv' /\ QuietInv'
    BY <2>0, <1>1 DEF FileInv, QuietInv, service
  <2>3. ProcessInv'
    BY <1>0, <1>1, <1>5, <2>0 DEF WorkerBegins, Update, NoWorker, ProcessInv,
       Types, service
  <2>4. HearInv'
    BY <1>0, <1>1, <1>5, <2>0 DEF WorkerBegins, Update, HearInv, ProcessInv,
       Commanding, Types, service, ACTIVE
  <2> QED
    BY <1>2, <2>1, <2>3, <2>4
<1>6. CASE WorkerValidates(w)
  <2>0. state' = state
    BY <1>6 DEF WorkerValidates, files
  <2>1. FileInv' /\ QuietInv'
    BY <2>0, <1>1 DEF FileInv, QuietInv, service
  <2>3. ProcessInv'
    BY <1>0, <1>1, <1>6, <2>0 DEF WorkerValidates, Update, NoWorker, ProcessInv,
       Types, service
  <2>4. HearInv'
    BY <1>0, <1>1, <1>6, <2>0 DEF WorkerValidates, Update, HearInv, ProcessInv,
       Commanding, Types, service, ACTIVE
  <2> QED
    BY <1>2, <2>1, <2>3, <2>4
<1>7. CASE WorkerLoads(w)
  <2>0. state' = state
    BY <1>7 DEF WorkerLoads, files
  <2>1. FileInv' /\ QuietInv'
    BY <2>0, <1>1 DEF FileInv, QuietInv, service
  <2>3. ProcessInv'
    BY <1>0, <1>1, <1>7, <2>0 DEF WorkerLoads, Update, NoWorker, ProcessInv,
       Types, service
  <2>4. HearInv'
    BY <1>0, <1>1, <1>7, <2>0 DEF WorkerLoads, Update, HearInv, ProcessInv,
       Commanding, Types, service, ACTIVE
  <2> QED
    BY <1>2, <2>1, <2>3, <2>4
<1>8. CASE WorkerCompiles(w)
  <2>0. state' = state
    BY <1>8 DEF WorkerCompiles, files
  <2>1. FileInv' /\ QuietInv'
    BY <2>0, <1>1 DEF FileInv, QuietInv, service
  <2>3. ProcessInv'
    BY <1>0, <1>1, <1>8, <2>0 DEF WorkerCompiles, Update, NoWorker, ProcessInv,
       Types, service
  <2>4. HearInv'
    BY <1>0, <1>1, <1>8, <2>0 DEF WorkerCompiles, Update, HearInv, ProcessInv,
       Commanding, Types, service, ACTIVE
  <2> QED
    BY <1>2, <2>1, <2>3, <2>4
<1>9. CASE WorkerRuns(w)
  <2>0. state' = state
    BY <1>9 DEF WorkerRuns, files
  <2>1. FileInv' /\ QuietInv'
    BY <2>0, <1>1 DEF FileInv, QuietInv, service
  <2>3. ProcessInv'
    BY <1>0, <1>1, <1>9, <2>0 DEF WorkerRuns, Update, NoWorker, ProcessInv, Types,
       service
  <2>4. HearInv'
    BY <1>0, <1>1, <1>9, <2>0 DEF WorkerRuns, Update, HearInv, ProcessInv,
       Commanding, Types, service, ACTIVE
  <2> QED
    BY <1>2, <2>1, <2>3, <2>4
<1>10. CASE WorkerChecks(w)
  <2>0. state' = state
    BY <1>10 DEF WorkerChecks, files
  <2>1. FileInv' /\ QuietInv'
    BY <2>0, <1>1 DEF FileInv, QuietInv, service
  <2>3. ProcessInv'
    BY <1>0, <1>1, <1>10, <2>0 DEF WorkerChecks, Update, NoWorker, ProcessInv,
       Types, service
  <2>4. HearInv'
    BY <1>0, <1>1, <1>10, <2>0 DEF WorkerChecks, Update, HearInv, ProcessInv,
       Commanding, Types, service, ACTIVE, Final
  <2> QED
    BY <1>2, <2>1, <2>3, <2>4
<1>11. CASE WorkerInfers(w)
  <2>0. state' = state
    BY <1>11 DEF WorkerInfers, files
  <2>1. FileInv' /\ QuietInv'
    BY <2>0, <1>1 DEF FileInv, QuietInv, service
  <2>3. ProcessInv'
    BY <1>0, <1>1, <1>11, <2>0 DEF WorkerInfers, NoWorker, ProcessInv, Types,
       service
  <2>4. HearInv'
    BY <1>0, <1>1, <1>11, <2>0 DEF WorkerInfers, HearInv, ProcessInv, Commanding,
       Types, service, ACTIVE
  <2> QED
    BY <1>2, <2>1, <2>3, <2>4
<1>12. CASE WorkerCommits(w)
  <2>0. state' = state
    BY <1>12 DEF WorkerCommits
  <2>1. FileInv' /\ QuietInv'
    BY <2>0, <1>1 DEF FileInv, QuietInv, service
  <2>3. ProcessInv'
    BY <1>0, <1>1, <1>12, <2>0 DEF WorkerCommits, Update, NoWorker, ProcessInv,
       Types, service
  <2>4. HearInv'
    BY <1>0, <1>1, <1>12, <2>0 DEF WorkerCommits, Update, HearInv, ProcessInv,
       Commanding, Types, service, ACTIVE
  <2> QED
    BY <1>2, <2>1, <2>3, <2>4
<1>13. CASE WorkerReceives(w)
  <2>0. state' = state
    BY <1>13 DEF WorkerReceives, files
  <2>1. FileInv' /\ QuietInv'
    BY <2>0, <1>1 DEF FileInv, QuietInv, service
  <2>1a. process = w /\ me.commands # <<>>
    BY <1>0, <1>13 DEF WorkerReceives, ProcessInv
  <2>2. Tail(me.commands) = <<>>
    BY <1>0, <2>1a, OneTail DEF HearInv, WorkerRecords
  <2>3. ProcessInv'
    BY <1>0, <1>1, <1>13, <2>0, <2>1a, <2>2 DEF WorkerReceives, NoWorker,
       ProcessInv, Types, service
  <2>4. HearInv'
    <3>1. /\ worker'[w].at \in {"run", "fail"} /\ worker'[w].commands = <<>>
          /\ worker'[w].task = me.task
      BY <1>0, <1>13, <2>2 DEF WorkerReceives
    <3>2. me.task = current /\ Busy /\ ~Commanding
      BY <1>0, <1>13, <2>1a DEF HearInv, WorkerReceives, PlaceInv
    <3> QED
      BY <1>1, <2>0, <2>1a, <3>1, <3>2 DEF HearInv, Commanding, service
  <2> QED
    BY <1>2, <2>1, <2>3, <2>4
<1>14. CASE WorkerFails(w)
  <2>0. state' = state
    BY <1>14 DEF WorkerFails, files
  <2>1. FileInv' /\ QuietInv'
    BY <2>0, <1>1 DEF FileInv, QuietInv, service
  <2>3. ProcessInv'
    BY <1>0, <1>1, <1>14, <2>0 DEF WorkerFails, Update, NoWorker, ProcessInv,
       Types, service
  <2>4. HearInv'
    BY <1>0, <1>1, <1>14, <2>0 DEF WorkerFails, Update, HearInv, ProcessInv,
       Commanding, Types, service, ACTIVE
  <2> QED
    BY <1>2, <2>1, <2>3, <2>4
<1>15. CASE WorkerExits(w)
  <2>0. state' = state
    BY <1>15 DEF WorkerExits, files
  <2>1. FileInv' /\ QuietInv'
    BY <2>0, <1>1 DEF FileInv, QuietInv, service
  <2>2. NoWorker.at = "unused"
    BY DEF NoWorker
  <2>3. ProcessInv'
    BY <1>0, <1>1, <1>15, <2>0, <2>2 DEF WorkerExits, Ended, ProcessInv, Types,
       service
  <2>4. HearInv'
    BY <1>0, <1>1, <1>15, <2>0, <2>2 DEF WorkerExits, Ended, HearInv, ProcessInv,
       Commanding, Types, service, ACTIVE
  <2> QED
    BY <1>2, <2>1, <2>3, <2>4
<1> QED
  BY <1>3, <1>4, <1>5, <1>6, <1>7, <1>8, <1>9, <1>10, <1>11, <1>12, <1>13, <1>14,
     <1>15 DEF WorkerStep

\* A step of the manager.
LEMMA ManagerKeeps ==
    ASSUME Inv, WebAssumption, ManagerStep
    PROVE  PlaceInv' /\ FileInv' /\ QuietInv' /\ ProcessInv' /\ HearInv'
<1> USE DEF Inv
<1>1. CASE ReapDead
  <2>1. PlaceInv'
    BY <1>1 DEF ReapDead, PlaceInv, ProcessInv, Commanding
  <2>2. FileInv'
    BY <1>1, WebAssumption DEF ReapDead, FileInv, PlaceInv, WebAssumption,
       Commanding, Types, files, service
  <2>3. QuietInv'
    BY <1>1, WebAssumption DEF ReapDead, QuietInv, PlaceInv, FileInv, HearInv,
       ProcessInv, ACTIVE, WebAssumption, Commanding, Types, files, service
  <2>4. ProcessInv'
    BY <1>1, WebAssumption DEF ReapDead, ProcessInv, PlaceInv, FileInv, NoWorker,
       WebAssumption, Commanding, Types, files, service
  <2>5. HearInv'
    BY <1>1, WebAssumption DEF ReapDead, HearInv, ProcessInv, PlaceInv, QuietInv,
       FileInv, NoWorker, ACTIVE, WebAssumption, Commanding, Types, files, service
  <2> QED
    BY <2>1, <2>2, <2>3, <2>4, <2>5
<1>2. CASE ReapNothing
  <2>1. PlaceInv'
    BY <1>2, WebAssumption DEF ReapNothing, PlaceInv, QuietInv, FileInv, Actions,
       Commands, Requests, WebAssumption, Commanding, Types, files, service
  <2>2. FileInv'
    BY <1>2, WebAssumption DEF ReapNothing, FileInv, PlaceInv, WebAssumption,
       Commanding, Types, files, service
  <2>3. QuietInv'
    BY <1>2, WebAssumption DEF ReapNothing, QuietInv, PlaceInv, FileInv, HearInv,
       ProcessInv, ACTIVE, WebAssumption, Commanding, Types, files, service
  <2>4. ProcessInv'
    BY <1>2, WebAssumption DEF ReapNothing, ProcessInv, PlaceInv, FileInv,
       NoWorker, WebAssumption, Commanding, Types, files, service
  <2>5. HearInv'
    BY <1>2, WebAssumption DEF ReapNothing, HearInv, ProcessInv, PlaceInv,
       QuietInv, FileInv, NoWorker, ACTIVE, WebAssumption, Commanding, Types,
       files, service
  <2> QED
    BY <2>1, <2>2, <2>3, <2>4, <2>5
<1>3. CASE Mark
  <2>1. PlaceInv'
    BY <1>3, WebAssumption DEF Mark, PlaceInv, QuietInv, FileInv, Actions,
       Commands, Requests, WebAssumption, Commanding, Types, files, service
  <2>2. FileInv'
    BY <1>3, WebAssumption DEF Mark, FileInv, PlaceInv, WebAssumption, Commanding,
       Types, files, service
  <2>3. QuietInv'
    BY <1>3, WebAssumption DEF Mark, QuietInv, PlaceInv, FileInv, HearInv,
       ProcessInv, ACTIVE, WebAssumption, Commanding, Types, files, service
  <2>4. ProcessInv'
    BY <1>3, WebAssumption DEF Mark, ProcessInv, PlaceInv, FileInv, NoWorker,
       WebAssumption, Commanding, Types, files, service
  <2>5. HearInv'
    BY <1>3, WebAssumption DEF Mark, HearInv, ProcessInv, PlaceInv, QuietInv,
       FileInv, NoWorker, ACTIVE, WebAssumption, Commanding, Types, files, service
  <2> QED
    BY <2>1, <2>2, <2>3, <2>4, <2>5
<1>4. CASE Recover
  <2>1. PlaceInv'
    BY <1>4, WebAssumption DEF Recover, PlaceInv, QuietInv, FileInv, Actions,
       Commands, Requests, WebAssumption, Commanding, Types, files, service
  <2>2. FileInv'
    BY <1>4, WebAssumption DEF Recover, FileInv, PlaceInv, WebAssumption,
       Commanding, Types, files, service
  <2>3. QuietInv'
    BY <1>4, WebAssumption DEF Recover, QuietInv, PlaceInv, FileInv, HearInv,
       ProcessInv, ACTIVE, WebAssumption, Commanding, Types, files, service
  <2>4. ProcessInv'
    BY <1>4, WebAssumption DEF Recover, ProcessInv, PlaceInv, FileInv, NoWorker,
       WebAssumption, Commanding, Types, files, service
  <2>5. HearInv'
    BY <1>4, WebAssumption DEF Recover, HearInv, ProcessInv, PlaceInv, QuietInv,
       FileInv, NoWorker, ACTIVE, WebAssumption, Commanding, Types, files, service
  <2> QED
    BY <2>1, <2>2, <2>3, <2>4, <2>5
<1>5. CASE ManagerSaves
  <2>1. PlaceInv'
    BY <1>5, WebAssumption DEF ManagerSaves, PlaceInv, QuietInv, FileInv, Actions,
       Commands, Requests, WebAssumption, Commanding, Types, service
  <2>2. FileInv'
    BY <1>5, WebAssumption DEF ManagerSaves, FileInv, PlaceInv, WebAssumption,
       Commanding, Types, service
  <2>3. QuietInv'
    BY <1>5, WebAssumption DEF ManagerSaves, QuietInv, PlaceInv, FileInv, HearInv,
       ProcessInv, ACTIVE, WebAssumption, Commanding, Types, service
  <2>4. ProcessInv'
    BY <1>5, WebAssumption DEF ManagerSaves, ProcessInv, PlaceInv, FileInv,
       NoWorker, WebAssumption, Commanding, Types, service
  <2>5. HearInv'
    BY <1>5, WebAssumption DEF ManagerSaves, HearInv, ProcessInv, PlaceInv,
       QuietInv, FileInv, NoWorker, ACTIVE, WebAssumption, Commanding, Types,
       service
  <2> QED
    BY <2>1, <2>2, <2>3, <2>4, <2>5
<1>6. CASE BeginSnapshot
  <2>1. PlaceInv'
    BY <1>6, WebAssumption DEF BeginSnapshot, PlaceInv, QuietInv, FileInv,
       Actions, Commands, Requests, WebAssumption, Commanding, Types, files,
       service
  <2>2. FileInv'
    BY <1>6, WebAssumption DEF BeginSnapshot, FileInv, PlaceInv, WebAssumption,
       Commanding, Types, files, service
  <2>3. QuietInv'
    BY <1>6, WebAssumption DEF BeginSnapshot, QuietInv, PlaceInv, FileInv,
       HearInv, ProcessInv, ACTIVE, WebAssumption, Commanding, Types, files,
       service
  <2>4. ProcessInv'
    BY <1>6, WebAssumption DEF BeginSnapshot, ProcessInv, PlaceInv, FileInv,
       NoWorker, WebAssumption, Commanding, Types, files, service
  <2>5. HearInv'
    BY <1>6, WebAssumption DEF BeginSnapshot, HearInv, ProcessInv, PlaceInv,
       QuietInv, FileInv, NoWorker, ACTIVE, WebAssumption, Commanding, Types,
       files, service
  <2> QED
    BY <2>1, <2>2, <2>3, <2>4, <2>5
<1>7. CASE EndSnapshot
  <2>1. PlaceInv'
    BY <1>7, WebAssumption DEF EndSnapshot, PlaceInv, QuietInv, FileInv, Actions,
       Commands, Requests, WebAssumption, Commanding, Types, files, service
  <2>2. FileInv'
    BY <1>7, WebAssumption DEF EndSnapshot, FileInv, PlaceInv, WebAssumption,
       Commanding, Types, files, service
  <2>3. QuietInv'
    BY <1>7, WebAssumption DEF EndSnapshot, QuietInv, PlaceInv, FileInv, HearInv,
       ProcessInv, ACTIVE, WebAssumption, Commanding, Types, files, service
  <2>4. ProcessInv'
    BY <1>7, WebAssumption DEF EndSnapshot, ProcessInv, PlaceInv, FileInv,
       NoWorker, WebAssumption, Commanding, Types, files, service
  <2>5. HearInv'
    BY <1>7, WebAssumption DEF EndSnapshot, HearInv, ProcessInv, PlaceInv,
       QuietInv, FileInv, NoWorker, ACTIVE, WebAssumption, Commanding, Types,
       files, service
  <2> QED
    BY <2>1, <2>2, <2>3, <2>4, <2>5
<1>8. CASE EnsureIdle
  <2>1. PlaceInv'
    BY <1>8, WebAssumption DEF EnsureIdle, PlaceInv, QuietInv, FileInv, Actions,
       Commands, Requests, WebAssumption, Commanding, Types, files, service,
       Refuse
  <2>2. FileInv'
    BY <1>8, WebAssumption DEF EnsureIdle, FileInv, PlaceInv, WebAssumption,
       Commanding, Types, files, service, Refuse
  <2>3. QuietInv'
    BY <1>8, WebAssumption DEF EnsureIdle, QuietInv, PlaceInv, FileInv, HearInv,
       ProcessInv, ACTIVE, WebAssumption, Commanding, Types, files, service,
       Refuse
  <2>4. ProcessInv'
    BY <1>8, WebAssumption DEF EnsureIdle, ProcessInv, PlaceInv, FileInv,
       NoWorker, WebAssumption, Commanding, Types, files, service, Refuse
  <2>5. HearInv'
    BY <1>8, WebAssumption DEF EnsureIdle, HearInv, ProcessInv, PlaceInv,
       QuietInv, FileInv, NoWorker, ACTIVE, WebAssumption, Commanding, Types,
       files, service, Refuse
  <2> QED
    BY <2>1, <2>2, <2>3, <2>4, <2>5
<1>9. CASE Index
  <2>1. PlaceInv'
    BY <1>9, WebAssumption DEF Index, PlaceInv, QuietInv, FileInv, Actions,
       Commands, Requests, WebAssumption, Commanding, Types, files, service,
       Refuse
  <2>2. FileInv'
    BY <1>9, WebAssumption DEF Index, FileInv, PlaceInv, WebAssumption,
       Commanding, Types, files, service, Refuse
  <2>3. QuietInv'
    BY <1>9, WebAssumption DEF Index, QuietInv, PlaceInv, FileInv, HearInv,
       ProcessInv, ACTIVE, WebAssumption, Commanding, Types, files, service,
       Refuse
  <2>4. ProcessInv'
    BY <1>9, WebAssumption DEF Index, ProcessInv, PlaceInv, FileInv, NoWorker,
       WebAssumption, Commanding, Types, files, service, Refuse
  <2>5. HearInv'
    BY <1>9, WebAssumption DEF Index, HearInv, ProcessInv, PlaceInv, QuietInv,
       FileInv, NoWorker, ACTIVE, WebAssumption, Commanding, Types, files,
       service, Refuse
  <2> QED
    BY <2>1, <2>2, <2>3, <2>4, <2>5
<1>10. CASE Stop
  <2>1. PlaceInv'
    BY <1>10, WebAssumption DEF Stop, PlaceInv, QuietInv, FileInv, Actions,
       Commands, Requests, WebAssumption, Commanding, Types, files, service,
       Stopped
  <2>2. FileInv'
    BY <1>10, WebAssumption DEF Stop, FileInv, PlaceInv, WebAssumption,
       Commanding, Types, files, service, Stopped
  <2>3. QuietInv'
    BY <1>10, WebAssumption DEF Stop, QuietInv, PlaceInv, FileInv, HearInv,
       ProcessInv, ACTIVE, WebAssumption, Commanding, Types, files, service,
       Stopped
  <2>4. ProcessInv'
    BY <1>10, WebAssumption DEF Stop, ProcessInv, PlaceInv, FileInv, NoWorker,
       WebAssumption, Commanding, Types, files, service, Stopped
  <2>5. HearInv'
    BY <1>10, WebAssumption DEF Stop, HearInv, ProcessInv, PlaceInv, QuietInv,
       FileInv, NoWorker, ACTIVE, WebAssumption, Commanding, Types, files,
       service, Stopped
  <2> QED
    BY <2>1, <2>2, <2>3, <2>4, <2>5
<1>11. CASE Terminated
  <2>1. PlaceInv'
    BY <1>11, WebAssumption DEF Terminated, PlaceInv, QuietInv, FileInv, Actions,
       Commands, Requests, WebAssumption, Commanding, Types, files, service
  <2>2. FileInv'
    BY <1>11, WebAssumption DEF Terminated, FileInv, PlaceInv, WebAssumption,
       Commanding, Types, files, service
  <2>3. QuietInv'
    BY <1>11, WebAssumption DEF Terminated, QuietInv, PlaceInv, FileInv, HearInv,
       ProcessInv, ACTIVE, WebAssumption, Commanding, Types, files, service
  <2>4. ProcessInv'
    BY <1>11, WebAssumption DEF Terminated, ProcessInv, PlaceInv, FileInv, Ended,
       NoWorker, WebAssumption, Commanding, Types, files, service
  <2>5. HearInv'
    BY <1>11, WebAssumption DEF Terminated, HearInv, ProcessInv, PlaceInv,
       QuietInv, FileInv, Ended, NoWorker, ACTIVE, WebAssumption, Commanding,
       Types, files, service
  <2> QED
    BY <2>1, <2>2, <2>3, <2>4, <2>5
<1>12. CASE Join
  <2>1. PlaceInv'
    BY <1>12, WebAssumption DEF Join, PlaceInv, QuietInv, FileInv, Actions,
       Commands, Requests, WebAssumption, Commanding, Types, files, service,
       Stopped
  <2>2. FileInv'
    BY <1>12, WebAssumption DEF Join, FileInv, PlaceInv, WebAssumption,
       Commanding, Types, files, service, Stopped
  <2>3. QuietInv'
    BY <1>12, WebAssumption DEF Join, QuietInv, PlaceInv, FileInv, HearInv,
       ProcessInv, ACTIVE, WebAssumption, Commanding, Types, files, service,
       Stopped
  <2>4. ProcessInv'
    BY <1>12, WebAssumption DEF Join, ProcessInv, PlaceInv, FileInv, NoWorker,
       WebAssumption, Commanding, Types, files, service, Stopped
  <2>5. HearInv'
    BY <1>12, WebAssumption DEF Join, HearInv, ProcessInv, PlaceInv, QuietInv,
       FileInv, NoWorker, ACTIVE, WebAssumption, Commanding, Types, files,
       service, Stopped
  <2> QED
    BY <2>1, <2>2, <2>3, <2>4, <2>5
<1>13. CASE Create
  <2>1. PlaceInv'
    BY <1>13, WebAssumption DEF Create, PlaceInv, QuietInv, FileInv, Actions,
       Commands, Requests, WebAssumption, Commanding, Types, service
  <2>2. FileInv'
    BY <1>13, WebAssumption DEF Create, FileInv, PlaceInv, WebAssumption,
       Commanding, Types, service
  <2>3. QuietInv'
    BY <1>13, WebAssumption DEF Create, QuietInv, PlaceInv, FileInv, HearInv,
       ProcessInv, ACTIVE, WebAssumption, Commanding, Types, service
  <2>4. ProcessInv'
    BY <1>13, WebAssumption DEF Create, ProcessInv, PlaceInv, FileInv, NoWorker,
       WebAssumption, Commanding, Types, service
  <2>5. HearInv'
    BY <1>13, WebAssumption DEF Create, HearInv, ProcessInv, PlaceInv, QuietInv,
       FileInv, NoWorker, ACTIVE, WebAssumption, Commanding, Types, service
  <2> QED
    BY <2>1, <2>2, <2>3, <2>4, <2>5
<1>14. CASE Describe
  <2>0. /\ draft.task \in Tasks /\ config[draft.task] # None /\ pc' = "point"
        /\ state' = [state EXCEPT ![draft.task] = Fresh] /\ Fresh \in Documents
        /\ state \in [Tasks -> Documents \cup {None}] /\ Fresh.status \notin ACTIVE
        /\ UNCHANGED <<config, pointer, current, draft, call, then, worker, process>>
    BY <1>14 DEF Describe, FileInv, Types, Fresh, Documents, Statuses, ACTIVE
  <2>0a. Fresh # None /\ current \in Tasks \cup {None} /\ ~Busy
    BY <1>14, <2>0, WebAssumption DEF WebAssumption, Types, QuietInv, Describe
  <2>1. PlaceInv'
    BY <1>14, WebAssumption DEF Describe, PlaceInv, QuietInv, FileInv, Actions,
       Commands, Requests, WebAssumption, Commanding, Types, service
  <2>2. FileInv'
    BY <1>14, <2>0, <2>0a DEF FileInv
  <2>3. QuietInv'
    <3>1. ~Busy'
      BY <2>0, <2>0a
    <3> QED
      BY <2>0, <3>1 DEF QuietInv
  <2>4. ProcessInv'
    BY <1>14, <2>0, <2>0a DEF ProcessInv, FileInv, Types
  <2>5. HearInv'
    BY <1>14, WebAssumption DEF Describe, HearInv, ProcessInv, PlaceInv, QuietInv,
       FileInv, NoWorker, ACTIVE, WebAssumption, Commanding, Types, service
  <2> QED
    BY <2>1, <2>2, <2>3, <2>4, <2>5
<1>15. CASE Point
  <2>1. PlaceInv'
    BY <1>15, WebAssumption DEF Point, PlaceInv, QuietInv, FileInv, Actions,
       Commands, Requests, WebAssumption, Commanding, Types, service, Answer
  <2>2. FileInv'
    BY <1>15, WebAssumption DEF Point, FileInv, PlaceInv, WebAssumption,
       Commanding, Types, service, Answer
  <2>3. QuietInv'
    BY <1>15, WebAssumption DEF Point, QuietInv, PlaceInv, FileInv, HearInv,
       ProcessInv, ACTIVE, WebAssumption, Commanding, Types, service, Answer
  <2>4. ProcessInv'
    BY <1>15, WebAssumption DEF Point, ProcessInv, PlaceInv, FileInv, NoWorker,
       WebAssumption, Commanding, Types, service, Answer
  <2>5. HearInv'
    BY <1>15, WebAssumption DEF Point, HearInv, ProcessInv, PlaceInv, QuietInv,
       FileInv, NoWorker, ACTIVE, WebAssumption, Commanding, Types, service,
       Answer
  <2> QED
    BY <2>1, <2>2, <2>3, <2>4, <2>5
<1>16. CASE Decide
  <2>1. PlaceInv'
    BY <1>16, WebAssumption DEF Decide, PlaceInv, QuietInv, FileInv, Actions,
       Commands, Requests, WebAssumption, Commanding, Types, files, service,
       Answer, MustStop
  <2>2. FileInv'
    BY <1>16 DEF Decide, FileInv, PlaceInv, Actions, Commands, Answer, service,
       files
  <2>3. QuietInv'
    BY <1>16, WebAssumption DEF Decide, QuietInv, PlaceInv, FileInv, HearInv,
       ProcessInv, ACTIVE, WebAssumption, Commanding, Types, files, service,
       Answer, MustStop
  <2>4. ProcessInv'
    BY <1>16, WebAssumption DEF Decide, ProcessInv, PlaceInv, FileInv, NoWorker,
       WebAssumption, Commanding, Types, files, service, Answer, MustStop
  <2>5. HearInv'
    BY <1>16, WebAssumption DEF Decide, HearInv, ProcessInv, PlaceInv, QuietInv,
       FileInv, NoWorker, ACTIVE, WebAssumption, Commanding, Types, files,
       service, Answer, MustStop
  <2> QED
    BY <2>1, <2>2, <2>3, <2>4, <2>5
<1>17. CASE Launch
  <2>1. PlaceInv'
    BY <1>17, WebAssumption DEF Launch, PlaceInv, QuietInv, FileInv, Actions,
       Commands, Requests, WebAssumption, Commanding, Types, files, service
  <2>2. FileInv'
    BY <1>17, WebAssumption DEF Launch, FileInv, PlaceInv, WebAssumption,
       Commanding, Types, files, service
  <2>3. QuietInv'
    BY <1>17, WebAssumption DEF Launch, QuietInv, PlaceInv, FileInv, HearInv,
       ProcessInv, ACTIVE, WebAssumption, Commanding, Types, files, service
  <2>4. ProcessInv'
    BY <1>17, WebAssumption DEF Launch, ProcessInv, PlaceInv, FileInv, NoWorker,
       WebAssumption, Commanding, Types, files, service
  <2>5. HearInv'
    BY <1>17, WebAssumption DEF Launch, HearInv, ProcessInv, PlaceInv, QuietInv,
       FileInv, NoWorker, ACTIVE, WebAssumption, Commanding, Types, files, service
  <2> QED
    BY <2>1, <2>2, <2>3, <2>4, <2>5
<1>18. CASE Spawn
  <2>1. PlaceInv'
    BY <1>18, WebAssumption DEF Spawn, PlaceInv, QuietInv, FileInv, Actions,
       Commands, Requests, WebAssumption, Commanding, Types, files, service,
       Answer
  <2>2. FileInv'
    BY <1>18, WebAssumption DEF Spawn, FileInv, PlaceInv, WebAssumption,
       Commanding, Types, files, service, Answer
  <2>3. QuietInv'
    BY <1>18, WebAssumption DEF Spawn, QuietInv, PlaceInv, FileInv, HearInv,
       ProcessInv, ACTIVE, WebAssumption, Commanding, Types, files, service,
       Answer
  <2>4. ProcessInv'
    BY <1>18, WebAssumption DEF Spawn, ProcessInv, PlaceInv, FileInv, NoWorker,
       WebAssumption, Commanding, Types, files, service, Answer
  <2>5. HearInv'
    BY <1>18, WebAssumption DEF Spawn, HearInv, ProcessInv, PlaceInv, QuietInv,
       FileInv, NoWorker, ACTIVE, WebAssumption, Commanding, Types, files,
       service, Answer
  <2> QED
    BY <2>1, <2>2, <2>3, <2>4, <2>5
<1>19. CASE Command
  <2>0. worker \in [Workers -> WorkerRecords] /\ NoWorker.at = "unused"
    BY DEF Types, NoWorker
  <2>1. PlaceInv'
    BY <1>19, WebAssumption DEF Command, PlaceInv, QuietInv, FileInv, Actions,
       Commands, Requests, WebAssumption, Commanding, Types, files, service
  <2>2. FileInv'
    BY <1>19, WebAssumption DEF Command, FileInv, PlaceInv, WebAssumption,
       Commanding, Types, files, service
  <2>3. QuietInv'
    BY <1>19, WebAssumption DEF Command, QuietInv, PlaceInv, FileInv, HearInv,
       ProcessInv, ACTIVE, WebAssumption, Commanding, Types, files, service
  <2>4. ProcessInv'
    BY <1>19, <2>0 DEF Command, ProcessInv, PlaceInv, FileInv, WorkerRecords,
       Commanding, files, service
  <2>5. HearInv'
    BY <1>19, WebAssumption DEF Command, HearInv, ProcessInv, PlaceInv, QuietInv,
       FileInv, NoWorker, ACTIVE, WebAssumption, Commanding, Types, files, service
  <2> QED
    BY <2>1, <2>2, <2>3, <2>4, <2>5
<1>20. CASE Send
  <2>0. worker \in [Workers -> WorkerRecords] /\ NoWorker.at = "unused"
    BY DEF Types, NoWorker
  <2>0a. ASSUME Alive(process) PROVE ProcessInv' /\ HearInv'
    <3>1. /\ process \in Workers /\ call \in Commands
          /\ worker[process].commands = <<>> /\ worker[process].at = "recv"
          /\ Busy /\ current # None /\ process # None
      BY <1>20, <2>0a, WebAssumption DEF Send, Types, PlaceInv, HearInv, QuietInv,
         Commanding, WebAssumption
    <3>2. /\ worker' = [worker EXCEPT ![process] =
                           [@ EXCEPT !.commands = Append(worker[process].commands, call)]]
          /\ pc' = "reap" /\ UNCHANGED <<process, current, state, config>>
      BY <1>20, <2>0a DEF Send, Answer, files
    <3>3. Append(worker[process].commands, call) = <<call>>
          /\ Len(<<call>>) = 1 /\ <<call>> # <<>>
      BY <3>1
    <3>4. /\ worker'[process].commands = <<call>>
          /\ worker'[process].task = worker[process].task
          /\ worker'[process].at = "recv"
          /\ \A w \in Workers \ {process} : worker'[w] = worker[w]
      BY <2>0, <3>1, <3>2, <3>3 DEF WorkerRecords
    <3>5. ProcessInv'
      BY <3>1, <3>2, <3>4 DEF ProcessInv
    <3>6. Busy'
      BY <3>1, <3>2
    <3>7. worker[process].task = current
      BY <3>1, WebAssumption DEF HearInv, WebAssumption
    <3>8. HearInv'
      BY <3>2, <3>3, <3>4, <3>6, <3>7 DEF HearInv, Commanding
    <3> QED
      BY <3>5, <3>8
  <2>0b. ASSUME ~Alive(process) PROVE ProcessInv' /\ HearInv'
    BY <1>20, <2>0b DEF Send, HearInv, ProcessInv, PlaceInv, Commanding, files
  <2>1. PlaceInv'
    BY <1>20, WebAssumption DEF Send, PlaceInv, QuietInv, FileInv, Actions,
       Commands, Requests, WebAssumption, Commanding, Types, files, service,
       Answer
  <2>2. FileInv'
    BY <1>20, WebAssumption DEF Send, FileInv, PlaceInv, WebAssumption,
       Commanding, Types, files, service, Answer
  <2>3. QuietInv'
    BY <1>20, WebAssumption DEF Send, QuietInv, PlaceInv, FileInv, HearInv,
       ProcessInv, ACTIVE, WebAssumption, Commanding, Types, files, service,
       Answer
  <2>4. ProcessInv'
    BY <2>0a, <2>0b
  <2>5. HearInv'
    BY <2>0a, <2>0b
  <2> QED
    BY <2>1, <2>2, <2>3, <2>4, <2>5
<1>21. CASE BeginCancel
  <2>1. PlaceInv'
    BY <1>21, WebAssumption DEF BeginCancel, PlaceInv, QuietInv, FileInv, Actions,
       Commands, Requests, WebAssumption, Commanding, Types, files, service,
       Refuse
  <2>2. FileInv'
    BY <1>21, WebAssumption DEF BeginCancel, FileInv, PlaceInv, WebAssumption,
       Commanding, Types, files, service, Refuse
  <2>3. QuietInv'
    BY <1>21, WebAssumption DEF BeginCancel, QuietInv, PlaceInv, FileInv, HearInv,
       ProcessInv, ACTIVE, WebAssumption, Commanding, Types, files, service,
       Refuse
  <2>4. ProcessInv'
    BY <1>21, WebAssumption DEF BeginCancel, ProcessInv, PlaceInv, FileInv,
       NoWorker, WebAssumption, Commanding, Types, files, service, Refuse
  <2>5. HearInv'
    BY <1>21, WebAssumption DEF BeginCancel, HearInv, ProcessInv, PlaceInv,
       QuietInv, FileInv, NoWorker, ACTIVE, WebAssumption, Commanding, Types,
       files, service, Refuse
  <2> QED
    BY <2>1, <2>2, <2>3, <2>4, <2>5
<1>22. CASE SetCancel
  <2>0. worker \in [Workers -> WorkerRecords] /\ NoWorker.at = "unused"
    BY DEF Types, NoWorker
  <2>1. PlaceInv'
    BY <1>22, WebAssumption DEF SetCancel, PlaceInv, QuietInv, FileInv, Actions,
       Commands, Requests, WebAssumption, Commanding, Types, files, service,
       Answer
  <2>2. FileInv'
    BY <1>22, WebAssumption DEF SetCancel, FileInv, PlaceInv, WebAssumption,
       Commanding, Types, files, service, Answer
  <2>3. QuietInv'
    BY <1>22, WebAssumption DEF SetCancel, QuietInv, PlaceInv, FileInv, HearInv,
       ProcessInv, ACTIVE, WebAssumption, Commanding, Types, files, service,
       Answer
  <2>4. ProcessInv'
    BY <1>22, <2>0 DEF SetCancel, ProcessInv, PlaceInv, FileInv, WorkerRecords,
       Commanding, files, service, Answer
  <2>5. HearInv'
    BY <1>22, WebAssumption DEF SetCancel, HearInv, ProcessInv, PlaceInv,
       QuietInv, FileInv, NoWorker, ACTIVE, WebAssumption, Commanding, Types,
       files, service, Answer
  <2> QED
    BY <2>1, <2>2, <2>3, <2>4, <2>5
<1> QED
  BY <1>1, <1>2, <1>3, <1>4, <1>5, <1>6, <1>7, <1>8, <1>9, <1>10, <1>11, <1>12,
     <1>13, <1>14, <1>15, <1>16, <1>17, <1>18, <1>19, <1>20, <1>21, <1>22
     DEF ManagerStep

\* A request, the start or the end of the service, a failure of the manager.
LEMMA ServiceKeeps ==
    ASSUME Inv, WebAssumption, 
           \/ Poll \/ StartService \/ ServiceCrash \/ SpawnFails \/ ManagerSaveFails
           \/ WeightsChange \/ \E request \in Requests : Call(request)
    PROVE  PlaceInv' /\ FileInv' /\ QuietInv' /\ ProcessInv' /\ HearInv'
<1> USE DEF Inv
<1>1. CASE Poll
  <2>1. PlaceInv'
    BY <1>1, WebAssumption DEF Poll, PlaceInv, QuietInv, FileInv, Actions,
       Commands, Requests, WebAssumption, Commanding, Types, files, Answer
  <2>2. FileInv'
    BY <1>1, WebAssumption DEF Poll, FileInv, PlaceInv, WebAssumption, Commanding,
       Types, files, Answer
  <2>3. QuietInv'
    BY <1>1, WebAssumption DEF Poll, QuietInv, PlaceInv, FileInv, HearInv,
       ProcessInv, ACTIVE, WebAssumption, Commanding, Types, files, Answer
  <2>4. ProcessInv'
    BY <1>1, WebAssumption DEF Poll, ProcessInv, PlaceInv, FileInv, NoWorker,
       WebAssumption, Commanding, Types, files, Answer
  <2>5. HearInv'
    BY <1>1, WebAssumption DEF Poll, HearInv, ProcessInv, PlaceInv, QuietInv,
       FileInv, NoWorker, ACTIVE, WebAssumption, Commanding, Types, files, Answer
  <2> QED
    BY <2>1, <2>2, <2>3, <2>4, <2>5
<1>2. CASE StartService
  <2>1. PlaceInv'
    BY <1>2, WebAssumption DEF StartService, PlaceInv, QuietInv, FileInv, Actions,
       Commands, Requests, WebAssumption, Commanding, Types, files
  <2>2. FileInv'
    BY <1>2, WebAssumption DEF StartService, FileInv, PlaceInv, WebAssumption,
       Commanding, Types, files
  <2>3. QuietInv'
    BY <1>2, WebAssumption DEF StartService, QuietInv, PlaceInv, FileInv, HearInv,
       ProcessInv, ACTIVE, WebAssumption, Commanding, Types, files
  <2>4. ProcessInv'
    BY <1>2, WebAssumption DEF StartService, ProcessInv, PlaceInv, FileInv,
       NoWorker, WebAssumption, Commanding, Types, files
  <2>5. HearInv'
    BY <1>2, WebAssumption DEF StartService, HearInv, ProcessInv, PlaceInv,
       QuietInv, FileInv, NoWorker, ACTIVE, WebAssumption, Commanding, Types,
       files
  <2> QED
    BY <2>1, <2>2, <2>3, <2>4, <2>5
<1>3. CASE ServiceCrash
  <2>1. PlaceInv'
    BY <1>3, WebAssumption DEF ServiceCrash, PlaceInv, QuietInv, FileInv, Actions,
       Commands, Requests, WebAssumption, Commanding, Types, files
  <2>2. FileInv'
    BY <1>3, WebAssumption DEF ServiceCrash, FileInv, PlaceInv, WebAssumption,
       Commanding, Types, files
  <2>3. QuietInv'
    BY <1>3, WebAssumption DEF ServiceCrash, QuietInv, PlaceInv, FileInv, HearInv,
       ProcessInv, ACTIVE, WebAssumption, Commanding, Types, files
  <2>4. ProcessInv'
    BY <1>3, WebAssumption DEF ServiceCrash, ProcessInv, PlaceInv, FileInv,
       NoWorker, WebAssumption, Commanding, Types, files
  <2>5. HearInv'
    BY <1>3, WebAssumption DEF ServiceCrash, HearInv, ProcessInv, PlaceInv,
       QuietInv, FileInv, NoWorker, ACTIVE, WebAssumption, Commanding, Types,
       files
  <2> QED
    BY <2>1, <2>2, <2>3, <2>4, <2>5
<1>4. CASE SpawnFails
  <2>1. PlaceInv'
    BY <1>4, WebAssumption DEF SpawnFails, PlaceInv, QuietInv, FileInv, Actions,
       Commands, Requests, WebAssumption, Commanding, Types, files
  <2>2. FileInv'
    BY <1>4, WebAssumption DEF SpawnFails, FileInv, PlaceInv, WebAssumption,
       Commanding, Types, files
  <2>3. QuietInv'
    BY <1>4, WebAssumption DEF SpawnFails, QuietInv, PlaceInv, FileInv, HearInv,
       ProcessInv, ACTIVE, WebAssumption, Commanding, Types, files
  <2>4. ProcessInv'
    BY <1>4, WebAssumption DEF SpawnFails, ProcessInv, PlaceInv, FileInv,
       NoWorker, WebAssumption, Commanding, Types, files
  <2>5. HearInv'
    BY <1>4, WebAssumption DEF SpawnFails, HearInv, ProcessInv, PlaceInv,
       QuietInv, FileInv, NoWorker, ACTIVE, WebAssumption, Commanding, Types,
       files
  <2> QED
    BY <2>1, <2>2, <2>3, <2>4, <2>5
<1>5. CASE ManagerSaveFails
  <2>1. PlaceInv'
    BY <1>5, WebAssumption DEF ManagerSaveFails, PlaceInv, QuietInv, FileInv,
       Actions, Commands, Requests, WebAssumption, Commanding, Types, files,
       Raised
  <2>2. FileInv'
    BY <1>5, WebAssumption DEF ManagerSaveFails, FileInv, PlaceInv, WebAssumption,
       Commanding, Types, files, Raised
  <2>3. QuietInv'
    BY <1>5, WebAssumption DEF ManagerSaveFails, QuietInv, PlaceInv, FileInv,
       HearInv, ProcessInv, ACTIVE, WebAssumption, Commanding, Types, files,
       Raised
  <2>4. ProcessInv'
    BY <1>5, WebAssumption DEF ManagerSaveFails, ProcessInv, PlaceInv, FileInv,
       NoWorker, WebAssumption, Commanding, Types, files, Raised
  <2>5. HearInv'
    BY <1>5, WebAssumption DEF ManagerSaveFails, HearInv, ProcessInv, PlaceInv,
       QuietInv, FileInv, NoWorker, ACTIVE, WebAssumption, Commanding, Types,
       files, Raised
  <2> QED
    BY <2>1, <2>2, <2>3, <2>4, <2>5
<1>6. CASE WeightsChange
  <2>1. PlaceInv'
    BY <1>6, WebAssumption DEF WeightsChange, PlaceInv, QuietInv, FileInv,
       Actions, Commands, Requests, WebAssumption, Commanding, Types, service
  <2>2. FileInv'
    BY <1>6, WebAssumption DEF WeightsChange, FileInv, PlaceInv, WebAssumption,
       Commanding, Types, service
  <2>3. QuietInv'
    BY <1>6, WebAssumption DEF WeightsChange, QuietInv, PlaceInv, FileInv,
       HearInv, ProcessInv, ACTIVE, WebAssumption, Commanding, Types, service
  <2>4. ProcessInv'
    BY <1>6, WebAssumption DEF WeightsChange, ProcessInv, PlaceInv, FileInv,
       NoWorker, WebAssumption, Commanding, Types, service
  <2>5. HearInv'
    BY <1>6, WebAssumption DEF WeightsChange, HearInv, ProcessInv, PlaceInv,
       QuietInv, FileInv, NoWorker, ACTIVE, WebAssumption, Commanding, Types,
       service
  <2> QED
    BY <2>1, <2>2, <2>3, <2>4, <2>5
<1>7. CASE \E request \in Requests : Call(request)
  <2>1. PlaceInv'
    BY <1>7, WebAssumption DEF Call, PlaceInv, QuietInv, FileInv, Actions,
       Commands, Requests, WebAssumption, Commanding, Types, files
  <2>2. FileInv'
    BY <1>7, WebAssumption DEF Call, FileInv, PlaceInv, WebAssumption, Commanding,
       Types, files
  <2>3. QuietInv'
    BY <1>7, WebAssumption DEF Call, QuietInv, PlaceInv, FileInv, HearInv,
       ProcessInv, ACTIVE, WebAssumption, Commanding, Types, files
  <2>4. ProcessInv'
    BY <1>7, WebAssumption DEF Call, ProcessInv, PlaceInv, FileInv, NoWorker,
       WebAssumption, Commanding, Types, files
  <2>5. HearInv'
    BY <1>7, WebAssumption DEF Call, HearInv, ProcessInv, PlaceInv, QuietInv,
       FileInv, NoWorker, ACTIVE, WebAssumption, Commanding, Types, files
  <2> QED
    BY <2>1, <2>2, <2>3, <2>4, <2>5
<1> QED
  BY <1>1, <1>2, <1>3, <1>4, <1>5, <1>6, <1>7

\* A failure of a worker.
LEMMA FailureKeeps ==
    ASSUME Inv, WebAssumption, NEW w \in Workers, 
           WorkerSaveFails(w) \/ EngineFails(w) \/ WorkerKilled(w)
    PROVE  PlaceInv' /\ FileInv' /\ QuietInv' /\ ProcessInv' /\ HearInv'
<1> USE DEF Inv
<1>1. CASE WorkerSaveFails(w)
  <2>0. worker \in [Workers -> WorkerRecords] /\ NoWorker.at = "unused"
    BY DEF Types, NoWorker
  <2>1. PlaceInv'
    BY <1>1, WebAssumption DEF WorkerSaveFails, PlaceInv, QuietInv, FileInv,
       Actions, Commands, Requests, WebAssumption, Commanding, Types, files,
       service
  <2>2. FileInv'
    BY <1>1, WebAssumption DEF WorkerSaveFails, FileInv, PlaceInv, WebAssumption,
       Commanding, Types, files, service
  <2>3. QuietInv'
    BY <1>1, WebAssumption DEF WorkerSaveFails, QuietInv, PlaceInv, FileInv,
       HearInv, ProcessInv, ACTIVE, WebAssumption, Commanding, Types, files,
       service
  <2>4. ProcessInv'
    <3>1. CASE worker'[w] = NoWorker /\ process # w
      BY <1>1, <3>1, <2>0 DEF WorkerSaveFails, ProcessInv, FileInv, files,
         service, Types
    <3>2. CASE /\ worker'[w].at \in {"dead", "fail"} /\ worker'[w].task = worker[w].task
               /\ process = w
      BY <1>1, <3>2, <2>0 DEF WorkerSaveFails, ProcessInv, FileInv, files,
         service, Types
    <3> QED
      BY <1>1, <2>0, <3>1, <3>2 DEF WorkerSaveFails, Ended, WorkerRecords,
         ProcessInv
  <2>5. HearInv'
    BY <1>1, WebAssumption DEF WorkerSaveFails, HearInv, ProcessInv, PlaceInv,
       QuietInv, FileInv, Ended, NoWorker, ACTIVE, WebAssumption, Commanding,
       Types, files, service
  <2> QED
    BY <2>1, <2>2, <2>3, <2>4, <2>5
<1>2. CASE EngineFails(w)
  <2>1. PlaceInv'
    BY <1>2, WebAssumption DEF EngineFails, PlaceInv, QuietInv, FileInv, Actions,
       Commands, Requests, WebAssumption, Commanding, Types, files, service
  <2>2. FileInv'
    BY <1>2, WebAssumption DEF EngineFails, FileInv, PlaceInv, WebAssumption,
       Commanding, Types, files, service
  <2>3. QuietInv'
    BY <1>2, WebAssumption DEF EngineFails, QuietInv, PlaceInv, FileInv, HearInv,
       ProcessInv, ACTIVE, WebAssumption, Commanding, Types, files, service
  <2>4. ProcessInv'
    BY <1>2, WebAssumption DEF EngineFails, ProcessInv, PlaceInv, FileInv,
       NoWorker, WebAssumption, Commanding, Types, files, service
  <2>5. HearInv'
    BY <1>2, WebAssumption DEF EngineFails, HearInv, ProcessInv, PlaceInv,
       QuietInv, FileInv, NoWorker, ACTIVE, WebAssumption, Commanding, Types,
       files, service
  <2> QED
    BY <2>1, <2>2, <2>3, <2>4, <2>5
<1>3. CASE WorkerKilled(w)
  <2>0. worker \in [Workers -> WorkerRecords] /\ NoWorker.at = "unused"
    BY DEF Types, NoWorker
  <2>1. PlaceInv'
    BY <1>3, WebAssumption DEF WorkerKilled, PlaceInv, QuietInv, FileInv, Actions,
       Commands, Requests, WebAssumption, Commanding, Types, files, service
  <2>2. FileInv'
    BY <1>3, WebAssumption DEF WorkerKilled, FileInv, PlaceInv, WebAssumption,
       Commanding, Types, files, service
  <2>3. QuietInv'
    BY <1>3, WebAssumption DEF WorkerKilled, QuietInv, PlaceInv, FileInv, HearInv,
       ProcessInv, ACTIVE, WebAssumption, Commanding, Types, files, service
  <2>4. ProcessInv'
    <3>1. CASE worker'[w] = NoWorker /\ process # w
      BY <1>3, <3>1, <2>0 DEF WorkerKilled, ProcessInv, FileInv, files, service,
         Types
    <3>2. CASE /\ worker'[w].at \in {"dead", "fail"} /\ worker'[w].task = worker[w].task
               /\ process = w
      BY <1>3, <3>2, <2>0 DEF WorkerKilled, ProcessInv, FileInv, files, service,
         Types
    <3> QED
      BY <1>3, <2>0, <3>1, <3>2 DEF WorkerKilled, Ended, WorkerRecords, ProcessInv
  <2>5. HearInv'
    BY <1>3, WebAssumption DEF WorkerKilled, HearInv, ProcessInv, PlaceInv,
       QuietInv, FileInv, Ended, NoWorker, ACTIVE, WebAssumption, Commanding,
       Types, files, service
  <2> QED
    BY <2>1, <2>2, <2>3, <2>4, <2>5
<1> QED
  BY <1>1, <1>2, <1>3

\* The initial states satisfy the invariant.
LEMMA Initially ==
    ASSUME Init, WebAssumption
    PROVE  Inv
<1>1. Types
  <2>1. asked \in BOOLEAN
    BY Zenon DEF Init
  <2>2. Fresh \in Documents /\ NoWorker \in WorkerRecords
    BY NoWorkerType DEF Fresh, Documents, Statuses
  <2>3. /\ draft \in [task : Tasks \cup {None}, weights : Nat]
        /\ results \in [Tasks -> Seq(Nat)]
    BY DEF Init
  <2> QED
    BY <2>1, <2>2, <2>3 DEF Init, Types, Steps, Statuses
<1>2. PlaceInv
  BY DEF Init, PlaceInv, Commanding
<1>3. FileInv
  BY DEF Init, FileInv
<1>4. QuietInv
  BY DEF Init, QuietInv
<1>5. ProcessInv
  BY DEF Init, ProcessInv, NoWorker
<1>6. HearInv
  BY DEF Init, HearInv
<1> QED
  BY <1>1, <1>2, <1>3, <1>4, <1>5, <1>6 DEF Inv

\* Every step keeps it.
LEMMA Inductive ==
    ASSUME Inv, WebAssumption, [Next]_vars
    PROVE  Inv'
<1>1. CASE \E w \in Workers : WorkerStep(w)
  BY <1>1, WorkerTypes, WorkerKeeps DEF Inv
<1>2. CASE ManagerStep
  BY <1>2, ManagerTypes, ManagerKeeps DEF Inv
<1>3. CASE \/ Poll \/ StartService \/ ServiceCrash \/ SpawnFails \/ ManagerSaveFails
           \/ WeightsChange \/ \E request \in Requests : Call(request)
  BY <1>3, OtherTypes, ServiceKeeps DEF Inv
<1>4. CASE \E w \in Workers : WorkerSaveFails(w) \/ EngineFails(w) \/ WorkerKilled(w)
  BY <1>4, OtherTypes, FailureKeeps DEF Inv
<1>5. CASE UNCHANGED vars
  BY <1>5 DEF Inv, Types, PlaceInv, FileInv, QuietInv, ProcessInv, HearInv,
     Commanding, vars, files, service, history
<1> QED
  BY <1>1, <1>2, <1>3, <1>4, <1>5 DEF Next

\* The invariant holds of every reachable state.
THEOREM Safe == Spec => []Inv
<1>1. WebAssumption
  BY WebAssumption
<1> QED
  BY <1>1, Initially, Inductive, PTL DEF Spec

-----------------------------------------------------------------------------
\* Theorems.

\* Variables keep their types, and a pipe holds one command at most (all of
\* manager.py and worker.py).
THEOREM TypeCorrect == Spec => []TypeOK
<1>1. Inv => TypeOK
  <2> SUFFICES ASSUME Inv PROVE TypeOK
    OBVIOUS
  <2>1. \A w \in Workers : Len(worker[w].commands) <= 1
    <3> SUFFICES ASSUME NEW w \in Workers PROVE Len(worker[w].commands) <= 1
      OBVIOUS
    <3>1. CASE worker[w].commands = <<>>
      BY <3>1
    <3>2. CASE worker[w].commands # <<>>
      <4>1. worker[w].at \notin {"unused", "boot"}
        BY <3>2 DEF Inv, ProcessInv, NoWorker
      <4>2. process = w
        BY <4>1 DEF Inv, ProcessInv
      <4>3. process # None
        BY <4>2, WebAssumption DEF WebAssumption
      <4>4. Len(worker[w].commands) = 1
        BY <3>2, <4>2, <4>3 DEF Inv, HearInv
      <4> QED
        BY <4>4
    <3> QED
      BY <3>1, <3>2
  <2> QED
    BY <2>1, Zenon DEF Inv, Types, TypeOK
<1> QED
  BY <1>1, Safe, PTL

\* At most one compute process is past its parent check (WorkerArms).
THEOREM OneComputeCorrect == Spec => []OneCompute
<1>1. Inv => OneCompute
  BY DEF Inv, ProcessInv, OneCompute
<1> QED
  BY <1>1, Safe, PTL

\* No two processes save one state.json at a time (atomic_text): a manager
\* saves when it has joined its worker, or when that waits for a command.
THEOREM OneWriterCorrect == Spec => []OneWriter
<1>1. Inv => OneWriter
  <2> SUFFICES ASSUME Inv, NEW w \in Workers, worker[w].at = "saving"
               PROVE  /\ ~(pc \in {"marking", "saving"} /\ current = worker[w].task)
                      /\ \A v \in Workers \ {w} :
                           ~(worker[v].at = "saving" /\ worker[v].task = worker[w].task)
    BY DEF OneWriter
  <2>1. process = w /\ process # None
    BY WebAssumption DEF Inv, ProcessInv, WebAssumption
  <2>2. pc \notin {"marking", "saving"}
    BY <2>1 DEF Inv, PlaceInv, HearInv, Commanding
  <2> QED
    BY <2>1, <2>2 DEF Inv, ProcessInv
<1> QED
  BY <1>1, Safe, PTL

\* A command goes to a worker that waits for it or has died (start).
THEOREM CommandCorrect == Spec => []CommandHeard
<1>1. Inv => CommandHeard
  BY DEF Inv, PlaceInv, HearInv, Commanding, CommandHeard
<1> QED
  BY <1>1, Safe, PTL

\* current.json names a whole task, wherever the service dies (import_model).
THEOREM PointerCorrect == Spec => []PointerValid
<1>1. Inv => PointerValid
  BY DEF Inv, FileInv, PointerValid
<1> QED
  BY <1>1, Safe, PTL

-----------------------------------------------------------------------------
\* Rows.

\* A worker in one of these places has no row and no model in hand.
Rowless == {"unused", "boot", "fail", "dead"}

\* What the steps of others do to a worker.
LEMMA OthersToWorker ==
    ASSUME Inv, WebAssumption,
           \/ ManagerStep \/ Poll \/ StartService \/ ServiceCrash \/ SpawnFails
           \/ ManagerSaveFails \/ WeightsChange
           \/ \E request \in Requests : Call(request)
           \/ \E w \in Workers :
                WorkerSaveFails(w) \/ EngineFails(w) \/ WorkerKilled(w)
    PROVE  \A v \in Workers :
              \/ /\ worker'[v].at \in Rowless
                 /\ worker'[v].doc \in {worker[v].doc, Fresh}
              \/ /\ worker'[v].at = worker[v].at /\ worker'[v].then = worker[v].then
                 /\ worker'[v].task = worker[v].task /\ worker'[v].doc = worker[v].doc
                 /\ worker'[v].rows = worker[v].rows
                 /\ worker'[v].target = worker[v].target
                 /\ worker'[v].model = worker[v].model
<1>0. /\ worker \in [Workers -> WorkerRecords]
      /\ NoWorker.at \in Rowless /\ NoWorker.doc = Fresh
  BY DEF Inv, Types, NoWorker, Rowless
<1>0a. pc \in {"join", "cancel", "command", "send"} => process \in Workers
  BY DEF Inv, Types, PlaceInv, Commanding
<1>0b. \A v \in Workers, code \in {0, 1} :
          Ended(v, code).at \in Rowless /\ Ended(v, code).doc \in {worker[v].doc, Fresh}
  BY <1>0 DEF Ended, WorkerRecords, Rowless, Places
<1>1. CASE ReapNothing \/ Mark \/ Recover \/ ManagerSaves \/ BeginSnapshot \/ EndSnapshot
  BY <1>0, <1>0a, <1>0b, <1>1 DEF ReapNothing, Mark, Recover, ManagerSaves,
     BeginSnapshot, EndSnapshot, WorkerRecords, Rowless, Places, files
<1>2. CASE \/ EnsureIdle \/ Index \/ Stop \/ Create \/ Describe \/ Point
           \/ Decide \/ Launch \/ BeginCancel
  BY <1>0, <1>0a, <1>0b, <1>2 DEF EnsureIdle, Index, Stop, Create, Describe,
     Point, Decide, Launch, BeginCancel, Refuse, WorkerRecords, Rowless, Places,
     files
<1>3. CASE Poll \/ StartService \/ SpawnFails \/ ManagerSaveFails \/ WeightsChange
  BY <1>0, <1>0a, <1>0b, <1>3 DEF Poll, StartService, SpawnFails,
     ManagerSaveFails, WeightsChange, WorkerRecords, Rowless, Places, service,
     files
<1>4. CASE \E request \in Requests : Call(request)
  BY <1>0, <1>0a, <1>0b, <1>4 DEF Call, WorkerRecords, Rowless, Places, files
<1>5. CASE ReapDead \/ Join
  BY <1>0, <1>0a, <1>0b, <1>5 DEF ReapDead, Join, WorkerRecords, Rowless, Places,
     files
<1>6. CASE Terminated
  BY <1>0, <1>0a, <1>0b, <1>6 DEF Terminated, WorkerRecords, Rowless, Places,
     service, files
<1>7. CASE Spawn
  <2>1. PICK w \in Workers : worker' = [worker EXCEPT ![w] =
                    [@ EXCEPT !.at = "boot", !.task = current, !.action = call]]
    BY <1>7 DEF Spawn
  <2> DEFINE r == [worker[w] EXCEPT !.at = "boot", !.task = current, !.action = call]
  <2>2. r.at \in Rowless /\ r.doc = worker[w].doc
    BY <1>0 DEF WorkerRecords, Rowless, Places
  <2>3. worker' = [worker EXCEPT ![w] = r]
    BY <2>1
  <2> HIDE DEF r
  <2> QED
    BY <1>0, <2>2, <2>3
<1>8. CASE ServiceCrash
  BY <1>0, <1>0a, <1>0b, <1>8 DEF ServiceCrash, WorkerRecords, Rowless, Places,
     files
<1>9. CASE Command
  <2> DEFINE r == [worker[process] EXCEPT !.cancel = Cleared, !.late = 0]
  <2>1. worker[process] \in WorkerRecords /\ process \in Workers
    BY <1>0, <1>0a, <1>9 DEF Command
  <2>2. /\ r.at = worker[process].at /\ r.then = worker[process].then
        /\ r.task = worker[process].task /\ r.doc = worker[process].doc
        /\ r.rows = worker[process].rows /\ r.target = worker[process].target
        /\ r.model = worker[process].model
    BY <2>1 DEF WorkerRecords
  <2>3. worker' = worker \/ worker' = [worker EXCEPT ![process] = r]
    BY <1>9 DEF Command
  <2> HIDE DEF r
  <2> QED
    BY <1>0, <2>1, <2>2, <2>3
<1>10. CASE SetCancel
  <2> DEFINE r == [worker[process] EXCEPT !.cancel = TRUE]
  <2>1. worker[process] \in WorkerRecords /\ process \in Workers
    BY <1>0, <1>0a, <1>10 DEF SetCancel
  <2>2. /\ r.at = worker[process].at /\ r.then = worker[process].then
        /\ r.task = worker[process].task /\ r.doc = worker[process].doc
        /\ r.rows = worker[process].rows /\ r.target = worker[process].target
        /\ r.model = worker[process].model
    BY <2>1 DEF WorkerRecords
  <2>3. worker' = worker \/ worker' = [worker EXCEPT ![process] = r]
    BY <1>10 DEF SetCancel
  <2> HIDE DEF r
  <2> QED
    BY <1>0, <2>1, <2>2, <2>3
<1>11. CASE Send
  <2> DEFINE r == [worker[process] EXCEPT
                     !.commands = Append(worker[process].commands, call)]
  <2>1. worker[process] \in WorkerRecords /\ process \in Workers
    BY <1>0, <1>0a, <1>11 DEF Send
  <2>2. /\ r.at = worker[process].at /\ r.then = worker[process].then
        /\ r.task = worker[process].task /\ r.doc = worker[process].doc
        /\ r.rows = worker[process].rows /\ r.target = worker[process].target
        /\ r.model = worker[process].model
    BY <2>1 DEF WorkerRecords
  <2>3. worker' = worker \/ worker' = [worker EXCEPT ![process] = r]
    BY <1>11 DEF Send
  <2> HIDE DEF r
  <2> QED
    BY <1>0, <2>1, <2>2, <2>3
<1>12. CASE \E w \in Workers : WorkerSaveFails(w)
  BY <1>0, <1>0a, <1>0b, <1>12 DEF WorkerSaveFails, WorkerRecords, Rowless,
     Places, service, files
<1>13. CASE \E w \in Workers : EngineFails(w)
  BY <1>0, <1>0a, <1>0b, <1>13 DEF EngineFails, WorkerRecords, Rowless, Places,
     service, files
<1>14. CASE \E w \in Workers : WorkerKilled(w)
  BY <1>0, <1>0a, <1>0b, <1>14 DEF WorkerKilled, WorkerRecords, Rowless, Places,
     service, files
<1> QED
  BY <1>1, <1>2, <1>3, <1>4, <1>5, <1>6, <1>7, <1>8, <1>9, <1>10, <1>11, <1>12,
     <1>13, <1>14 DEF ManagerStep

\* No other step touches a row, and what they save or show of a completed task
\* they have read of it.
LEMMA OthersKeepRows ==
    ASSUME Inv, RowInv, CompletedWhole, WebAssumption,
           \/ ManagerStep \/ Poll \/ StartService \/ ServiceCrash \/ SpawnFails
           \/ ManagerSaveFails \/ WeightsChange
           \/ \E request \in Requests : Call(request)
           \/ \E w \in Workers :
                WorkerSaveFails(w) \/ EngineFails(w) \/ WorkerKilled(w)
    PROVE  RowInv' /\ CompletedWhole' /\ results' = results
<1>1. results' = results
  BY DEF ManagerStep, ReapDead, ReapNothing, Mark, Recover, ManagerSaves,
     BeginSnapshot, EndSnapshot, EnsureIdle, Index, Stop, Terminated, Join,
     Create, Describe, Point, Decide, Launch, Spawn, Command, Send, BeginCancel,
     SetCancel, Poll, StartService, ServiceCrash, SpawnFails, ManagerSaveFails,
     WeightsChange, Call, WorkerSaveFails, EngineFails, WorkerKilled, files,
     Refuse
<1>2. \A v \in Workers : RowOf(worker[v])'
  <2> SUFFICES ASSUME NEW v \in Workers PROVE RowOf(worker[v])'
    OBVIOUS
  <2>1. CASE worker'[v].at \in Rowless
    BY <2>1 DEF Rowless, RowOf
  <2>2. CASE worker'[v].at \notin Rowless
    <3>1. /\ worker'[v].at = worker[v].at /\ worker'[v].then = worker[v].then
          /\ worker'[v].task = worker[v].task /\ worker'[v].doc = worker[v].doc
          /\ worker'[v].rows = worker[v].rows /\ worker'[v].target = worker[v].target
          /\ worker'[v].model = worker[v].model
      BY <2>2, OthersToWorker
    <3>2. RowOf(worker[v])
      BY DEF RowInv
    <3> QED
      BY <1>1, <3>1, <3>2 DEF RowOf
  <2> QED
    BY <2>1, <2>2
<1>3. \A t \in Tasks : Len(results'[t]) <= Total
  BY <1>1 DEF RowInv
<1>4. CASE ReapDead \/ ReapNothing
  <2>1. DocInv' /\ CompletedWhole'
    BY <1>1, <1>4 DEF ReapDead, ReapNothing, DocInv, CompletedWhole, RowInv, Inv,
       Types, PlaceInv, FileInv, Commanding, Documents, files
  <2> QED
    BY <1>1, <1>2, <1>3, <2>1 DEF RowInv
<1>5. CASE Mark
  <2>1. DocInv' /\ CompletedWhole'
    BY <1>1, <1>5 DEF Mark, DocInv, CompletedWhole, RowInv, Inv, Types, PlaceInv,
       FileInv, Commanding, Documents, files
  <2> QED
    BY <1>1, <1>2, <1>3, <2>1 DEF RowInv
<1>6. CASE Recover
  <2>1. DocInv' /\ CompletedWhole'
    BY <1>1, <1>6 DEF Recover, DocInv, CompletedWhole, RowInv, Inv, Types,
       PlaceInv, FileInv, Commanding, Documents, ACTIVE, files
  <2> QED
    BY <1>1, <1>2, <1>3, <2>1 DEF RowInv
<1>7. CASE ManagerSaves
  <2>1. DocInv' /\ CompletedWhole'
    BY <1>1, <1>7 DEF ManagerSaves, DocInv, CompletedWhole, RowInv, Inv, Types,
       PlaceInv, FileInv, Commanding, Documents
  <2> QED
    BY <1>1, <1>2, <1>3, <2>1 DEF RowInv
<1>8. CASE BeginSnapshot
  <2>1. DocInv' /\ CompletedWhole'
    BY <1>1, <1>8 DEF BeginSnapshot, DocInv, CompletedWhole, RowInv, Inv, Types,
       PlaceInv, FileInv, Commanding, Documents, files
  <2> QED
    BY <1>1, <1>2, <1>3, <2>1 DEF RowInv
<1>9. CASE EndSnapshot
  <2>1. DocInv' /\ CompletedWhole'
    BY <1>1, <1>9 DEF EndSnapshot, DocInv, CompletedWhole, RowInv, Inv, Types,
       PlaceInv, FileInv, Commanding, Documents, files
  <2> QED
    BY <1>1, <1>2, <1>3, <2>1 DEF RowInv
<1>10. CASE EnsureIdle
  <2>1. DocInv' /\ CompletedWhole'
    BY <1>1, <1>10 DEF EnsureIdle, DocInv, CompletedWhole, RowInv, Inv, Types,
       PlaceInv, FileInv, Refuse, Commanding, Documents, ACTIVE, files
  <2> QED
    BY <1>1, <1>2, <1>3, <2>1 DEF RowInv
<1>11. CASE Index
  <2>1. DocInv' /\ CompletedWhole'
    BY <1>1, <1>11 DEF Index, DocInv, CompletedWhole, RowInv, Inv, Types,
       PlaceInv, FileInv, Refuse, Commanding, Documents, files
  <2> QED
    BY <1>1, <1>2, <1>3, <2>1 DEF RowInv
<1>12. CASE Stop \/ Terminated \/ Join \/ Create
  <2>1. DocInv' /\ CompletedWhole'
    BY <1>1, <1>12 DEF Stop, Terminated, Join, Create, DocInv, CompletedWhole,
       RowInv, Inv, Types, PlaceInv, FileInv, Stopped, Commanding, Documents,
       files, service
  <2> QED
    BY <1>1, <1>2, <1>3, <2>1 DEF RowInv
<1>13. CASE Describe
  <2>1. DocInv' /\ CompletedWhole'
    BY <1>1, <1>13 DEF Describe, DocInv, CompletedWhole, RowInv, Inv, Types,
       PlaceInv, FileInv, Commanding, Documents, Fresh
  <2> QED
    BY <1>1, <1>2, <1>3, <2>1 DEF RowInv
<1>14. CASE Point
  <2>1. DocInv' /\ CompletedWhole'
    BY <1>1, <1>14 DEF Point, DocInv, CompletedWhole, RowInv, Inv, Types,
       PlaceInv, FileInv, Answer, Commanding, Documents
  <2> QED
    BY <1>1, <1>2, <1>3, <2>1 DEF RowInv
<1>15. CASE Decide
  <2>1. DocInv' /\ CompletedWhole'
    BY <1>1, <1>15 DEF Decide, DocInv, CompletedWhole, RowInv, Inv, Types,
       PlaceInv, FileInv, Answer, Commanding, Documents, files
  <2> QED
    BY <1>1, <1>2, <1>3, <2>1 DEF RowInv
<1>16. CASE Launch
  <2>1. DocInv' /\ CompletedWhole'
    BY <1>1, <1>16 DEF Launch, DocInv, CompletedWhole, RowInv, Inv, Types,
       PlaceInv, FileInv, Commanding, Documents, files
  <2> QED
    BY <1>1, <1>2, <1>3, <2>1 DEF RowInv
<1>17. CASE Spawn
  <2>1. DocInv' /\ CompletedWhole'
    BY <1>1, <1>17 DEF Spawn, DocInv, CompletedWhole, RowInv, Inv, Types,
       PlaceInv, FileInv, Answer, Commanding, Documents, files
  <2> QED
    BY <1>1, <1>2, <1>3, <2>1 DEF RowInv
<1>18. CASE Command
  <2>1. DocInv' /\ CompletedWhole'
    BY <1>1, <1>18 DEF Command, DocInv, CompletedWhole, RowInv, Inv, Types,
       PlaceInv, FileInv, Commanding, Documents, files
  <2> QED
    BY <1>1, <1>2, <1>3, <2>1 DEF RowInv
<1>19. CASE Send
  <2>1. DocInv' /\ CompletedWhole'
    BY <1>1, <1>19 DEF Send, DocInv, CompletedWhole, RowInv, Inv, Types, PlaceInv,
       FileInv, Answer, Commanding, Documents, files
  <2> QED
    BY <1>1, <1>2, <1>3, <2>1 DEF RowInv
<1>20. CASE BeginCancel
  <2>1. DocInv' /\ CompletedWhole'
    BY <1>1, <1>20 DEF BeginCancel, DocInv, CompletedWhole, RowInv, Inv, Types,
       PlaceInv, FileInv, Refuse, Commanding, Documents, ACTIVE, files
  <2> QED
    BY <1>1, <1>2, <1>3, <2>1 DEF RowInv
<1>21. CASE SetCancel
  <2>1. DocInv' /\ CompletedWhole'
    BY <1>1, <1>21 DEF SetCancel, DocInv, CompletedWhole, RowInv, Inv, Types,
       PlaceInv, FileInv, Answer, Commanding, Documents, files
  <2> QED
    BY <1>1, <1>2, <1>3, <2>1 DEF RowInv
<1>22. CASE \/ Poll \/ StartService \/ ServiceCrash \/ SpawnFails
            \/ ManagerSaveFails \/ WeightsChange
  <2>1. DocInv' /\ CompletedWhole'
    BY <1>1, <1>22 DEF Poll, StartService, ServiceCrash, SpawnFails,
       ManagerSaveFails, WeightsChange, DocInv, CompletedWhole, RowInv, Inv,
       Types, PlaceInv, FileInv, Answer, Raised, Commanding, Documents, files,
       service
  <2> QED
    BY <1>1, <1>2, <1>3, <2>1 DEF RowInv
<1>23. CASE \E request \in Requests : Call(request)
  <2>1. DocInv' /\ CompletedWhole'
    BY <1>1, <1>23 DEF Call, DocInv, CompletedWhole, RowInv, Inv, Types, PlaceInv,
       FileInv, Commanding, Documents, files
  <2> QED
    BY <1>1, <1>2, <1>3, <2>1 DEF RowInv
<1>24. CASE \E w \in Workers : WorkerSaveFails(w) \/ EngineFails(w) \/ WorkerKilled(w)
  <2>1. DocInv' /\ CompletedWhole'
    BY <1>1, <1>24 DEF WorkerSaveFails, EngineFails, WorkerKilled, DocInv,
       CompletedWhole, RowInv, Inv, Types, PlaceInv, FileInv, Commanding,
       Documents, files, service
  <2> QED
    BY <1>1, <1>2, <1>3, <2>1 DEF RowInv
<1> QED
  BY <1>4, <1>5, <1>6, <1>7, <1>8, <1>9, <1>10, <1>11, <1>12, <1>13, <1>14, <1>15,
     <1>16, <1>17, <1>18, <1>19, <1>20, <1>21, <1>22, <1>23, <1>24
     DEF ManagerStep

\* A worker adds one row at a time to those it read, and says completed when
\* the last is in.
LEMMA WorkerKeepsRows ==
    ASSUME Inv, RowInv, CompletedWhole, WebAssumption, NEW w \in Workers, WorkerStep(w)
    PROVE  /\ RowInv' /\ CompletedWhole'
           /\ \/ results' = results
              \/ \E x \in Nat : LET t == worker[w].task IN
                    /\ t \in Tasks
                    /\ results' = [results EXCEPT ![t] = Append(results[t], x)]
<1> DEFINE me == worker[w]
<1> DEFINE AllRows == \A t \in Tasks : Len(results[t]) <= Total
<1>0. /\ me \in WorkerRecords /\ worker \in [Workers -> WorkerRecords]
      /\ results \in [Tasks -> Seq(Nat)] /\ me.rows \in Seq(Nat)
      /\ me.at # "unused" /\ me.task \in Tasks /\ me.model \in Nat
      /\ \A v \in Workers \ {w} : worker'[v] = worker[v]
      /\ UNCHANGED <<pc, seen, doc, current, shown>>
      /\ NoWorker.at = "unused" /\ Total \in Nat
      /\ RowOf(me) /\ AllRows
  <2>1. /\ worker \in [Workers -> WorkerRecords] /\ me.at # "unused"
        /\ results \in [Tasks -> Seq(Nat)] /\ me \in WorkerRecords
    BY DEF Inv, Types, WorkerStep, WorkerArms, WorkerBegins, WorkerValidates,
       WorkerLoads, WorkerCompiles, WorkerRuns, WorkerChecks, WorkerInfers,
       WorkerCommits, WorkerReceives, WorkerSaves, WorkerFails, WorkerExits
  <2>2. me.task \in Tasks /\ RowOf(me) /\ AllRows /\ NoWorker.at = "unused"
    BY <2>1 DEF Inv, ProcessInv, RowInv, NoWorker
  <2>3. me.rows \in Seq(Nat) /\ me.model \in Nat /\ Total \in Nat
    BY <2>1, WebAssumption DEF WorkerRecords, WebAssumption
  <2>4. /\ \A v \in Workers \ {w} : worker'[v] = worker[v]
        /\ UNCHANGED <<pc, seen, doc, current, shown>>
    BY <2>1 DEF service, WorkerStep, WorkerArms, WorkerBegins, WorkerValidates,
       WorkerLoads, WorkerCompiles, WorkerRuns, WorkerChecks, WorkerInfers,
       WorkerCommits, WorkerReceives, WorkerSaves, WorkerFails, WorkerExits
  <2> QED
    BY <2>1, <2>2, <2>3, <2>4
\* A worker that is past the parent check is the only one that is.
<1>0a. me.at # "boot" => \A v \in Workers \ {w} : worker[v].at \in {"unused", "boot"}
  BY <1>0 DEF Inv, ProcessInv
<1>0b. \A v \in Workers \ {w} : me.at # "boot" => RowOf(worker[v])'
  BY <1>0, <1>0a DEF RowOf
<1>0c. ASSUME UNCHANGED <<state, results>>, RowOf(worker[w])'
       PROVE  RowInv' /\ CompletedWhole'
  <2>1. \A v \in Workers : RowOf(worker[v])'
    BY <1>0, <1>0c DEF RowInv, RowOf
  <2> QED
    BY <1>0, <1>0c, <2>1 DEF RowInv, DocInv, CompletedWhole
<1>1. CASE WorkerArms(w)
  <2>1. UNCHANGED <<state, results>>
    BY <1>1 DEF WorkerArms, files
  <2>2. RowOf(worker[w])'
    BY <1>0, <1>1, <2>1 DEF WorkerArms, Update, Ended, RowOf, WorkerRecords,
       Documents
  <2> QED
    BY <1>0c, <2>1, <2>2
<1>2. CASE WorkerBegins(w)
  <2>1. UNCHANGED <<state, results>>
    BY <1>2 DEF WorkerBegins, files
  <2>2. RowOf(worker[w])'
    BY <1>0, <1>2, <2>1 DEF WorkerBegins, Update, RowOf, WorkerRecords, Documents
  <2> QED
    BY <1>0c, <2>1, <2>2
<1>3. CASE WorkerValidates(w)
  <2>1. UNCHANGED <<state, results>>
    BY <1>3 DEF WorkerValidates, files
  <2>2. RowOf(worker[w])'
    BY <1>0, <1>3, <2>1 DEF WorkerValidates, Update, RowOf, WorkerRecords,
       Documents
  <2> QED
    BY <1>0c, <2>1, <2>2
<1>4. CASE WorkerLoads(w)
  <2>1. UNCHANGED <<state, results>>
    BY <1>4 DEF WorkerLoads, files
  <2>2. RowOf(worker[w])'
    BY <1>0, <1>4, <2>1 DEF WorkerLoads, Update, RowOf, WorkerRecords, Documents
  <2> QED
    BY <1>0c, <2>1, <2>2
<1>5. CASE WorkerCompiles(w)
  <2>1. UNCHANGED <<state, results>>
    BY <1>5 DEF WorkerCompiles, files
  <2>2. RowOf(worker[w])'
    BY <1>0, <1>5, <2>1 DEF WorkerCompiles, Update, RowOf, WorkerRecords,
       Documents
  <2> QED
    BY <1>0c, <2>1, <2>2
<1>6. CASE WorkerRuns(w)
  <2>1. UNCHANGED <<state, results>>
    BY <1>6 DEF WorkerRuns, files
  <2>2. RowOf(worker[w])'
    BY <1>0, <1>6, <2>1 DEF WorkerRuns, Update, RowOf, WorkerRecords, Documents,
       Restored, Target
  <2> QED
    BY <1>0c, <2>1, <2>2
<1>7. CASE WorkerChecks(w)
  <2>1. UNCHANGED <<state, results>>
    BY <1>7 DEF WorkerChecks, files
  <2>2. RowOf(worker[w])'
    BY <1>0, <1>7, <2>1 DEF WorkerChecks, Update, RowOf, WorkerRecords, Documents,
       Final
  <2> QED
    BY <1>0c, <2>1, <2>2
<1>8. CASE WorkerInfers(w)
  <2>1. UNCHANGED <<state, results>>
    BY <1>8 DEF WorkerInfers, files
  <2>2. RowOf(worker[w])'
    BY <1>0, <1>8, <2>1 DEF WorkerInfers, Update, RowOf, WorkerRecords, Documents
  <2> QED
    BY <1>0c, <2>1, <2>2
<1>9. CASE WorkerReceives(w)
  <2>1. UNCHANGED <<state, results>>
    BY <1>9 DEF WorkerReceives, files
  <2>2. RowOf(worker[w])'
    BY <1>0, <1>9, <2>1 DEF WorkerReceives, Update, RowOf, WorkerRecords,
       Documents
  <2> QED
    BY <1>0c, <2>1, <2>2
<1>10. CASE WorkerFails(w)
  <2>1. UNCHANGED <<state, results>>
    BY <1>10 DEF WorkerFails, files
  <2>2. RowOf(worker[w])'
    BY <1>0, <1>10, <2>1 DEF WorkerFails, Update, RowOf, WorkerRecords, Documents
  <2> QED
    BY <1>0c, <2>1, <2>2
<1>11. CASE WorkerExits(w)
  <2>1. UNCHANGED <<state, results>>
    BY <1>11 DEF WorkerExits, files
  <2>2. RowOf(worker[w])'
    BY <1>0, <1>11, <2>1 DEF WorkerExits, Update, Ended, RowOf, WorkerRecords,
       Documents
  <2> QED
    BY <1>0c, <2>1, <2>2
<1>12. CASE WorkerSaves(w)
  <2>1. /\ results' = results /\ state' = [state EXCEPT ![me.task] = me.doc]
        /\ me.at = "saving" /\ worker'[w] = [me EXCEPT !.at = me.then]
    BY <1>0, <1>12 DEF WorkerSaves
  <2>2. me.then \in {"validate", "load", "compile", "run", "recv", "check", "exit"}
    BY <1>0, <2>1 DEF Inv, ProcessInv
  <2>3. RowOf(worker[w])'
    BY <1>0, <2>1, <2>2 DEF RowOf, WorkerRecords
  <2>4. me.doc.status = "completed" => Len(results[me.task]) = Total
    BY <1>0, <2>1 DEF RowOf
  <2>5. CompletedWhole'
    BY <1>0, <2>1, <2>4 DEF CompletedWhole, Inv, Types
  <2>6. RowInv'
    BY <1>0, <1>0b, <2>1, <2>3 DEF RowInv, DocInv
  <2> QED
    BY <2>1, <2>5, <2>6
<1>13. CASE WorkerCommits(w)
  <2> DEFINE t == me.task
  <2>1. /\ me.at = "committing" /\ state' = state
        /\ results' = [results EXCEPT ![t] = me.rows]
    BY <1>13 DEF WorkerCommits
  <2>2. me.rows = Append(results[t], me.model) /\ Len(results[t]) < Total
    BY <1>0, <2>1 DEF RowOf
  <2>3. /\ me.rows \in Seq(Nat) /\ Len(me.rows) = Len(results[t]) + 1
        /\ Len(me.rows) <= Total
    BY <1>0, <2>2
  <2>4. \A u \in Tasks : Len(results'[u]) <= Total
    BY <1>0, <2>1, <2>3
  <2>5. \A u \in Tasks : Len(results[u]) = Total => results'[u] = results[u]
    BY <1>0, <2>1, <2>2
  <2>6. /\ worker'[w].rows = me.rows /\ worker'[w].task = t
        /\ worker'[w].target = me.target /\ worker'[w].at = "saving"
        /\ worker'[w].doc.status = "running" /\ me.target <= Total
    <3> DEFINE late == worker[w].late + Late(w)
    <3> DEFINE r == [me EXCEPT !.late = late]
    <3>1. /\ r.rows = me.rows /\ r.task = t /\ r.target = me.target
          /\ r.doc = me.doc
      BY <1>0 DEF WorkerRecords
    <3>2. worker'[w] = Update(r, "running", "check")
      BY <1>0, <1>13 DEF WorkerCommits
    <3>3. \E q \in WorkerRecords : q = r
      <4>1. late \in Nat
        BY <1>0 DEF WorkerRecords, Late
      <4> QED
        BY <1>0, <4>1 DEF WorkerRecords
    <3>4. /\ worker'[w].rows = r.rows /\ worker'[w].task = r.task
          /\ worker'[w].target = r.target /\ worker'[w].at = "saving"
          /\ worker'[w].doc.status = "running"
      <4> HIDE DEF r
      <4> QED
        BY <3>2, <3>3 DEF Update, WorkerRecords, Documents
    <3>5. me.target <= Total
      BY <1>0, <2>1 DEF RowOf
    <3> QED
      BY <3>1, <3>4, <3>5
  <2>7. RowOf(worker[w])'
    BY <1>0, <2>1, <2>6 DEF RowOf
  <2>8. RowInv' /\ CompletedWhole'
    BY <1>0, <1>0b, <2>1, <2>4, <2>5, <2>7 DEF RowInv, DocInv, CompletedWhole,
       Inv, Types, PlaceInv
  <2> QED
    BY <1>0, <2>1, <2>2, <2>8
<1> QED
  BY <1>1, <1>2, <1>3, <1>4, <1>5, <1>6, <1>7, <1>8, <1>9, <1>10, <1>11, <1>12,
     <1>13 DEF WorkerStep

Kept(t) ==
    /\ Len(results[t]) <= Len(results'[t])
    /\ SubSeq(results'[t], 1, Len(results[t])) = results[t]

\* Either kind of step keeps the rows.
LEMMA NextKeepsRows ==
    ASSUME Inv, RowInv, CompletedWhole, WebAssumption, [Next]_vars
    PROVE  RowInv' /\ CompletedWhole' /\ \A t \in Tasks : Kept(t)
<1>0. results \in [Tasks -> Seq(Nat)]
  BY DEF Inv, Types
<1>1. ASSUME results' = results
      PROVE  \A t \in Tasks : Kept(t)
  BY <1>0, <1>1 DEF Kept
<1>2. CASE \E w \in Workers : WorkerStep(w)
  <2>1. PICK w \in Workers : WorkerStep(w)
    BY <1>2
  <2>2. /\ RowInv' /\ CompletedWhole'
        /\ \/ results' = results
           \/ \E x \in Nat : LET t == worker[w].task IN
                 /\ t \in Tasks
                 /\ results' = [results EXCEPT ![t] = Append(results[t], x)]
    BY <2>1, WorkerKeepsRows
  <2>3. ASSUME NEW x \in Nat, NEW t \in Tasks,
               results' = [results EXCEPT ![t] = Append(results[t], x)]
        PROVE  \A u \in Tasks : Kept(u)
    <3>1. \A u \in Tasks \ {t} : Kept(u)
      BY <1>0, <2>3 DEF Kept
    <3>2. results[t] \in Seq(Nat) /\ results'[t] = Append(results[t], x)
      BY <1>0, <2>3
    <3>3. /\ Len(results'[t]) = Len(results[t]) + 1
          /\ SubSeq(results'[t], 1, Len(results[t])) = results[t]
      BY <3>2
    <3>4. Len(results[t]) <= Len(results'[t])
      <4>1. Len(results[t]) \in Nat
        BY <3>2
      <4> QED
        BY <3>3, <4>1
    <3>5. Kept(t)
      BY <3>3, <3>4 DEF Kept
    <3> QED
      BY <3>1, <3>5
  <2> QED
    BY <1>1, <2>2, <2>3
<1>3. CASE
           \/ ManagerStep \/ Poll \/ StartService \/ ServiceCrash \/ SpawnFails
           \/ ManagerSaveFails \/ WeightsChange
           \/ \E request \in Requests : Call(request)
           \/ \E w \in Workers :
                WorkerSaveFails(w) \/ EngineFails(w) \/ WorkerKilled(w)
  BY <1>1, <1>3, OthersKeepRows
<1>4. CASE UNCHANGED vars
  <2>1. UNCHANGED <<results, worker, state, pc, doc, seen, current, shown>>
    BY <1>4 DEF vars, files, service
  <2>2. RowInv'
    BY <2>1 DEF RowInv, RowOf, DocInv
  <2>3. CompletedWhole'
    BY <2>1 DEF CompletedWhole
  <2> QED
    BY <1>1, <2>1, <2>2, <2>3
<1> QED
  BY <1>2, <1>3, <1>4 DEF Next

\* A completed task has a row for each sample (run_samples, snapshot).
THEOREM CompletedCorrect == Spec => []CompletedWhole
<1>1. WebAssumption
  BY WebAssumption
<1>2. Init => RowInv /\ CompletedWhole
  <2> SUFFICES ASSUME Init PROVE RowInv /\ CompletedWhole
    OBVIOUS
  <2>1. RowInv
    BY <1>1 DEF Init, WebAssumption, RowInv, RowOf, DocInv, NoWorker
  <2> QED
    BY <2>1 DEF Init, CompletedWhole
<1>3. Inv /\ RowInv /\ CompletedWhole /\ [Next]_vars => RowInv' /\ CompletedWhole'
  BY <1>1, NextKeepsRows
<1> QED
  BY <1>2, <1>3, Safe, PTL DEF Spec

\* Committed rows are never lost or changed (save_rows, run_samples).
THEOREM RowsCorrect == Spec => RowsKept
<1>1. WebAssumption
  BY WebAssumption
<1>2. Init => RowInv
  BY <1>1 DEF Init, WebAssumption, RowInv, RowOf, DocInv, NoWorker
<1>3. Inv /\ RowInv /\ CompletedWhole /\ [Next]_vars =>
        RowInv' /\ [\A t \in Tasks :
                      /\ Len(results[t]) <= Len(results'[t])
                      /\ SubSeq(results'[t], 1, Len(results[t])) = results[t]]_vars
  BY <1>1, NextKeepsRows DEF Kept
<1> QED
  BY <1>2, <1>3, Safe, CompletedCorrect, PTL DEF Spec, RowsKept

-----------------------------------------------------------------------------
\* Cancels.

\* A worker step keeps what is known of the cancel event.
LEMMA WorkerKeepsCancel ==
    ASSUME Inv, CancelInv, WebAssumption, NEW w \in Workers, WorkerStep(w)
    PROVE  CancelInv'
<1> DEFINE me == worker[w]
<1>0. /\ me \in WorkerRecords /\ worker \in [Workers -> WorkerRecords]
      /\ me.at # "unused" /\ me.at # "dead" /\ me.late \in Nat
      /\ UNCHANGED <<process, pc, then, asked>>
  BY DEF Inv, Types, service, history, WorkerRecords, WorkerStep, WorkerArms,
     WorkerBegins, WorkerValidates, WorkerLoads, WorkerCompiles, WorkerRuns,
     WorkerChecks, WorkerInfers, WorkerCommits, WorkerReceives, WorkerSaves,
     WorkerFails, WorkerExits
<1>1. NoWorker.late = 0 /\ NoWorker.cancel = FALSE
  BY DEF NoWorker
<1>2. LateOf(me)
  BY DEF CancelInv
<1>3. me.at # "recv" \/ me.commands # <<>> => ~Commanding \/ process # w
  BY <1>0, WebAssumption DEF Inv, HearInv, PlaceInv, WebAssumption
<1>4. me.at # "boot" => process = w /\ process # None
  BY <1>0, WebAssumption DEF Inv, ProcessInv, WebAssumption
<1>4a. me.at \notin {"recv", "dead"} => me.commands = <<>>
  BY <1>0, <1>4 DEF Inv, HearInv, ProcessInv
<1>5. ASSUME NEW r, worker' = [worker EXCEPT ![w] = r], LateOf(r),
             \/ r = NoWorker /\ process # w
             \/ r.cancel = me.cancel /\ (Commanding => process # w)
             \/ r.cancel = me.cancel /\ r.late = me.late
      PROVE  CancelInv'
  BY <1>0, <1>1, <1>5 DEF CancelInv, Commanding
<1>6. CASE WorkerArms(w)
  <2> DEFINE r == worker'[w]
  <2>1. worker' = [worker EXCEPT ![w] = r]
    BY <1>0, <1>6 DEF WorkerArms
  <2>2. LateOf(r)
    BY <1>0, <1>1, <1>2, <1>6 DEF WorkerArms, LateOf, Update, Ended,
       WorkerRecords, Documents, Late
  <2>3. \/ r = NoWorker /\ process # w
        \/ r.cancel = me.cancel /\ (Commanding => process # w)
    BY <1>0, <1>3, <1>4, <1>6 DEF WorkerArms, Update, Ended, WorkerRecords,
       Documents, Late
  <2> HIDE DEF r
  <2> QED
    BY <1>5, <2>1, <2>2, <2>3
<1>7. CASE WorkerBegins(w)
  <2> DEFINE r == worker'[w]
  <2>1. worker' = [worker EXCEPT ![w] = r]
    BY <1>0, <1>7 DEF WorkerBegins
  <2>2. LateOf(r)
    BY <1>0, <1>1, <1>2, <1>7 DEF WorkerBegins, LateOf, Update, WorkerRecords,
       Documents, Late
  <2>3. \/ r = NoWorker /\ process # w
        \/ r.cancel = me.cancel /\ (Commanding => process # w)
    BY <1>0, <1>3, <1>4, <1>7 DEF WorkerBegins, Update, WorkerRecords, Documents,
       Late
  <2> HIDE DEF r
  <2> QED
    BY <1>5, <2>1, <2>2, <2>3
<1>8. CASE WorkerValidates(w)
  <2> DEFINE r == worker'[w]
  <2>1. worker' = [worker EXCEPT ![w] = r]
    BY <1>0, <1>8 DEF WorkerValidates
  <2>2. LateOf(r)
    BY <1>0, <1>1, <1>2, <1>8 DEF WorkerValidates, LateOf, Update, WorkerRecords,
       Documents, Late
  <2>3. \/ r = NoWorker /\ process # w
        \/ r.cancel = me.cancel /\ (Commanding => process # w)
    BY <1>0, <1>3, <1>4, <1>8 DEF WorkerValidates, Update, WorkerRecords,
       Documents, Late
  <2> HIDE DEF r
  <2> QED
    BY <1>5, <2>1, <2>2, <2>3
<1>9. CASE WorkerLoads(w)
  <2> DEFINE r == worker'[w]
  <2>1. worker' = [worker EXCEPT ![w] = r]
    BY <1>0, <1>9 DEF WorkerLoads
  <2>2. LateOf(r)
    BY <1>0, <1>1, <1>2, <1>9 DEF WorkerLoads, LateOf, Update, WorkerRecords,
       Documents, Late
  <2>3. \/ r = NoWorker /\ process # w
        \/ r.cancel = me.cancel /\ (Commanding => process # w)
    BY <1>0, <1>3, <1>4, <1>9 DEF WorkerLoads, Update, WorkerRecords, Documents,
       Late
  <2> HIDE DEF r
  <2> QED
    BY <1>5, <2>1, <2>2, <2>3
<1>10. CASE WorkerCompiles(w)
  <2> DEFINE r == worker'[w]
  <2>1. worker' = [worker EXCEPT ![w] = r]
    BY <1>0, <1>10 DEF WorkerCompiles
  <2>2. LateOf(r)
    BY <1>0, <1>1, <1>2, <1>10 DEF WorkerCompiles, LateOf, Update, WorkerRecords,
       Documents, Late
  <2>3. \/ r = NoWorker /\ process # w
        \/ r.cancel = me.cancel /\ (Commanding => process # w)
    BY <1>0, <1>3, <1>4, <1>10 DEF WorkerCompiles, Update, WorkerRecords,
       Documents, Late
  <2> HIDE DEF r
  <2> QED
    BY <1>5, <2>1, <2>2, <2>3
<1>11. CASE WorkerRuns(w)
  <2> DEFINE r == worker'[w]
  <2>1. worker' = [worker EXCEPT ![w] = r]
    BY <1>0, <1>11 DEF WorkerRuns
  <2>2. LateOf(r)
    BY <1>0, <1>1, <1>2, <1>11 DEF WorkerRuns, LateOf, Update, WorkerRecords,
       Documents, Late
  <2>3. \/ r = NoWorker /\ process # w
        \/ r.cancel = me.cancel /\ (Commanding => process # w)
    BY <1>0, <1>3, <1>4, <1>11 DEF WorkerRuns, Update, WorkerRecords, Documents,
       Late
  <2> HIDE DEF r
  <2> QED
    BY <1>5, <2>1, <2>2, <2>3
<1>12. CASE WorkerChecks(w)
  <2> DEFINE r == worker'[w]
  <2>1. worker' = [worker EXCEPT ![w] = r]
    BY <1>0, <1>12 DEF WorkerChecks
  <2>2. LateOf(r)
    BY <1>0, <1>1, <1>2, <1>12 DEF WorkerChecks, LateOf, Update, WorkerRecords,
       Documents, Late, Stopping
  <2>3. \/ r = NoWorker /\ process # w
        \/ r.cancel = me.cancel /\ (Commanding => process # w)
    BY <1>0, <1>3, <1>4, <1>12 DEF WorkerChecks, Update, WorkerRecords, Documents,
       Late
  <2> HIDE DEF r
  <2> QED
    BY <1>5, <2>1, <2>2, <2>3
<1>13. CASE WorkerInfers(w)
  <2> DEFINE r == worker'[w]
  <2>1. worker' = [worker EXCEPT ![w] = r]
    BY <1>0, <1>13 DEF WorkerInfers
  <2>2. LateOf(r)
    BY <1>0, <1>1, <1>2, <1>13 DEF WorkerInfers, LateOf, Update, WorkerRecords,
       Documents, Late
  <2>3. \/ r = NoWorker /\ process # w
        \/ r.cancel = me.cancel /\ (Commanding => process # w)
    BY <1>0, <1>3, <1>4, <1>13 DEF WorkerInfers, Update, WorkerRecords, Documents,
       Late
  <2> HIDE DEF r
  <2> QED
    BY <1>5, <2>1, <2>2, <2>3
<1>14. CASE WorkerCommits(w)
  <2> DEFINE r == worker'[w]
  <2>1. worker' = [worker EXCEPT ![w] = r]
    BY <1>0, <1>14 DEF WorkerCommits
  <2>2. LateOf(r)
    <3> DEFINE n == me.late + Late(w)
    <3> DEFINE q == [me EXCEPT !.late = n]
    <3>1. me.at = "committing" /\ me.late = 0 /\ me.commands = <<>>
      BY <1>0, <1>2, <1>4a, <1>14 DEF WorkerCommits, LateOf
    <3>2. Late(w) \in {0, 1} /\ (Late(w) = 1 => me.cancel)
      BY DEF Late
    <3>2a. n = Late(w) /\ n \in Nat
      BY <3>1, <3>2
    <3>3. /\ q \in WorkerRecords /\ q.late = Late(w) /\ q.cancel = me.cancel
          /\ q.commands = <<>>
      <4> HIDE DEF n
      <4> QED
        BY <1>0, <3>1, <3>2a DEF WorkerRecords
    <3>4. r = Update(q, "running", "check")
      BY <1>0, <1>14 DEF WorkerCommits
    <3>5. /\ r.late = q.late /\ r.cancel = q.cancel /\ r.commands = q.commands
          /\ r.at = "saving" /\ r.then = "check"
      <4> HIDE DEF q
      <4> QED
        BY <3>3, <3>4 DEF Update, WorkerRecords, Documents
    <3> QED
      BY <3>2, <3>3, <3>5 DEF LateOf
  <2>3. \/ r = NoWorker /\ process # w
        \/ r.cancel = me.cancel /\ (Commanding => process # w)
    BY <1>0, <1>3, <1>4, <1>14 DEF WorkerCommits, Update, WorkerRecords,
       Documents, Late
  <2> HIDE DEF r
  <2> QED
    BY <1>5, <2>1, <2>2, <2>3
<1>15. CASE WorkerReceives(w)
  <2> DEFINE r == worker'[w]
  <2>1. worker' = [worker EXCEPT ![w] = r]
    BY <1>0, <1>15 DEF WorkerReceives
  <2>2. LateOf(r)
    BY <1>0, <1>1, <1>2, <1>15 DEF WorkerReceives, LateOf, Update, WorkerRecords,
       Documents, Late
  <2>3. \/ r = NoWorker /\ process # w
        \/ r.cancel = me.cancel /\ (Commanding => process # w)
    BY <1>0, <1>3, <1>4, <1>15 DEF WorkerReceives, Update, WorkerRecords,
       Documents, Late
  <2> HIDE DEF r
  <2> QED
    BY <1>5, <2>1, <2>2, <2>3
<1>16. CASE WorkerSaves(w)
  <2> DEFINE r == worker'[w]
  <2>1. worker' = [worker EXCEPT ![w] = r]
    BY <1>0, <1>16 DEF WorkerSaves
  <2>2. LateOf(r)
    BY <1>0, <1>1, <1>2, <1>16 DEF WorkerSaves, LateOf, Update, WorkerRecords,
       Documents, Late
  <2>3. \/ r = NoWorker /\ process # w
        \/ r.cancel = me.cancel /\ (Commanding => process # w)
    BY <1>0, <1>3, <1>4, <1>16 DEF WorkerSaves, Update, WorkerRecords, Documents,
       Late
  <2> HIDE DEF r
  <2> QED
    BY <1>5, <2>1, <2>2, <2>3
<1>17. CASE WorkerFails(w)
  <2> DEFINE r == worker'[w]
  <2>1. worker' = [worker EXCEPT ![w] = r]
    BY <1>0, <1>17 DEF WorkerFails
  <2>2. LateOf(r)
    BY <1>0, <1>1, <1>2, <1>17 DEF WorkerFails, LateOf, Update, WorkerRecords,
       Documents, Late
  <2>3. \/ r = NoWorker /\ process # w
        \/ r.cancel = me.cancel /\ (Commanding => process # w)
    BY <1>0, <1>3, <1>4, <1>17 DEF WorkerFails, Update, WorkerRecords, Documents,
       Late
  <2> HIDE DEF r
  <2> QED
    BY <1>5, <2>1, <2>2, <2>3
<1>18. CASE WorkerExits(w)
  <2> DEFINE r == worker'[w]
  <2>1. worker' = [worker EXCEPT ![w] = r]
    BY <1>0, <1>18 DEF WorkerExits
  <2>2. LateOf(r)
    BY <1>0, <1>1, <1>2, <1>18 DEF WorkerExits, LateOf, Update, Ended,
       WorkerRecords, Documents, Late
  <2>3. \/ r = NoWorker /\ process # w
        \/ r.cancel = me.cancel /\ (Commanding => process # w)
    BY <1>0, <1>3, <1>4, <1>18 DEF WorkerExits, Update, Ended, WorkerRecords,
       Documents, Late
  <2> HIDE DEF r
  <2> QED
    BY <1>5, <2>1, <2>2, <2>3
<1> QED
  BY <1>6, <1>7, <1>8, <1>9, <1>10, <1>11, <1>12, <1>13, <1>14, <1>15, <1>16,
     <1>17, <1>18 DEF WorkerStep

\* So does any other step: the event is cleared before a command is sent.
LEMMA OthersKeepCancel ==
    ASSUME Inv, CancelInv, WebAssumption,
           \/ ManagerStep \/ Poll \/ StartService \/ ServiceCrash \/ SpawnFails
           \/ ManagerSaveFails \/ WeightsChange
           \/ \E request \in Requests : Call(request)
           \/ \E w \in Workers :
                WorkerSaveFails(w) \/ EngineFails(w) \/ WorkerKilled(w)
    PROVE  CancelInv'
<1>0. /\ worker \in [Workers -> WorkerRecords] /\ process \in Workers \cup {None}
      /\ NoWorker.late = 0 /\ NoWorker.cancel = FALSE
      /\ Commanding \/ pc \in {"join", "cancel"} => process \in Workers
  BY DEF Inv, Types, NoWorker, PlaceInv, Commanding
<1>1. \A v \in Workers, code \in {0, 1} : ParentAlive(v) =>
         /\ Ended(v, code).late = worker[v].late
         /\ Ended(v, code).cancel = worker[v].cancel
         /\ Ended(v, code).commands = worker[v].commands
         /\ Ended(v, code).at = "dead"
  BY <1>0 DEF Ended, WorkerRecords
<1>2. \A v \in Workers, code \in {0, 1} : ~ParentAlive(v) => Ended(v, code) = NoWorker
  BY DEF Ended
<1>3. LateOf(NoWorker)
  BY <1>0 DEF LateOf
<1>4. Commanding => /\ worker[process].commands = <<>>
                    /\ worker[process].at \in {"recv", "dead"}
  BY DEF Inv, HearInv, PlaceInv
<1>5. ASSUME UNCHANGED <<process, worker, asked>>, 
             Commanding' => pc' = "command" \/ (Commanding /\ pc # "command")
      PROVE  CancelInv'
  BY <1>5 DEF CancelInv
<1>6. CASE ReapNothing \/ Mark \/ Recover \/ BeginSnapshot \/ EndSnapshot \/ EnsureIdle
  BY <1>5, <1>6 DEF ReapNothing, Mark, Recover, BeginSnapshot, EndSnapshot,
     EnsureIdle, Commanding, Refuse, Inv, PlaceInv, history
<1>7. CASE ManagerSaves
  BY <1>5, <1>7 DEF ManagerSaves, Commanding, Inv, PlaceInv, history
<1>8. CASE Index
  BY <1>5, <1>8 DEF Index, Commanding, Refuse, Inv, PlaceInv, history
<1>9. CASE Stop \/ Create \/ Describe \/ Point
  BY <1>5, <1>9 DEF Stop, Create, Describe, Point, Commanding, Answer, Stopped,
     Inv, PlaceInv, history
<1>10. CASE Decide
  BY <1>5, <1>10 DEF Decide, Commanding, Answer, Inv, PlaceInv, history
<1>11. CASE Launch \/ BeginCancel
  BY <1>5, <1>11 DEF Launch, BeginCancel, Commanding, Refuse, Inv, PlaceInv,
     history
<1>12. CASE Poll \/ StartService \/ SpawnFails \/ ManagerSaveFails \/ WeightsChange
  BY <1>5, <1>12 DEF Poll, StartService, SpawnFails, ManagerSaveFails,
     WeightsChange, Commanding, Answer, Raised, Inv, PlaceInv, service, history,
     Mishap
<1>13. CASE \E request \in Requests : Call(request)
  BY <1>5, <1>13 DEF Call, Commanding, Inv, PlaceInv
<1>14. CASE ReapDead
  BY <1>0, <1>1, <1>2, <1>3, <1>14, WebAssumption DEF ReapDead, CancelInv, LateOf,
     Commanding, WorkerRecords, NoWorker, history, WebAssumption, Inv, ProcessInv
<1>15. CASE Join
  BY <1>0, <1>1, <1>2, <1>3, <1>15, WebAssumption DEF Join, CancelInv, LateOf,
     Commanding, Stopped, WorkerRecords, NoWorker, history, WebAssumption, Inv,
     ProcessInv
<1>16. CASE Spawn
  BY <1>0, <1>1, <1>2, <1>3, <1>16, WebAssumption DEF Spawn, CancelInv, LateOf,
     Commanding, Answer, WorkerRecords, NoWorker, WebAssumption, Inv, ProcessInv
<1>17. CASE ServiceCrash
  BY <1>0, <1>1, <1>2, <1>3, <1>17, WebAssumption DEF ServiceCrash, CancelInv,
     LateOf, Commanding, WorkerRecords, NoWorker, Mishap, WebAssumption, Inv,
     ProcessInv
<1>18. CASE Command
  <2> DEFINE r == [worker[process] EXCEPT !.cancel = Cleared, !.late = 0]
  <2>1. /\ r.cancel = FALSE /\ r.late = 0
        /\ r.at = worker[process].at /\ r.then = worker[process].then
        /\ r.commands = worker[process].commands
    BY <1>0, <1>18 DEF Command, Cleared, WorkerRecords
  <2>2. worker' = [worker EXCEPT ![process] = r] /\ process' = process
    BY <1>18 DEF Command
  <2>3. LateOf(r)
    BY <1>0, <1>18, <2>1 DEF Command, CancelInv, LateOf
  <2> HIDE DEF r
  <2> QED
    BY <1>0, <1>18, <2>1, <2>2, <2>3 DEF Command, CancelInv, Commanding
<1>19. CASE SetCancel
  <2> DEFINE r == [worker[process] EXCEPT !.cancel = TRUE]
  <2>1. /\ r.cancel = TRUE /\ r.late = worker[process].late
        /\ r.at = worker[process].at /\ r.then = worker[process].then
        /\ r.commands = worker[process].commands
    BY <1>0, <1>19 DEF SetCancel, Cleared, WorkerRecords
  <2>2. worker' = [worker EXCEPT ![process] = r] /\ process' = process
    BY <1>19 DEF SetCancel
  <2>3. LateOf(r)
    BY <1>0, <1>19, <2>1 DEF SetCancel, CancelInv, LateOf
  <2> HIDE DEF r
  <2> QED
    BY <1>0, <1>19, <2>1, <2>2, <2>3 DEF SetCancel, CancelInv, Commanding, Answer
<1>20. CASE Send
  <2> DEFINE r == [worker[process] EXCEPT
                     !.commands = Append(worker[process].commands, call)]
  <2>1. /\ r.cancel = worker[process].cancel /\ r.late = worker[process].late
        /\ r.at = worker[process].at /\ r.then = worker[process].then
    BY <1>0, <1>20 DEF Send, WorkerRecords
  <2>2. /\ worker' = worker \/ worker' = [worker EXCEPT ![process] = r]
        /\ UNCHANGED <<process, asked>> /\ pc' \in {"reap", "idle"}
    BY <1>20 DEF Send, Answer, history
  <2>3. r.late = 0
    BY <1>20, <2>1 DEF Send, CancelInv, Commanding
  <2>4. LateOf(r)
    BY <2>3 DEF LateOf
  <2> HIDE DEF r
  <2> QED
    BY <1>0, <2>1, <2>2, <2>4 DEF CancelInv, Commanding
<1>21. ASSUME NEW w \in Workers,
             \/ WorkerSaveFails(w) \/ EngineFails(w) \/ WorkerKilled(w)
             \/ Terminated /\ w = process
      PROVE  CancelInv'
  <2> DEFINE f == [worker[w] EXCEPT !.at = "fail"]
  <2>1. /\ worker' = [worker EXCEPT ![w] = worker'[w]]
        /\ UNCHANGED <<pc, then, process, asked>>
        /\ worker'[w] \in {f, Ended(w, 1)}
    BY <1>0, <1>21 DEF WorkerSaveFails, EngineFails, WorkerKilled, Terminated,
       service, history
  <2>2. /\ f.cancel = worker[w].cancel /\ f.late = worker[w].late
        /\ f.commands = worker[w].commands /\ f.at = "fail"
    BY <1>0 DEF WorkerRecords
  <2>3. LateOf(worker[w])
    BY DEF CancelInv
  <2>4. LateOf(f) /\ LateOf(Ended(w, 1))
    BY <1>1, <1>2, <1>3, <2>2, <2>3 DEF LateOf
  <2>5. process = w => /\ worker'[w].cancel = worker[w].cancel
                       /\ worker'[w].late = worker[w].late
    BY <1>1, <2>1, <2>2
  <2> HIDE DEF f
  <2> QED
    BY <1>0, <2>1, <2>4, <2>5 DEF CancelInv, Commanding
<1> QED
  BY <1>0, <1>6, <1>7, <1>8, <1>9, <1>10, <1>11, <1>12, <1>13, <1>14, <1>15,
     <1>16, <1>17, <1>18, <1>19, <1>20, <1>21 DEF ManagerStep, Terminated

\* What is known of the event holds of every reachable state.
LEMMA CancelEvent == Spec => []CancelInv
<1>1. WebAssumption
  BY WebAssumption
<1>2. Init => CancelInv
  BY DEF Init, CancelInv, LateOf, Commanding, NoWorker
<1>3. Inv /\ CancelInv /\ [Next]_vars => CancelInv'
  <2> SUFFICES ASSUME Inv, CancelInv, [Next]_vars PROVE CancelInv'
    OBVIOUS
  <2>1. CASE \E w \in Workers : WorkerStep(w)
    BY <1>1, <2>1, WorkerKeepsCancel
  <2>2. CASE
           \/ ManagerStep \/ Poll \/ StartService \/ ServiceCrash \/ SpawnFails
           \/ ManagerSaveFails \/ WeightsChange
           \/ \E request \in Requests : Call(request)
           \/ \E w \in Workers :
                WorkerSaveFails(w) \/ EngineFails(w) \/ WorkerKilled(w)
    BY <1>1, <2>2, OthersKeepCancel
  <2>3. CASE UNCHANGED vars
    BY <2>3 DEF vars, service, history, CancelInv, LateOf, Commanding
  <2> QED
    BY <2>1, <2>2, <2>3 DEF Next
<1> QED
  BY <1>2, <1>3, Safe, PTL DEF Spec

\* After a cancel at most one row is committed (cancel, run_samples).
THEOREM CancelCorrect == Spec => []CancelHonoured
<1>1. CancelInv => CancelHonoured
  BY DEF CancelInv, LateOf, CancelHonoured
<1> QED
  BY <1>1, CancelEvent, PTL

Meant(w) ==
    worker'[w].doc.status = "cancelled" /\ worker[w].doc.status # "cancelled" => asked

\* A run is cancelled only when a cancel was accepted in it (start clears the
\* event).
THEOREM MeantCorrect == Spec => CancelMeant
<1>1. WebAssumption
  BY WebAssumption
<1>2. Inv /\ CancelInv /\ [Next]_vars => [\A w \in Workers : Meant(w)]_vars
  <2> SUFFICES ASSUME Inv, CancelInv, Next, NEW v \in Workers PROVE Meant(v)
    OBVIOUS
  <2>1. CASE
           \/ ManagerStep \/ Poll \/ StartService \/ ServiceCrash \/ SpawnFails
           \/ ManagerSaveFails \/ WeightsChange
           \/ \E request \in Requests : Call(request)
           \/ \E w \in Workers :
                WorkerSaveFails(w) \/ EngineFails(w) \/ WorkerKilled(w)
    <3>1. worker'[v].doc \in {worker[v].doc, Fresh}
      BY <1>1, <2>1, OthersToWorker
    <3> QED
      BY <3>1 DEF Meant, Fresh
  <2>2. ASSUME NEW w \in Workers, WorkerStep(w)
        PROVE  Meant(v)
    <3> DEFINE me == worker[w]
    <3>1. /\ worker \in [Workers -> WorkerRecords] /\ me \in WorkerRecords
          /\ NoWorker.doc = Fresh
          /\ \A u \in Workers \ {w} : worker'[u] = worker[u]
      BY <2>2 DEF Inv, Types, NoWorker, WorkerStep, WorkerArms, WorkerBegins,
         WorkerValidates, WorkerLoads, WorkerCompiles, WorkerRuns, WorkerChecks,
         WorkerInfers, WorkerCommits, WorkerReceives, WorkerSaves, WorkerFails,
         WorkerExits
    <3>2. me.cancel /\ me.at # "boot" => asked
      BY <1>1, <2>2, <3>1 DEF Inv, ProcessInv, CancelInv, WebAssumption,
         WorkerStep, WorkerArms, WorkerBegins, WorkerValidates, WorkerLoads,
         WorkerCompiles, WorkerRuns, WorkerChecks, WorkerInfers, WorkerCommits,
         WorkerReceives, WorkerSaves, WorkerFails, WorkerExits
    <3>3. CASE WorkerArms(w)
      BY <3>1, <3>2, <3>3 DEF WorkerArms, Meant, Ended, WorkerRecords, Documents,
         Fresh
    <3>4. CASE WorkerBegins(w)
      BY <3>1, <3>2, <3>4 DEF WorkerBegins, Meant, Update, WorkerRecords,
         Documents, Fresh
    <3>5. CASE WorkerValidates(w)
      BY <3>1, <3>2, <3>5 DEF WorkerValidates, Meant, Update, WorkerRecords,
         Documents, Fresh
    <3>6. CASE WorkerLoads(w)
      BY <3>1, <3>2, <3>6 DEF WorkerLoads, Meant, Update, WorkerRecords,
         Documents, Fresh
    <3>7. CASE WorkerCompiles(w)
      BY <3>1, <3>2, <3>7 DEF WorkerCompiles, Meant, Update, WorkerRecords,
         Documents, Fresh
    <3>8. CASE WorkerRuns(w)
      BY <3>1, <3>2, <3>8 DEF WorkerRuns, Meant, Update, WorkerRecords, Documents,
         Fresh
    <3>9. CASE WorkerChecks(w)
      BY <3>1, <3>2, <3>9 DEF WorkerChecks, Meant, Update, WorkerRecords,
         Documents, Fresh, Final, Stopping
    <3>10. CASE WorkerInfers(w)
      BY <3>1, <3>2, <3>10 DEF WorkerInfers, Meant, WorkerRecords, Documents,
         Fresh
    <3>11. CASE WorkerCommits(w)
      BY <3>1, <3>2, <3>11 DEF WorkerCommits, Meant, Update, WorkerRecords,
         Documents, Fresh
    <3>12. CASE WorkerReceives(w)
      BY <3>1, <3>2, <3>12 DEF WorkerReceives, Meant, WorkerRecords, Documents,
         Fresh
    <3>13. CASE WorkerSaves(w)
      BY <3>1, <3>2, <3>13 DEF WorkerSaves, Meant, WorkerRecords, Documents, Fresh
    <3>14. CASE WorkerFails(w)
      BY <3>1, <3>2, <3>14 DEF WorkerFails, Meant, Update, WorkerRecords,
         Documents, Fresh
    <3>15. CASE WorkerExits(w)
      BY <3>1, <3>2, <3>15 DEF WorkerExits, Meant, Ended, WorkerRecords,
         Documents, Fresh
    <3> QED
      BY <2>2, <3>3, <3>4, <3>5, <3>6, <3>7, <3>8, <3>9, <3>10, <3>11, <3>12,
         <3>13, <3>14, <3>15 DEF WorkerStep
  <2> QED
    BY <2>1, <2>2 DEF Next
<1>3. Spec => []CancelInv
  BY <1>1, CancelEvent
<1> QED
  BY <1>2, <1>3, Safe, PTL DEF Spec, CancelMeant, Meant

-----------------------------------------------------------------------------
\* Weights, when they do not change while a worker loads them.

\* What update() leaves of a worker.
LEMMA UpdateFields ==
    ASSUME NEW q \in WorkerRecords, NEW status, NEW next
    PROVE  LET r == Update(q, status, next) IN
              /\ r.task = q.task /\ r.model = q.model
              /\ r.at = "saving" /\ r.then = next
  BY DEF Update, WorkerRecords, Documents

\* A worker infers with the weights of the import, and commits what it inferred.
LEMMA WorkerKeepsModel ==
    ASSUME Inv, RowInv, ModelInv, OneModel, WebAssumption, NEW w \in Workers,
           WorkerStep(w)
    PROVE  ModelInv' /\ OneModel'
<1> DEFINE me == worker[w]
<1>0. /\ worker \in [Workers -> WorkerRecords] /\ me \in WorkerRecords
      /\ me.at # "unused" /\ me.task \in Tasks /\ results \in [Tasks -> Seq(Nat)]
      /\ \A v \in Workers \ {w} : worker'[v] = worker[v]
      /\ UNCHANGED <<pc, call, draft, config, weights>>
      /\ NoWorker.at = "unused" /\ ModelOf(me) /\ RowOf(me)
  <2>1. /\ worker \in [Workers -> WorkerRecords] /\ me \in WorkerRecords
        /\ me.at # "unused" /\ results \in [Tasks -> Seq(Nat)]
    BY DEF Inv, Types, WorkerStep, WorkerArms, WorkerBegins, WorkerValidates,
       WorkerLoads, WorkerCompiles, WorkerRuns, WorkerChecks, WorkerInfers,
       WorkerCommits, WorkerReceives, WorkerSaves, WorkerFails, WorkerExits
  <2>2. me.task \in Tasks /\ RowOf(me) /\ ModelOf(me) /\ NoWorker.at = "unused"
    BY <2>1 DEF Inv, ProcessInv, RowInv, ModelInv, NoWorker
  <2>3. /\ \A v \in Workers \ {w} : worker'[v] = worker[v]
        /\ UNCHANGED <<pc, call, draft, config, weights>>
    BY <2>1 DEF service, files, WorkerStep, WorkerArms, WorkerBegins,
       WorkerValidates, WorkerLoads, WorkerCompiles, WorkerRuns, WorkerChecks,
       WorkerInfers, WorkerCommits, WorkerReceives, WorkerSaves, WorkerFails,
       WorkerExits
  <2> QED
    BY <2>1, <2>2, <2>3
<1>1. ASSUME ModelOf(worker[w])'
      PROVE  ModelInv'
  BY <1>0, <1>1 DEF ModelInv, ModelOf
<1>2. ASSUME results' = results
      PROVE  OneModel'
  BY <1>0, <1>2 DEF OneModel
<1>3. CASE WorkerArms(w)
  <2>1. ModelOf(worker[w])'
    BY <1>0, <1>3 DEF WorkerArms, Update, Ended, ModelOf, WorkerRecords, Documents
  <2> QED
    BY <1>1, <1>2, <1>3, <2>1 DEF WorkerArms, files
<1>4. CASE WorkerBegins(w)
  <2>1. ModelOf(worker[w])'
    BY <1>0, <1>4 DEF WorkerBegins, Update, ModelOf, WorkerRecords, Documents
  <2> QED
    BY <1>1, <1>2, <1>4, <2>1 DEF WorkerBegins, files
<1>5. CASE WorkerValidates(w)
  <2>1. ModelOf(worker[w])'
    BY <1>0, <1>5 DEF WorkerValidates, Update, ModelOf, WorkerRecords, Documents,
       Validated
  <2> QED
    BY <1>1, <1>2, <1>5, <2>1 DEF WorkerValidates, files
<1>6. CASE WorkerLoads(w)
  <2>1. ModelOf(worker[w])'
    BY <1>0, <1>6 DEF WorkerLoads, Update, ModelOf, WorkerRecords, Documents
  <2> QED
    BY <1>1, <1>2, <1>6, <2>1 DEF WorkerLoads, files
<1>7. CASE WorkerCompiles(w)
  <2> DEFINE q == [me EXCEPT !.doc.compiled = TRUE]
  <2>1. q \in WorkerRecords
    BY <1>0 DEF WorkerRecords, Documents
  <2>2. /\ q.model = me.model /\ q.task = me.task
    BY <1>0 DEF WorkerRecords
  <2>3. /\ me.at = "compile" /\ results' = results
        /\ \E status, next : worker'[w] = Update(q, status, next)
    BY <1>0, <1>7 DEF WorkerCompiles, files
  <2> HIDE DEF q
  <2>4. ModelOf(worker[w])'
    <3>1. /\ worker'[w].task = me.task /\ worker'[w].model = me.model
          /\ worker'[w].at = "saving"
      BY <2>1, <2>2, <2>3, UpdateFields
    <3>2. worker'[w].then # "load"
      BY <1>7, <1>0, <2>1, UpdateFields DEF WorkerCompiles, q
    <3> QED
      BY <1>0, <2>3, <3>1, <3>2 DEF ModelOf
  <2> QED
    BY <1>1, <1>2, <2>3, <2>4
<1>8. CASE WorkerRuns(w)
  <2> DEFINE q == [me EXCEPT !.rows = Restored(w), !.target = Target(w)]
  <2>1. q \in WorkerRecords
    <3>1. Restored(w) \in Seq(Nat) /\ Target(w) \in Nat
      <4>1. Restored(w) \in Seq(Nat)
        BY <1>0 DEF Restored
      <4>2. Len(Restored(w)) \in Nat /\ Total \in Nat
        BY <4>1, WebAssumption DEF WebAssumption
      <4> QED
        BY <4>1, <4>2 DEF Target
    <3> QED
      BY <1>0, <3>1 DEF WorkerRecords
  <2>2. /\ q.model = me.model /\ q.task = me.task
    BY <1>0 DEF WorkerRecords
  <2>3. /\ me.at = "run" /\ results' = results
        /\ \E status, next : worker'[w] = Update(q, status, next)
    BY <1>0, <1>8 DEF WorkerRuns, files
  <2> HIDE DEF q
  <2>4. ModelOf(worker[w])'
    <3>1. /\ worker'[w].task = me.task /\ worker'[w].model = me.model
          /\ worker'[w].at = "saving"
      BY <2>1, <2>2, <2>3, UpdateFields
    <3>2. worker'[w].then # "load"
      BY <1>8, <1>0, <2>1, UpdateFields DEF WorkerRuns, q
    <3> QED
      BY <1>0, <2>3, <3>1, <3>2 DEF ModelOf
  <2> QED
    BY <1>1, <1>2, <2>3, <2>4
<1>9. CASE WorkerChecks(w)
  <2>1. /\ me.at = "check" /\ results' = results
        /\ \/ \E status : worker'[w] = Update(me, status, "recv")
           \/ worker'[w] = [me EXCEPT !.at = "infer"]
    BY <1>0, <1>9 DEF WorkerChecks, files
  <2>2. /\ worker'[w].task = me.task /\ worker'[w].model = me.model
        /\ \/ worker'[w].at = "saving" /\ worker'[w].then = "recv"
           \/ worker'[w].at = "infer"
    BY <1>0, <2>1, UpdateFields DEF WorkerRecords
  <2>3. ModelOf(worker[w])'
    BY <1>0, <2>1, <2>2 DEF ModelOf
  <2> QED
    BY <1>1, <1>2, <2>1, <2>3
<1>10. CASE WorkerInfers(w)
  <2>1. ModelOf(worker[w])'
    BY <1>0, <1>10 DEF WorkerInfers, Update, ModelOf, WorkerRecords, Documents
  <2> QED
    BY <1>1, <1>2, <1>10, <2>1 DEF WorkerInfers, files
<1>11. CASE WorkerReceives(w)
  <2>1. ModelOf(worker[w])'
    BY <1>0, <1>11 DEF WorkerReceives, Update, ModelOf, WorkerRecords, Documents,
       Validated
  <2> QED
    BY <1>1, <1>2, <1>11, <2>1 DEF WorkerReceives, files
<1>12. CASE WorkerFails(w)
  <2>1. ModelOf(worker[w])'
    BY <1>0, <1>12 DEF WorkerFails, Update, ModelOf, WorkerRecords, Documents
  <2> QED
    BY <1>1, <1>2, <1>12, <2>1 DEF WorkerFails, files
<1>13. CASE WorkerExits(w)
  <2>1. ModelOf(worker[w])'
    BY <1>0, <1>13 DEF WorkerExits, Update, Ended, ModelOf, WorkerRecords,
       Documents
  <2> QED
    BY <1>1, <1>2, <1>13, <2>1 DEF WorkerExits, files
<1>14. CASE WorkerSaves(w)
  <2>1. /\ me.at = "saving" /\ worker'[w] = [me EXCEPT !.at = me.then]
        /\ results' = results
    BY <1>0, <1>14 DEF WorkerSaves
  <2>2. me.then \in {"validate", "load", "compile", "run", "recv", "check", "exit"}
    BY <1>0, <2>1 DEF Inv, ProcessInv
  <2>3. ModelOf(worker[w])'
    BY <1>0, <2>1, <2>2 DEF ModelOf, WorkerRecords
  <2> QED
    BY <1>1, <1>2, <2>1, <2>3
<1>15. CASE WorkerCommits(w)
  <2> DEFINE t == me.task
  <2>1. /\ me.at = "committing" /\ me.model = config[t] /\ me.model \in Nat
        /\ me.rows = Append(results[t], me.model)
    <3>1. me.at = "committing"
      BY <1>15 DEF WorkerCommits
    <3>2. me.model \in Nat
      BY <1>0 DEF WorkerRecords
    <3> QED
      BY <1>0, <3>1, <3>2 DEF ModelOf, RowOf
  <2>2. results' = [results EXCEPT ![t] = me.rows]
    BY <1>15 DEF WorkerCommits
  <2>3. \A i \in 1 .. Len(me.rows) : me.rows[i] = config[t]
    <3>1. results[t] \in Seq(Nat)
      BY <1>0
    <3>2. /\ Len(me.rows) = Len(results[t]) + 1 /\ Len(results[t]) \in Nat
          /\ me.rows[Len(results[t]) + 1] = me.model
          /\ \A i \in 1 .. Len(results[t]) : me.rows[i] = results[t][i]
      BY <2>1, <3>1
    <3>3. \A i \in 1 .. Len(results[t]) : results[t][i] = config[t]
      BY <1>0 DEF OneModel
    <3>4. ASSUME NEW i \in 1 .. Len(me.rows)
          PROVE  i = Len(results[t]) + 1 \/ i \in 1 .. Len(results[t])
      BY <3>2
    <3> QED
      BY <2>1, <3>2, <3>3, <3>4
  <2>4. OneModel'
    BY <1>0, <2>2, <2>3 DEF OneModel
  <2>5. /\ worker'[w].model = me.model /\ worker'[w].task = t
        /\ worker'[w].at = "saving" /\ worker'[w].then = "check"
    <3> DEFINE n == me.late + Late(w)
    <3> DEFINE q == [me EXCEPT !.late = n]
    <3>1. n \in Nat
      BY <1>0 DEF WorkerRecords, Late
    <3>2. q \in WorkerRecords /\ q.model = me.model /\ q.task = t
      <4> HIDE DEF n
      <4> QED
        BY <1>0, <3>1 DEF WorkerRecords
    <3>3. worker'[w] = Update(q, "running", "check")
      BY <1>0, <1>15 DEF WorkerCommits
    <3> HIDE DEF q
    <3> QED
      BY <3>2, <3>3 DEF Update, WorkerRecords, Documents
  <2>6. ModelOf(worker[w])'
    BY <1>0, <2>1, <2>5 DEF ModelOf
  <2> QED
    BY <1>1, <2>4, <2>6
<1> QED
  BY <1>3, <1>4, <1>5, <1>6, <1>7, <1>8, <1>9, <1>10, <1>11, <1>12, <1>13, <1>14,
     <1>15 DEF WorkerStep

\* No other step changes the weights of a task, and an import that makes one
\* makes it without rows.
LEMMA OthersKeepModel ==
    ASSUME Inv, RowInv, CompletedWhole, ModelInv, OneModel, WebAssumption, ~ChangeAnytime,
           \/ ManagerStep \/ Poll \/ StartService \/ ServiceCrash \/ SpawnFails
           \/ ManagerSaveFails \/ WeightsChange
           \/ \E request \in Requests : Call(request)
           \/ \E w \in Workers :
                WorkerSaveFails(w) \/ EngineFails(w) \/ WorkerKilled(w)
    PROVE  ModelInv' /\ OneModel'
<1>1. \A v \in Workers :
         \/ worker'[v].at \in Rowless
         \/ /\ worker'[v].at = worker[v].at /\ worker'[v].then = worker[v].then
            /\ worker'[v].task = worker[v].task /\ worker'[v].model = worker[v].model
  BY OthersToWorker
<1>2. results' = results
  BY OthersKeepRows
<1>3. ASSUME UNCHANGED <<config, weights>>
      PROVE  OneModel' /\ \A v \in Workers : ModelOf(worker[v])'
  BY <1>1, <1>2, <1>3 DEF OneModel, ModelInv, ModelOf, Rowless
<1>4. CASE ReapDead \/ ReapNothing
  <2>1. UNCHANGED <<config, weights>>
    BY <1>4 DEF ReapDead, ReapNothing, files
  <2>2. pc' = "create" \/ (pc' \in {"stop", "join"} /\ call' = "import") =>
          config'[draft'.task] = None
    BY <2>1, <1>4 DEF ReapDead, ReapNothing, ModelInv, Inv, PlaceInv, Types,
       Actions, Commands, files
  <2> QED
    BY <1>3, <2>1, <2>2 DEF ModelInv
<1>5. CASE Mark \/ Recover \/ BeginSnapshot \/ EndSnapshot \/ EnsureIdle
  <2>1. UNCHANGED <<config, weights>>
    BY <1>5 DEF Mark, Recover, BeginSnapshot, EndSnapshot, EnsureIdle, Refuse,
       files
  <2>2. pc' = "create" \/ (pc' \in {"stop", "join"} /\ call' = "import") =>
          config'[draft'.task] = None
    BY <2>1, <1>5 DEF Mark, Recover, BeginSnapshot, EndSnapshot, EnsureIdle,
       ModelInv, Inv, PlaceInv, Types, Refuse, Actions, Commands, files
  <2> QED
    BY <1>3, <2>1, <2>2 DEF ModelInv
<1>6. CASE ManagerSaves
  <2>1. UNCHANGED <<config, weights>>
    BY <1>6 DEF ManagerSaves
  <2>2. pc' = "create" \/ (pc' \in {"stop", "join"} /\ call' = "import") =>
          config'[draft'.task] = None
    BY <2>1, <1>6 DEF ManagerSaves, ModelInv, Inv, PlaceInv, Types, Actions,
       Commands
  <2> QED
    BY <1>3, <2>1, <2>2 DEF ModelInv
<1>7. CASE Index
  <2>1. UNCHANGED <<config, weights>>
    BY <1>7 DEF Index, Refuse, files
  <2>2. pc' = "create" \/ (pc' \in {"stop", "join"} /\ call' = "import") =>
          config'[draft'.task] = None
    BY <2>1, <1>7 DEF Index, ModelInv, Inv, PlaceInv, Types, Refuse, Actions,
       Commands, files
  <2> QED
    BY <1>3, <2>1, <2>2 DEF ModelInv
<1>8. CASE Stop
  <2>1. UNCHANGED <<config, weights>>
    BY <1>8 DEF Stop, files
  <2>2. pc' = "create" \/ (pc' \in {"stop", "join"} /\ call' = "import") =>
          config'[draft'.task] = None
    BY <2>1, <1>8 DEF Stop, ModelInv, Inv, PlaceInv, Types, Stopped, Actions,
       Commands, files
  <2> QED
    BY <1>3, <2>1, <2>2 DEF ModelInv
<1>9. CASE Terminated \/ Join
  <2>1. UNCHANGED <<config, weights>>
    BY <1>9 DEF Terminated, Join, files
  <2>2. pc' = "create" \/ (pc' \in {"stop", "join"} /\ call' = "import") =>
          config'[draft'.task] = None
    BY <2>1, <1>9 DEF Terminated, Join, ModelInv, Inv, PlaceInv, Types, Stopped,
       Actions, Commands, service, files
  <2> QED
    BY <1>3, <2>1, <2>2 DEF ModelInv
<1>10. CASE Describe \/ Point
  <2>1. UNCHANGED <<config, weights>>
    BY <1>10 DEF Describe, Point
  <2>2. pc' = "create" \/ (pc' \in {"stop", "join"} /\ call' = "import") =>
          config'[draft'.task] = None
    BY <2>1, <1>10 DEF Describe, Point, ModelInv, Inv, PlaceInv, Types, Answer,
       Actions, Commands
  <2> QED
    BY <1>3, <2>1, <2>2 DEF ModelInv
<1>11. CASE Decide
  <2>1. UNCHANGED <<config, weights>>
    BY <1>11 DEF Decide, files
  <2>2. pc' = "create" \/ (pc' \in {"stop", "join"} /\ call' = "import") =>
          config'[draft'.task] = None
    BY <2>1, <1>11 DEF Decide, ModelInv, Inv, PlaceInv, Types, Answer, Actions,
       Commands, files
  <2> QED
    BY <1>3, <2>1, <2>2 DEF ModelInv
<1>12. CASE Launch \/ Spawn \/ Command
  <2>1. UNCHANGED <<config, weights>>
    BY <1>12 DEF Launch, Spawn, Command, files
  <2>2. pc' = "create" \/ (pc' \in {"stop", "join"} /\ call' = "import") =>
          config'[draft'.task] = None
    BY <2>1, <1>12 DEF Launch, Spawn, Command, ModelInv, Inv, PlaceInv, Types,
       Answer, Actions, Commands, files
  <2> QED
    BY <1>3, <2>1, <2>2 DEF ModelInv
<1>13. CASE Send \/ BeginCancel \/ SetCancel
  <2>1. UNCHANGED <<config, weights>>
    BY <1>13 DEF Send, BeginCancel, SetCancel, Refuse, files
  <2>2. pc' = "create" \/ (pc' \in {"stop", "join"} /\ call' = "import") =>
          config'[draft'.task] = None
    BY <2>1, <1>13 DEF Send, BeginCancel, SetCancel, ModelInv, Inv, PlaceInv,
       Types, Refuse, Answer, Actions, Commands, files
  <2> QED
    BY <1>3, <2>1, <2>2 DEF ModelInv
<1>14. CASE Poll \/ StartService \/ ServiceCrash \/ SpawnFails \/ ManagerSaveFails
  <2>1. UNCHANGED <<config, weights>>
    BY <1>14 DEF Poll, StartService, ServiceCrash, SpawnFails, ManagerSaveFails,
       files
  <2>2. pc' = "create" \/ (pc' \in {"stop", "join"} /\ call' = "import") =>
          config'[draft'.task] = None
    BY <2>1, <1>14 DEF Poll, StartService, ServiceCrash, SpawnFails,
       ManagerSaveFails, ModelInv, Inv, PlaceInv, Types, Answer, Raised, Actions,
       Commands, files
  <2> QED
    BY <1>3, <2>1, <2>2 DEF ModelInv
<1>15. CASE \E request \in Requests : Call(request)
  <2>1. UNCHANGED <<config, weights>>
    BY <1>15 DEF Call, files
  <2>2. pc' = "create" \/ (pc' \in {"stop", "join"} /\ call' = "import") =>
          config'[draft'.task] = None
    BY <2>1, <1>15 DEF Call, ModelInv, Inv, PlaceInv, Types, Actions, Commands,
       files
  <2> QED
    BY <1>3, <2>1, <2>2 DEF ModelInv
<1>16. CASE \E w \in Workers : WorkerSaveFails(w) \/ EngineFails(w) \/ WorkerKilled(w)
  <2>1. UNCHANGED <<config, weights>>
    BY <1>16 DEF WorkerSaveFails, EngineFails, WorkerKilled, files
  <2>2. pc' = "create" \/ (pc' \in {"stop", "join"} /\ call' = "import") =>
          config'[draft'.task] = None
    BY <2>1, <1>16 DEF WorkerSaveFails, EngineFails, WorkerKilled, ModelInv, Inv,
       PlaceInv, Types, Actions, Commands, service, files
  <2> QED
    BY <1>3, <2>1, <2>2 DEF ModelInv
<1>17. CASE WeightsChange
  <2>1. \A v \in Workers : ~Loading(v)
    BY <1>17 DEF WeightsChange
  <2>2. UNCHANGED <<config, results, worker, pc, call, draft>>
    BY <1>17 DEF WeightsChange, service
  <2>3. \A v \in Workers : ModelOf(worker[v])'
    BY <2>1, <2>2 DEF Loading, ModelInv, ModelOf
  <2> QED
    BY <2>2, <2>3 DEF ModelInv, OneModel
<1>18. CASE Create
  <2> DEFINE t == draft.task
  <2>1. /\ config[t] = None /\ t \in Tasks /\ pc' = "describe"
        /\ config' = [config EXCEPT ![t] = draft.weights]
        /\ UNCHANGED <<weights, worker, results>>
    BY <1>18 DEF Create, ModelInv, Inv, FileInv
  <2>2. results[t] = <<>>
    <3>1. results[t] \in Seq(Nat) /\ None \notin Nat
      BY <2>1, WebAssumption DEF Inv, Types, WebAssumption
    <3>2. \A i \in 1 .. Len(results[t]) : results[t][i] = None
      BY <2>1 DEF OneModel
    <3>3. \A i \in 1 .. Len(results[t]) : results[t][i] \in Nat
      BY <3>1
    <3>4. Len(results[t]) \in Nat /\ 1 \notin 1 .. Len(results[t])
      BY <3>1, <3>2, <3>3
    <3>5. Len(results[t]) = 0
      BY <3>4
    <3> QED
      BY <3>1, <3>5, EmptySeq
  <2>3. OneModel'
    BY <2>1, <2>2 DEF OneModel, Inv, Types
  <2>4. \A v \in Workers : ModelOf(worker[v])'
    <3> SUFFICES ASSUME NEW v \in Workers PROVE ModelOf(worker[v])'
      OBVIOUS
    <3>1. CASE worker[v].at = "unused"
      BY <2>1, <3>1 DEF ModelOf
    <3>2. CASE worker[v].at # "unused"
      <4>1. worker[v].task # t /\ worker[v].task \in Tasks
        BY <2>1, <3>2 DEF Inv, ProcessInv
      <4>2. config'[worker[v].task] = config[worker[v].task]
        BY <2>1, <4>1 DEF Inv, Types
      <4> QED
        BY <2>1, <4>2 DEF ModelInv, ModelOf
    <3> QED
      BY <3>1, <3>2
  <2> QED
    BY <2>1, <2>3, <2>4 DEF ModelInv
<1> QED
  BY <1>4, <1>5, <1>6, <1>7, <1>8, <1>9, <1>10, <1>11, <1>12, <1>13, <1>14, <1>15,
     <1>16, <1>17, <1>18 DEF ManagerStep

\* If the weights never change while a worker loads them, all rows of a task
\* come from the weights it was imported with (validate_config, DvsEngine).
THEOREM ModelCorrect ==
    ASSUME ~ChangeAnytime
    PROVE  Spec => []OneModel
<1>1. WebAssumption
  BY WebAssumption
<1>2. Init => RowInv /\ ModelInv /\ OneModel
  <2> SUFFICES ASSUME Init PROVE RowInv /\ ModelInv /\ OneModel
    OBVIOUS
  <2>1. RowInv
    BY <1>1 DEF Init, WebAssumption, RowInv, RowOf, DocInv, NoWorker
  <2>2. ModelInv
    BY DEF Init, ModelInv, ModelOf, NoWorker
  <2>3. OneModel
    BY DEF Init, OneModel
  <2> QED
    BY <2>1, <2>2, <2>3
<1>3. Inv /\ RowInv /\ CompletedWhole /\ ModelInv /\ OneModel /\ [Next]_vars
        => RowInv' /\ ModelInv' /\ OneModel'
  <2> SUFFICES ASSUME Inv, RowInv, CompletedWhole, ModelInv, OneModel, [Next]_vars
               PROVE  RowInv' /\ ModelInv' /\ OneModel'
    OBVIOUS
  <2>0. RowInv'
    BY <1>1, NextKeepsRows
  <2>1. CASE \E w \in Workers : WorkerStep(w)
    BY <1>1, <2>0, <2>1, WorkerKeepsModel
  <2>2. CASE
           \/ ManagerStep \/ Poll \/ StartService \/ ServiceCrash \/ SpawnFails
           \/ ManagerSaveFails \/ WeightsChange
           \/ \E request \in Requests : Call(request)
           \/ \E w \in Workers :
                WorkerSaveFails(w) \/ EngineFails(w) \/ WorkerKilled(w)
    BY <1>1, <2>0, <2>2, OthersKeepModel
  <2>3. CASE UNCHANGED vars
    BY <2>0, <2>3 DEF vars, service, files, ModelInv, ModelOf, OneModel
  <2> QED
    BY <2>1, <2>2, <2>3 DEF Next
<1> QED
  BY <1>2, <1>3, Safe, CompletedCorrect, PTL DEF Spec

-----------------------------------------------------------------------------
\* The end of a worker, when no save fails.

\* An active task without a process: the manager is about to see to it.
DeathInv ==
    /\ process = None /\ Busy =>
         \/ pc \in {"down", "mark", "marking", "recover", "spawn"}
         \/ pc = "saving" /\ then # "send"
    /\ pc = "point" => state[draft.task] = Fresh

\* A task at rest without a process is not active, when no save fails (_reap,
\* start).
THEOREM DeathCorrect ==
    ASSUME ~DiskMayFail
    PROVE  Spec => []DeathNoticed
<1>1. WebAssumption
  BY WebAssumption
<1>2. Init => DeathInv
  BY DEF Init, DeathInv
<1>3. Inv /\ DeathInv /\ [Next]_vars => DeathInv'
  <2> SUFFICES ASSUME Inv, DeathInv, [Next]_vars PROVE DeathInv'
    OBVIOUS
  <2>1. CASE \E w \in Workers : WorkerStep(w)
    <3>1. PICK w \in Workers : WorkerStep(w)
      BY <2>1
    <3>2. UNCHANGED <<pc, then, process, current, draft>>
      BY <3>1 DEF service, WorkerStep, WorkerArms, WorkerBegins, WorkerValidates,
         WorkerLoads, WorkerCompiles, WorkerRuns, WorkerChecks, WorkerInfers,
         WorkerCommits, WorkerReceives, WorkerSaves, WorkerFails, WorkerExits
    <3>3. process = None \/ pc = "point" => state' = state
      BY <1>1, <3>1 DEF Inv, ProcessInv, PlaceInv, WebAssumption, files,
         WorkerStep, WorkerArms, WorkerBegins, WorkerValidates, WorkerLoads,
         WorkerCompiles, WorkerRuns, WorkerChecks, WorkerInfers, WorkerCommits,
         WorkerReceives, WorkerSaves, WorkerFails, WorkerExits
    <3> QED
      BY <3>2, <3>3 DEF DeathInv
  <2>2. CASE ReapDead \/ ReapNothing
    BY <1>1, <2>2 DEF ReapDead, ReapNothing, DeathInv, Inv, Types, PlaceInv,
       FileInv, QuietInv, Commanding, Documents, ACTIVE, Fresh, files,
       WebAssumption
  <2>3. CASE Mark \/ Recover
    BY <1>1, <2>3 DEF Mark, Recover, DeathInv, Inv, Types, PlaceInv, FileInv,
       QuietInv, Commanding, Documents, ACTIVE, Fresh, files, WebAssumption
  <2>4. CASE ManagerSaves
    BY <1>1, <2>4 DEF ManagerSaves, DeathInv, Inv, Types, PlaceInv, FileInv,
       QuietInv, Commanding, Documents, ACTIVE, Fresh, WebAssumption
  <2>5. CASE BeginSnapshot \/ EndSnapshot
    BY <1>1, <2>5 DEF BeginSnapshot, EndSnapshot, DeathInv, Inv, Types, PlaceInv,
       FileInv, QuietInv, Commanding, Documents, ACTIVE, Fresh, files,
       WebAssumption
  <2>6. CASE EnsureIdle
    BY <1>1, <2>6 DEF EnsureIdle, DeathInv, Inv, Types, PlaceInv, FileInv,
       QuietInv, Refuse, Commanding, Documents, ACTIVE, Fresh, files,
       WebAssumption
  <2>7. CASE Index
    BY <1>1, <2>7 DEF Index, DeathInv, Inv, Types, PlaceInv, FileInv, QuietInv,
       Refuse, Commanding, Documents, ACTIVE, Fresh, files, WebAssumption
  <2>8. CASE Stop \/ Terminated
    BY <1>1, <2>8 DEF Stop, Terminated, DeathInv, Inv, Types, PlaceInv, FileInv,
       QuietInv, Stopped, Commanding, Documents, ACTIVE, Fresh, files, service,
       WebAssumption
  <2>9. CASE Join
    BY <1>1, <2>9 DEF Join, DeathInv, Inv, Types, PlaceInv, FileInv, QuietInv,
       Stopped, Commanding, Documents, ACTIVE, Fresh, files, WebAssumption
  <2>10. CASE Create
    BY <1>1, <2>10 DEF Create, DeathInv, Inv, Types, PlaceInv, FileInv, QuietInv,
       Commanding, Documents, ACTIVE, Fresh, WebAssumption
  <2>11. CASE Describe
    <3>1. Inv'
      BY <1>1, Inductive
    <3>2. pc' = "point" /\ state'[draft'.task] = Fresh
      BY <2>11 DEF Describe, Inv, Types, FileInv
    <3>3. ~Busy'
      BY <3>1, <3>2 DEF Inv, QuietInv
    <3> QED
      BY <3>2, <3>3 DEF DeathInv
  <2>12. CASE Point
    BY <1>1, <2>12 DEF Point, DeathInv, Inv, Types, PlaceInv, FileInv, QuietInv,
       Answer, Commanding, Documents, ACTIVE, Fresh, WebAssumption
  <2>13. CASE Decide
    BY <1>1, <2>13 DEF Decide, DeathInv, Inv, Types, PlaceInv, FileInv, QuietInv,
       Answer, Commanding, Documents, ACTIVE, Fresh, files, WebAssumption
  <2>14. CASE Launch
    BY <1>1, <2>14 DEF Launch, DeathInv, Inv, Types, PlaceInv, FileInv, QuietInv,
       Commanding, Documents, ACTIVE, Fresh, files, WebAssumption
  <2>15. CASE Spawn
    BY <1>1, <2>15 DEF Spawn, DeathInv, Inv, Types, PlaceInv, FileInv, QuietInv,
       Answer, Commanding, Documents, ACTIVE, Fresh, files, WebAssumption
  <2>16. CASE Command
    BY <1>1, <2>16 DEF Command, DeathInv, Inv, Types, PlaceInv, FileInv, QuietInv,
       Commanding, Documents, ACTIVE, Fresh, files, WebAssumption
  <2>17. CASE Send
    BY <1>1, <2>17 DEF Send, DeathInv, Inv, Types, PlaceInv, FileInv, QuietInv,
       Answer, Commanding, Documents, ACTIVE, Fresh, files, WebAssumption
  <2>18. CASE BeginCancel \/ SetCancel
    BY <1>1, <2>18 DEF BeginCancel, SetCancel, DeathInv, Inv, Types, PlaceInv,
       FileInv, QuietInv, Refuse, Answer, Commanding, Documents, ACTIVE, Fresh,
       files, WebAssumption
  <2>19. CASE Poll \/ StartService
    BY <1>1, <2>19 DEF Poll, StartService, DeathInv, Inv, Types, PlaceInv,
       FileInv, QuietInv, Answer, Commanding, Documents, ACTIVE, Fresh, files,
       WebAssumption
  <2>20. CASE ServiceCrash
    BY <1>1, <2>20 DEF ServiceCrash, DeathInv, Inv, Types, PlaceInv, FileInv,
       QuietInv, Commanding, Documents, ACTIVE, Fresh, files, WebAssumption
  <2>21. CASE SpawnFails
    BY <1>1, <2>21 DEF SpawnFails, DeathInv, Inv, Types, PlaceInv, FileInv,
       QuietInv, Commanding, Documents, ACTIVE, Fresh, files, WebAssumption
  <2>22. CASE ManagerSaveFails \/ WeightsChange
    BY <1>1, <2>22 DEF ManagerSaveFails, WeightsChange, DeathInv, Inv, Types,
       PlaceInv, FileInv, QuietInv, Commanding, Documents, ACTIVE, Fresh, files,
       service, WebAssumption
  <2>23. CASE \E request \in Requests : Call(request)
    BY <1>1, <2>23 DEF Call, DeathInv, Inv, Types, PlaceInv, FileInv, QuietInv,
       Commanding, Documents, ACTIVE, Fresh, files, WebAssumption
  <2>24. CASE \E w \in Workers : WorkerSaveFails(w) \/ EngineFails(w) \/ WorkerKilled(w)
    BY <1>1, <2>24 DEF WorkerSaveFails, EngineFails, WorkerKilled, DeathInv, Inv,
       Types, PlaceInv, FileInv, QuietInv, Commanding, Documents, ACTIVE, Fresh,
       files, service, WebAssumption
  <2>25. CASE UNCHANGED vars
    BY <1>1, <2>25 DEF vars, DeathInv, Inv, Types, PlaceInv, FileInv, QuietInv,
       Commanding, Documents, ACTIVE, Fresh, files, service, WebAssumption
  <2> QED
    BY <2>1, <2>2, <2>3, <2>4, <2>5, <2>6, <2>7, <2>8, <2>9, <2>10, <2>11, <2>12,
       <2>13, <2>14, <2>15, <2>16, <2>17, <2>18, <2>19, <2>20, <2>21, <2>22,
       <2>23, <2>24, <2>25 DEF Next, ManagerStep
<1>4. DeathInv => DeathNoticed
  BY DEF DeathInv, DeathNoticed
<1> QED
  BY <1>2, <1>3, <1>4, Safe, PTL DEF Spec
=============================================================================
