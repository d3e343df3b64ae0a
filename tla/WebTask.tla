------------------------------ MODULE WebTask ------------------------------
(***************************************************************************)
(* The web workbench, python/cim22/web: one service process with its task  *)
(* manager (manager.py), the compute processes it spawns (worker.py), and  *)
(* the task files both write (storage.py).                                 *)
(*                                                                         *)
(* The methods of the manager hold one lock, so at most one is in progress *)
(* and one program counter stands for all request threads; they interleave *)
(* with the worker and with crashes at every access to a file or process.  *)
(* A process that ends loses its memory and leaves its files.              *)
(***************************************************************************)
EXTENDS Integers, Sequences

CONSTANTS
    Tasks,           \* task directories that may be made (a bound)
    Workers,         \* compute processes that may exist at a time (a bound)
    None,            \* no task, no process, no file
    Total,           \* samples of a test set
    DiskMayFail,     \* whether a save may raise OSError
    ChangeAnytime,   \* whether the weights may change while a worker loads
    MaxCalls,        \* bound: requests other than snapshots
    MaxMishaps       \* bound: failures of the environment

VARIABLES
    \* Files: current.json, and config.json, state.json and results.csv of
    \* each task directory; and the weights, which are not the service's.
    pointer, config, state, results, weights,
    \* The service: place, where to go after a recovery, the request, the
    \* document and the draft it works on, current and process of the manager,
    \* and what the snapshot in progress or the last one read.
    pc, then, call, doc, draft, current, process, seen, shown,
    \* The compute processes.
    worker,
    \* History: a cancel was accepted in this run; requests and failures.
    asked, calls, mishaps

files == <<pointer, config, state, results, weights>>
service == <<pc, then, call, doc, draft, current, process, seen, shown>>
history == <<asked, calls, mishaps>>
vars == <<files, service, worker, history>>

ACTIVE == {"starting", "validating", "loading", "compiling", "running"}
Statuses == ACTIVE \cup {"imported", "ready", "cancelled", "completed",
                         "interrupted"}
\* What of state.json matters: the rest of the document is derived or shown.
Documents == [status : Statuses, compiled : BOOLEAN]

ASSUME WebAssumption ==
    /\ None \notin Tasks \cup Workers \cup Nat \cup Documents
    /\ Total \in Nat \ {0}
    /\ DiskMayFail \in BOOLEAN
    /\ ChangeAnytime \in BOOLEAN
    /\ MaxCalls \in Nat
    /\ MaxMishaps \in Nat

Commands == {"single", "full"}
Actions == {"compile"} \cup Commands
Requests == {"import", "cancel", "close"} \cup Actions

Fresh == [status |-> "imported", compiled |-> FALSE]
NoWorker ==
    [at |-> "unused", then |-> "unused", task |-> None, action |-> "compile",
     doc |-> Fresh, rows |-> <<>>, target |-> 0, model |-> 0,
     cancel |-> FALSE, commands |-> <<>>, late |-> 0, code |-> 0]

Init ==
    /\ pointer = None
    /\ config = [t \in Tasks |-> None]
    /\ state = [t \in Tasks |-> None]
    /\ results = [t \in Tasks |-> <<>>]
    /\ weights = 0
    /\ pc = "down" /\ then = "idle" /\ call = "init"
    /\ doc = Fresh /\ draft = [task |-> None, weights |-> 0]
    /\ current = None /\ process = None
    /\ seen = "imported" /\ shown = None
    /\ worker = [w \in Workers |-> NoWorker]
    /\ asked = FALSE /\ calls = 0 /\ mishaps = 0

Mishap ==
    /\ mishaps < MaxMishaps
    /\ mishaps' = mishaps + 1

Alive(w) == worker[w].at \notin {"unused", "dead"}
\* Past the parent check: the kernel kills it when its parent dies.
Armed(w) == Alive(w) /\ worker[w].at # "boot"
\* The service that spawned it lives and has not joined it.
ParentAlive(w) == process = w

-----------------------------------------------------------------------------
\* The worker.

\* A process that ends waits for its parent to reap it; an orphan goes at once.
Ended(w, code) ==
    IF ParentAlive(w) THEN [worker[w] EXCEPT !.at = "dead", !.code = code]
                      ELSE NoWorker

\* Mutant: the parent check is gone.
WorkerArms_Unchecked(w) ==
    /\ worker[w].at = "boot"
    /\ worker' = [worker EXCEPT ![w].at = "begin"]
    /\ UNCHANGED <<files, service, history>>
\* prctl and the check that the parent did not die before it.
WorkerArms(w) ==
    /\ worker[w].at = "boot"
    /\ worker' = [worker EXCEPT ![w] =
                    IF ParentAlive(w) THEN [@ EXCEPT !.at = "begin"]
                                      ELSE Ended(w, 0)]
    /\ UNCHANGED <<files, service, history>>

\* update(): the worker saves its own copy of the document, then goes on.
Update(me, status, next) ==
    [me EXCEPT !.doc.status = status, !.at = "saving", !.then = next]

\* os.replace in save_json.
WorkerSaves(w) ==
    /\ worker[w].at = "saving"
    /\ state' = [state EXCEPT ![worker[w].task] = worker[w].doc]
    /\ worker' = [worker EXCEPT ![w] = [@ EXCEPT !.at = worker[w].then]]
    /\ UNCHANGED <<pointer, config, results, weights, service, history>>

\* A save that raises ends in the handler, or ends the process from there.
WorkerSaveFails(w) ==
    /\ worker[w].at \in {"saving", "committing"}
    /\ DiskMayFail /\ Mishap
    /\ worker' = [worker EXCEPT ![w] =
                    IF worker[w].then = "exit" THEN Ended(w, 1)
                                               ELSE [@ EXCEPT !.at = "fail"]]
    /\ UNCHANGED <<files, service, asked, calls>>

WorkerBegins(w) ==
    /\ worker[w].at = "begin"
    /\ worker' = [worker EXCEPT ![w] =
                    Update([@ EXCEPT !.doc = state[worker[w].task]],
                           "validating", "validate")]
    /\ UNCHANGED <<files, service, history>>

\* Mutant: inputs that changed are accepted.
Validated_Always(w) == TRUE
\* validate_config: the inputs are the ones that were imported.
Validated(w) == weights = config[worker[w].task]

WorkerValidates(w) ==
    /\ worker[w].at = "validate"
    /\ worker' = [worker EXCEPT ![w] =
                    IF Validated(w) THEN Update(@, "loading", "load")
                                    ELSE [@ EXCEPT !.at = "fail"]]
    /\ UNCHANGED <<files, service, history>>

\* DvsEngine() reads the weights file again; then compile() reports its phase.
WorkerLoads(w) ==
    /\ worker[w].at = "load"
    /\ worker' = [worker EXCEPT ![w] =
                    Update([@ EXCEPT !.model = weights], "compiling", "compile")]
    /\ UNCHANGED <<files, service, history>>

WorkerCompiles(w) ==
    /\ worker[w].at = "compile"
    /\ LET me == worker[w]
           run == me.action # "compile"
           status == IF run THEN "running"
                     ELSE IF me.cancel THEN "cancelled" ELSE "ready"
       IN worker' = [worker EXCEPT ![w] =
                       Update([@ EXCEPT !.doc.compiled = TRUE], status,
                              IF run THEN "run" ELSE "recv")]
    /\ UNCHANGED <<files, service, history>>

\* Loading, compiling or inference raises.
EngineFails(w) ==
    /\ worker[w].at \in {"load", "compile", "infer"}
    /\ Mishap
    /\ worker' = [worker EXCEPT ![w] = [@ EXCEPT !.at = "fail"]]
    /\ UNCHANGED <<files, service, asked, calls>>

\* Mutant: the worker goes on with the rows it has in mind, none at first.
Restored_Blank(w) == worker[w].rows
\* read_rows at the start of run_samples.
Restored(w) == results[worker[w].task]

\* stop in run_samples: one more sample, or all.
Target(w) ==
    IF worker[w].action = "single" /\ Len(Restored(w)) < Total
    THEN Len(Restored(w)) + 1 ELSE Total

WorkerRuns(w) ==
    /\ worker[w].at = "run"
    /\ worker' = [worker EXCEPT ![w] =
                    Update([@ EXCEPT !.rows = Restored(w), !.target = Target(w)],
                           "running", "check")]
    /\ UNCHANGED <<files, service, history>>

\* Mutant: the loop of samples does not look at the cancel event.
Stopping_Never(w) == FALSE
\* The test of the cancel event between two samples.
Stopping(w) == worker[w].cancel

\* Mutant: a run that reaches its target is taken for the whole test.
Final_AtTarget(w) == "completed"
\* The status after the last sample of a run.
Final(w) ==
    IF Len(worker[w].rows) = Total THEN "completed"
    ELSE IF worker[w].cancel THEN "cancelled" ELSE "ready"

WorkerChecks(w) ==
    /\ worker[w].at = "check"
    /\ worker' = [worker EXCEPT ![w] =
                    IF Len(@.rows) >= @.target THEN Update(@, Final(w), "recv")
                    ELSE IF Stopping(w) THEN Update(@, "cancelled", "recv")
                    ELSE [@ EXCEPT !.at = "infer"]]
    /\ UNCHANGED <<files, service, history>>

WorkerInfers(w) ==
    /\ worker[w].at = "infer"
    /\ worker' = [worker EXCEPT ![w] =
                    [@ EXCEPT !.at = "committing", !.then = "check",
                              !.rows = Append(worker[w].rows, worker[w].model)]]
    /\ UNCHANGED <<files, service, history>>

Late(w) == IF worker[w].cancel THEN 1 ELSE 0

\* save_rows writes all the rows the worker holds, then the progress.
WorkerCommits(w) ==
    /\ worker[w].at = "committing"
    /\ results' = [results EXCEPT ![worker[w].task] = worker[w].rows]
    /\ worker' = [worker EXCEPT ![w] =
                    Update([@ EXCEPT !.late = worker[w].late + Late(w)],
                           "running", "check")]
    /\ UNCHANGED <<pointer, config, state, weights, service, history>>

WorkerReceives(w) ==
    /\ worker[w].at = "recv" /\ worker[w].commands # <<>>
    /\ worker' = [worker EXCEPT ![w] =
                    [@ EXCEPT !.at = IF Validated(w) THEN "run" ELSE "fail",
                              !.action = Head(worker[w].commands),
                              !.commands = Tail(worker[w].commands)]]
    /\ UNCHANGED <<files, service, history>>

\* The handler of worker_main.
WorkerFails(w) ==
    /\ worker[w].at = "fail"
    /\ worker' = [worker EXCEPT ![w] =
                    Update([@ EXCEPT !.doc.compiled = FALSE],
                           "interrupted", "exit")]
    /\ UNCHANGED <<files, service, history>>

WorkerExits(w) ==
    /\ worker[w].at = "exit"
    /\ worker' = [worker EXCEPT ![w] = Ended(w, 0)]
    /\ UNCHANGED <<files, service, history>>

WorkerStep(w) ==
    \/ WorkerArms(w) \/ WorkerBegins(w) \/ WorkerValidates(w) \/ WorkerLoads(w)
    \/ WorkerCompiles(w) \/ WorkerRuns(w) \/ WorkerChecks(w) \/ WorkerInfers(w)
    \/ WorkerCommits(w) \/ WorkerReceives(w) \/ WorkerSaves(w)
    \/ WorkerFails(w) \/ WorkerExits(w)

-----------------------------------------------------------------------------
\* The manager: steps of a method between entry and return.

\* The end of most methods: self.snapshot().
Answer == call' = "snapshot" /\ pc' = "reap"

\* A method that raises; without a manager the process ends.
Raised == IF call \in {"init", "close"} THEN "down" ELSE "idle"

\* Mutant: a process that died is forgotten, its status stays.
ReapDead_Silent ==
    /\ pc = "reap" /\ process # None /\ worker[process].at = "dead"
    /\ process' = None
    /\ worker' = [worker EXCEPT ![process] = NoWorker]
    /\ pc' = "dispatch"
    /\ UNCHANGED <<files, then, call, doc, draft, current, seen, shown, history>>
\* _reap finds that the process ended.
ReapDead ==
    /\ pc = "reap" /\ process # None /\ worker[process].at = "dead"
    /\ process' = None
    /\ worker' = [worker EXCEPT ![process] = NoWorker]
    /\ pc' = IF worker[process].code = 0 THEN "recover" ELSE "mark"
    /\ then' = "dispatch"
    /\ UNCHANGED <<files, call, doc, draft, current, seen, shown, history>>

ReapNothing ==
    /\ pc = "reap"
    /\ process # None => worker[process].at # "dead"
    /\ pc' = "dispatch"
    /\ UNCHANGED <<files, then, call, doc, draft, current, process, seen, shown,
                   worker, history>>

\* The first save of _reap, for a process that ended abnormally.
Mark ==
    /\ pc = "mark"
    /\ doc' = [state[current] EXCEPT !.status = "interrupted"]
    /\ pc' = "marking"
    /\ UNCHANGED <<files, then, call, draft, current, process, seen, shown,
                   worker, history>>

Recover ==
    /\ pc = "recover"
    /\ IF current = None
       THEN pc' = then /\ UNCHANGED doc
       ELSE /\ pc' = "saving"
            /\ doc' = [status |-> IF state[current].status \in ACTIVE
                                  THEN "interrupted" ELSE state[current].status,
                       compiled |-> FALSE]
    /\ UNCHANGED <<files, then, call, draft, current, process, seen, shown,
                   worker, history>>

\* os.replace of a save of the current state.json.
ManagerSaves ==
    /\ pc \in {"marking", "saving"}
    /\ state' = [state EXCEPT ![current] = doc]
    /\ pc' = IF pc = "marking" THEN "recover" ELSE then
    /\ UNCHANGED <<pointer, config, results, weights, then, call, doc, draft,
                   current, process, seen, shown, worker, history>>

ManagerSaveFails ==
    /\ pc \in {"marking", "saving", "create", "describe", "point"}
    /\ DiskMayFail /\ Mishap
    /\ pc' = Raised
    /\ UNCHANGED <<files, then, call, doc, draft, current, process, seen, shown,
                   worker, asked, calls>>

\* snapshot() reads the state first and the rows after it.
BeginSnapshot ==
    /\ pc = "dispatch" /\ call = "snapshot"
    /\ IF current = None THEN pc' = "idle" /\ UNCHANGED seen
                         ELSE pc' = "count" /\ seen' = state[current].status
    /\ UNCHANGED <<files, then, call, doc, draft, current, process, shown,
                   worker, history>>

EndSnapshot ==
    /\ pc = "count"
    /\ shown' = [status |-> seen, completed |-> Len(results[current])]
    /\ pc' = "idle"
    /\ UNCHANGED <<files, then, call, doc, draft, current, process, seen, worker,
                   history>>

Refuse ==
    /\ pc' = "idle"
    /\ UNCHANGED <<files, then, call, doc, draft, current, process, seen, shown,
                   worker, history>>

\* Mutant: a task that is active does not stand in the way.
Busy_Never == FALSE
Busy == current # None /\ state[current].status \in ACTIVE

\* _ensure_idle and the guards that follow it.
EnsureIdle ==
    /\ pc = "dispatch" /\ call \in {"import"} \cup Actions
    /\ IF Busy \/ (call # "import" /\ current = None)
       THEN Refuse
       ELSE /\ pc' = IF call = "import" THEN "index" ELSE "decide"
            /\ UNCHANGED <<files, then, call, doc, draft, current, process, seen,
                           shown, worker, history>>

\* make_config; the directory gets a new name.
Index ==
    /\ pc = "index"
    /\ \/ Refuse
       \/ \E t \in Tasks :
            /\ config[t] = None
            /\ draft' = [task |-> t, weights |-> weights]
            /\ pc' = "stop"
            /\ UNCHANGED <<files, then, call, doc, current, process, seen, shown,
                           worker, history>>

\* Where _stop returns to.
Stopped == CASE call = "import" -> "create"
             [] call = "close" -> "recover"
             [] OTHER -> "launch"

Stop ==
    /\ pc = "stop"
    /\ pc' = IF process = None THEN Stopped ELSE "join"
    /\ UNCHANGED <<files, then, call, doc, draft, current, process, seen, shown,
                   worker, history>>

\* SIGTERM takes effect, or the join times out and SIGKILL does.
Terminated ==
    /\ pc = "join" /\ Alive(process)
    /\ worker' = [worker EXCEPT ![process] = Ended(process, 1)]
    /\ UNCHANGED <<files, service, history>>

\* Mutant: _stop signals the process and does not wait for its end.
Join_NoWait ==
    /\ pc = "join"
    /\ process' = None
    /\ pc' = Stopped
    /\ UNCHANGED <<files, then, call, doc, draft, current, seen, shown, worker,
                   history>>
Join ==
    /\ pc = "join" /\ worker[process].at = "dead"
    /\ process' = None
    /\ worker' = [worker EXCEPT ![process] = NoWorker]
    /\ pc' = Stopped
    /\ UNCHANGED <<files, then, call, doc, draft, current, seen, shown, history>>

\* Mutant: current.json names the task before its directory is complete.
Create_PointsFirst ==
    /\ pc = "create"
    /\ config' = [config EXCEPT ![draft.task] = draft.weights]
    /\ pointer' = draft.task
    /\ pc' = "describe"
    /\ UNCHANGED <<state, results, weights, then, call, doc, draft, current,
                   process, seen, shown, worker, history>>
\* The three saves of import_model.
Create ==
    /\ pc = "create"
    /\ config' = [config EXCEPT ![draft.task] = draft.weights]
    /\ pc' = "describe"
    /\ UNCHANGED <<pointer, state, results, weights, then, call, doc, draft,
                   current, process, seen, shown, worker, history>>

Describe ==
    /\ pc = "describe"
    /\ state' = [state EXCEPT ![draft.task] = Fresh]
    /\ pc' = "point"
    /\ UNCHANGED <<pointer, config, results, weights, then, call, doc, draft,
                   current, process, seen, shown, worker, history>>

Point ==
    /\ pc = "point"
    /\ pointer' = draft.task /\ current' = draft.task
    /\ Answer
    /\ UNCHANGED <<config, state, results, weights, then, doc, draft, process,
                   seen, shown, worker, history>>

\* Mutant: a worker whose status says interrupted is given another command.
MustStop_Never == FALSE
\* A worker that published its error may still be about to exit.
MustStop == process # None /\ ~state[current].compiled

\* start() reads the task again and chooses what to do.
Decide ==
    /\ pc = "decide"
    /\ doc' = state[current]
    /\ CASE call # "compile" /\ Len(results[current]) = Total ->
              pc' = "idle" /\ UNCHANGED call
         [] MustStop /\ (call = "compile" \/ Len(results[current]) # Total) ->
              pc' = "stop" /\ UNCHANGED call
         [] call = "compile" /\ process # None /\ ~MustStop -> Answer
         [] OTHER -> /\ pc' = IF process = None THEN "launch" ELSE "command"
                     /\ UNCHANGED call
    /\ UNCHANGED <<files, then, draft, current, process, seen, shown, worker,
                   history>>

Launch ==
    /\ pc = "launch"
    /\ doc' = [status |-> "starting", compiled |-> FALSE]
    /\ pc' = "saving" /\ then' = "spawn"
    /\ UNCHANGED <<files, call, draft, current, process, seen, shown, worker,
                   history>>

Spawn ==
    /\ pc = "spawn"
    /\ \E w \in Workers :
         /\ worker[w].at = "unused"
         /\ worker' = [worker EXCEPT ![w] =
                         [@ EXCEPT !.at = "boot", !.task = current,
                                   !.action = call]]
         /\ process' = w
    /\ asked' = FALSE
    /\ Answer
    /\ UNCHANGED <<files, then, doc, draft, current, seen, shown, calls, mishaps>>

\* Mutant: the status stays at starting when there is no process.
SpawnFails_Unrecovered ==
    /\ pc = "spawn" /\ Mishap
    /\ pc' = "idle"
    /\ UNCHANGED <<files, then, call, doc, draft, current, process, seen, shown,
                   worker, asked, calls>>
SpawnFails ==
    /\ pc = "spawn" /\ Mishap
    /\ pc' = "recover" /\ then' = "idle"
    /\ UNCHANGED <<files, call, doc, draft, current, process, seen, shown, worker,
                   asked, calls>>

\* Mutant: the event of an earlier cancel stays set.
Cleared_Never == worker[process].cancel
\* cancel_event.clear().
Cleared == FALSE

Command ==
    /\ pc = "command"
    /\ worker' = [worker EXCEPT ![process] =
                    [@ EXCEPT !.cancel = Cleared, !.late = 0]]
    /\ asked' = FALSE
    /\ doc' = [doc EXCEPT !.status = "running"]
    /\ pc' = "saving" /\ then' = "send"
    /\ UNCHANGED <<files, call, draft, current, process, seen, shown, calls,
                   mishaps>>

\* commands.send raises when the worker is gone.
Send ==
    /\ pc = "send"
    /\ IF Alive(process)
       THEN /\ worker' = [worker EXCEPT ![process] =
                         [@ EXCEPT !.commands =
                                     Append(worker[process].commands, call)]]
            /\ Answer
       ELSE pc' = "idle" /\ UNCHANGED <<call, worker>>
    /\ UNCHANGED <<files, then, doc, draft, current, process, seen, shown, history>>

BeginCancel ==
    /\ pc = "dispatch" /\ call = "cancel"
    /\ IF process = None \/ ~Busy
       THEN Refuse
       ELSE /\ pc' = "cancel"
            /\ UNCHANGED <<files, then, call, doc, draft, current, process, seen,
                           shown, worker, history>>

SetCancel ==
    /\ pc = "cancel"
    /\ worker' = [worker EXCEPT ![process] = [@ EXCEPT !.cancel = TRUE]]
    /\ asked' = TRUE
    /\ Answer
    /\ UNCHANGED <<files, then, doc, draft, current, process, seen, shown, calls,
                   mishaps>>

ManagerStep ==
    \/ ReapDead \/ ReapNothing \/ Mark \/ Recover \/ ManagerSaves
    \/ BeginSnapshot \/ EndSnapshot \/ EnsureIdle \/ Index
    \/ Stop \/ Terminated \/ Join \/ Create \/ Describe \/ Point
    \/ Decide \/ Launch \/ Spawn \/ Command \/ Send \/ BeginCancel \/ SetCancel

-----------------------------------------------------------------------------
\* Requests, crashes and the rest of the environment.

Poll ==
    /\ pc = "idle"
    /\ Answer
    /\ UNCHANGED <<files, then, doc, draft, current, process, seen, shown, worker,
                   history>>

\* close() is the end of the service: _stop, _recover, and the lock goes.
Call(request) ==
    /\ pc = "idle" /\ calls < MaxCalls
    /\ request = "import" => \E t \in Tasks : config[t] = None
    /\ calls' = calls + 1
    /\ call' = request
    /\ pc' = IF request = "close" THEN "stop" ELSE "reap"
    /\ then' = IF request = "close" THEN "down" ELSE then
    /\ UNCHANGED <<files, doc, draft, current, process, seen, shown, worker,
                   asked, mishaps>>

\* TaskManager(); the lock file keeps a second service out.
StartService ==
    /\ pc = "down"
    /\ call' = "init" /\ current' = pointer
    /\ pc' = IF pointer = None THEN "idle" ELSE "recover"
    /\ then' = "idle"
    /\ UNCHANGED <<files, doc, draft, process, seen, shown, worker, history>>

\* The kernel kills the workers that asked for it with their parent; one that
\* has not come to prctl lives on.
ServiceCrash ==
    /\ pc # "down" /\ Mishap
    /\ pc' = "down" /\ process' = None
    /\ worker' = [w \in Workers |->
                    IF worker[w].at = "boot" THEN worker[w] ELSE NoWorker]
    /\ UNCHANGED <<files, then, call, doc, draft, current, seen, shown, asked,
                   calls>>

WorkerKilled(w) ==
    /\ Alive(w) /\ Mishap
    /\ worker' = [worker EXCEPT ![w] = Ended(w, 1)]
    /\ UNCHANGED <<files, service, asked, calls>>

Loading(w) == \/ worker[w].at = "load"
              \/ worker[w].at = "saving" /\ worker[w].then = "load"

WeightsChange ==
    /\ ChangeAnytime \/ \A w \in Workers : ~Loading(w)
    /\ Mishap
    /\ weights' = weights + 1
    /\ UNCHANGED <<pointer, config, state, results, service, worker, asked, calls>>

Next ==
    \/ ManagerStep \/ Poll \/ StartService \/ ServiceCrash
    \/ SpawnFails \/ ManagerSaveFails \/ WeightsChange
    \/ \E request \in Requests : Call(request)
    \/ \E w \in Workers :
         WorkerStep(w) \/ WorkerSaveFails(w) \/ EngineFails(w) \/ WorkerKilled(w)

Spec == Init /\ [][Next]_vars

\* The threads and processes run, and a page that is open polls.
Fairness ==
    /\ WF_vars(ManagerStep)
    /\ WF_vars(Poll)
    /\ \A w \in Workers : WF_vars(WorkerStep(w))

LiveSpec == Spec /\ Fairness

-----------------------------------------------------------------------------
\* Properties.

Places == {"unused", "boot", "begin", "validate", "load", "compile", "run",
           "check", "infer", "committing", "recv", "saving", "fail", "exit",
           "dead"}
Steps == {"down", "idle", "reap", "mark", "marking", "recover", "saving",
          "dispatch", "count", "index", "stop", "join", "create", "describe",
          "point", "decide", "launch", "spawn", "command", "send", "cancel"}

WorkerRecords ==
    [at : Places, then : Places, task : Tasks \cup {None}, action : Actions,
     doc : Documents, rows : Seq(Nat), target : Nat, model : Nat,
     cancel : BOOLEAN, commands : Seq(Commands), late : Nat, code : {0, 1}]

\* Types; and the pipe of a worker holds one command at most.
TypeOK ==
    /\ pointer \in Tasks \cup {None}
    /\ config \in [Tasks -> Nat \cup {None}]
    /\ state \in [Tasks -> Documents \cup {None}]
    /\ results \in [Tasks -> Seq(Nat)]
    /\ weights \in Nat
    /\ pc \in Steps /\ then \in Steps
    /\ call \in Requests \cup {"snapshot", "init"}
    /\ doc \in Documents
    /\ draft \in [task : Tasks \cup {None}, weights : Nat]
    /\ current \in Tasks \cup {None} /\ process \in Workers \cup {None}
    /\ seen \in Statuses
    /\ shown \in [status : Statuses, completed : Nat] \cup {None}
    /\ worker \in [Workers -> WorkerRecords]
    /\ \A w \in Workers : Len(worker[w].commands) <= 1
    /\ asked \in BOOLEAN /\ calls \in Nat /\ mishaps \in Nat

\* A service has at most one compute process, and neither its crash nor its
\* restart makes two (TaskManager, worker_main's parent check).
OneCompute ==
    \A v, w \in Workers : Armed(v) /\ Armed(w) => v = w

\* Two processes never save one state.json at a time: a save goes through a
\* temporary file of a fixed name, and each writer holds a copy of the whole
\* document (atomic_text, _recover, _stop).
OneWriter ==
    \A w \in Workers : worker[w].at = "saving" =>
        /\ ~(pc \in {"marking", "saving"} /\ current = worker[w].task)
        /\ \A v \in Workers \ {w} :
             ~(worker[v].at = "saving" /\ worker[v].task = worker[w].task)

\* A command goes to a worker that waits for one, or that died since: it is
\* not lost on a worker that fails, nor queued behind a run (start, worker_main).
CommandHeard ==
    pc \in {"command", "send"} \/ (pc = "saving" /\ then = "send")
      => /\ process # None
         /\ worker[process].at \in {"recv", "dead"}
         /\ worker[process].commands = <<>>

\* A crash at any point of an import leaves current.json at a whole task
\* (import_model, TaskManager()).
PointerValid ==
    pointer # None => config[pointer] # None /\ state[pointer] # None

\* Committed rows are never lost or changed, by no crash, resume or retry
\* (save_rows, run_samples).
RowsKept ==
    [][\A t \in Tasks :
         /\ Len(results[t]) <= Len(results'[t])
         /\ SubSeq(results'[t], 1, Len(results[t])) = results[t]]_vars

\* A task that says completed has a row for each sample, in the files and in
\* what a snapshot shows of two reads beside the worker (run_samples, snapshot).
CompletedWhole ==
    /\ \A t \in Tasks : state[t] # None /\ state[t].status = "completed" =>
         Len(results[t]) = Total
    /\ shown # None /\ shown.status = "completed" => shown.completed = Total

\* After a cancel was accepted at most the pair in progress is committed
\* (cancel, run_samples).
CancelHonoured == \A w \in Workers : worker[w].late <= 1

\* A run is cancelled only when a cancel was accepted in it: one that came too
\* late for the last run does not hit the next (start clears the event).
CancelMeant ==
    [][\A w \in Workers :
         worker'[w].doc.status = "cancelled" /\ worker[w].doc.status # "cancelled"
           => asked]_vars

\* All rows of a task come from the weights it was imported with
\* (validate_config, DvsEngine).
OneModel ==
    \A t \in Tasks : \A i \in 1 .. Len(results[t]) : results[t][i] = config[t]

\* A task at rest without a process does not say it is active: its end was
\* noticed, and the next request is not refused for it (_reap, start).
DeathNoticed ==
    pc = "idle" /\ process = None => ~Busy

\* A task that was interrupted and says it can be resumed has samples left.
InterruptedResumable ==
    pc = "idle" /\ current # None /\ state[current].status = "interrupted"
      => Len(results[current]) < Total

\* An active task ends, or the service does (worker_main, _reap).
TaskEnds ==
    \A t \in Tasks :
        (pc # "down" /\ current = t /\ Busy) ~> (pc = "down" \/ current # t \/ ~Busy)
=============================================================================
