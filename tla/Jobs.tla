-------------------------------- MODULE Jobs --------------------------------
(***************************************************************************)
(* Auto-label and training jobs: their rows, the processes that run them,  *)
(* and the one graphics card.  services/autolabel/jobs.py, training/       *)
(* {jobs,worker,gpu_lease}.py, gpu_worker.py, job_control.py,              *)
(* job_reaper.py, core/gpu_slot.py and the routes that start and cancel.   *)
(*                                                                         *)
(* An auto-label job is run by a task of the API process or, when the      *)
(* executor is the worker, by the GPU worker, with the same code.  The     *)
(* worker holds an advisory lock for its lifetime and also runs training.  *)
(* Auto-labelling holds the GPU slot, a second advisory lock, meanwhile.   *)
(*                                                                         *)
(* A handler that reads a row and commits later is two actions.  A _bump   *)
(* is one: it reads and overwrites whatever is there.  LoseConnections     *)
(* stands for the database ending every session; a short session that it   *)
(* catches between its two statements is left out.  So are parked cloud    *)
(* jobs, the VRAM watcher's pause and the frame limit of a request.        *)
(***************************************************************************)
EXTENDS Naturals, FiniteSets

CONSTANTS
  AutoLabel,         \* auto-label jobs, numbered in the order they are submitted
  Train,        \* training jobs, likewise
  Executor,     \* "api" or "worker": who runs auto-label jobs
  Worker,       \* GPU worker processes
  Frames,       \* frames of an auto-label job, epochs of a training job
  MaxAttempts,  \* crashes after which an auto-label job is given up
  Commits,      \* whether a frame's labels are committed at once: set of BOOLEANs
  Poison,       \* auto-label jobs whose first frame kills the process
  Cancels,      \* jobs that people may cancel
  MayFail,      \* whether a job may raise
  LongWaits,    \* whether a wait for the slot may outlast the staleness window
  OtherWork,    \* whether something else (a relabel sweep) takes the slot
  StopInClaim,  \* whether a stop may land on the claim's own await
  Nobody, Other,  \* no process; whatever else takes the GPU slot
  MaxCrashes, MaxStops, MaxLosses  \* how many process deaths, stops, lost connections

Job == AutoLabel \cup Train
Proc == Worker \cup AutoLabel      \* process j \in AutoLabel: the API's task for job j
NoJob == 0

ASSUME ShapeAssumption ==
  /\ AutoLabel \subseteq Nat \ {NoJob} /\ Train \subseteq Nat \ {NoJob}
  /\ AutoLabel \cap Train = {} /\ Worker \cap AutoLabel = {}
  /\ Nobody \notin Proc /\ Other \notin Proc \cup {Nobody}
  /\ Executor \in {"api", "worker"}
  /\ Frames \in Nat \ {0} /\ MaxAttempts \in Nat
  /\ Poison \subseteq AutoLabel /\ Cancels \subseteq Job /\ Commits \subseteq BOOLEAN
  /\ MaxCrashes \in Nat /\ MaxStops \in Nat /\ MaxLosses \in Nat

VARIABLES
  row,       \* row[j]: the job's row
  task,      \* task[p]: what process p runs of which job
  worker,    \* worker[w]: where the worker process is outside a job
  orphans,   \* orphans[w]: rows its recovery has read
  lock,      \* who holds the worker's lifetime lock
  slot,      \* who holds the GPU slot
  asking,    \* asking[j]: a cancel request that has read the row as ...
  reaping,   \* rows the reaper has read as stale
  labelled,  \* labelled[j]: frames whose labels are committed (a prefix)
  history    \* bounds, and what the properties remember

vars == <<row, task, worker, orphans, lock, slot, asking, reaping, labelled, history>>

Status == {"absent", "pending", "running", "done", "error", "canceled"}
Terminal == {"done", "error", "canceled"}
Why == {"", "gave up", "failed", "interrupted", "canceled"}
Stage == {"off", "claimed", "start", "ask", "wait", "label", "saved", "train",
          "score", "failing", "requeue", "ghost"}

NoTask == [at |-> "off", job |-> NoJob, next |-> 1, told |-> FALSE]

TypeOK ==
  /\ row \in [Job -> [status : Status, why : Why, attempts : Nat, resume : BOOLEAN,
                      asked : BOOLEAN, fresh : BOOLEAN]]
  /\ task \in [Proc -> [at : Stage, job : Job \cup {NoJob}, next : Nat, told : BOOLEAN]]
  /\ worker \in [Worker -> {"down", "boot", "reset", "up", "exiting"}]
  /\ orphans \in [Worker -> SUBSET AutoLabel]
  /\ lock \in Worker \cup {Nobody}
  /\ slot \in Proc \cup {Nobody, Other}
  /\ asking \in [Job -> {"no", "pending", "running"}]
  /\ reaping \subseteq AutoLabel
  /\ labelled \in [AutoLabel -> Nat]
  /\ history \in [crashes : Nat, stops : Nat, losses : Nat,
                  twice : SUBSET AutoLabel, slain : SUBSET AutoLabel]

Init ==
  /\ row = [j \in Job |-> [status |-> "absent", why |-> "", attempts |-> 0,
                           resume |-> FALSE, asked |-> FALSE, fresh |-> TRUE]]
  /\ task = [p \in Proc |-> NoTask]
  /\ worker = [w \in Worker |-> "down"]
  /\ orphans = [w \in Worker |-> {}]
  /\ lock = Nobody /\ slot = Nobody
  /\ asking = [j \in Job |-> "no"]
  /\ reaping = {}
  /\ labelled = [j \in AutoLabel |-> 0]
  /\ history = [crashes |-> 0, stops |-> 0, losses |-> 0,
                twice |-> {}, slain |-> {}]

-----------------------------------------------------------------------------
(* Helpers. *)

Oldest(S) == CHOOSE j \in S : \A k \in S : j <= k
With(status) == {j \in Job : row[j].status = status}
Works(p, j) == task[p].job = j /\ task[p].at \notin {"off", "ghost"}
Live(j) == \E p \in Proc : Works(p, j)

\* _bump: whatever the row says, these columns are overwritten; updated_at moves.
Bump(j, status, why) ==
  row' = [row EXCEPT ![j].status = status, ![j].why = why, ![j].fresh = TRUE]

At(p, stage) == task' = [task EXCEPT ![p].at = stage]
Leave(p) == task' = [task EXCEPT ![p] = NoTask]
Freed(p) == IF slot = p THEN Nobody ELSE slot

\* Who is on the card: what holds the slot and works, and training, which takes no slot.
OnCard == {p \in Proc : task[p].at \in {"label", "train", "score", "ghost"}}
          \cup (IF slot = Other THEN {Other} ELSE {})

-----------------------------------------------------------------------------
(* The API: starting, cancelling, sweeping. *)

\* A training row counts while its heartbeat is fresh.
TrainingHoldsGpu == \E j \in Train : row[j].status = "running" /\ row[j].fresh

\* In-process mode refuses while the card or another job is busy; a queue does not.
Start(j) ==
  /\ row[j].status = "absent"
  /\ \A k \in AutoLabel : k < j => row[k].status # "absent"
  /\ Executor = "api" => /\ ~TrainingHoldsGpu
                         /\ \A k \in AutoLabel : row[k].status # "running"
  /\ Bump(j, "pending", "")
  /\ IF Executor = "api"
     THEN task' = [task EXCEPT ![j] = [NoTask EXCEPT !.at = "start", !.job = j]]
     ELSE UNCHANGED task
  /\ UNCHANGED <<worker, orphans, lock, slot, asking, reaping, labelled, history>>

Enqueue(j) ==
  /\ row[j].status = "absent"
  /\ \A k \in Train : k < j => row[k].status # "absent"
  /\ Bump(j, "pending", "")
  /\ UNCHANGED <<task, worker, orphans, lock, slot, asking, reaping, labelled, history>>

\* Both cancel routes read the row first and act on what they read.
CancelRead(j) ==
  /\ j \in Cancels /\ asking[j] = "no"
  /\ row[j].status \in {"pending", "running"}
  /\ asking' = [asking EXCEPT ![j] = row[j].status]
  /\ UNCHANGED <<row, task, worker, orphans, lock, slot, reaping, labelled, history>>

\* A training job that was not pending is only asked to stop.
CancelWrite(j) ==
  /\ asking[j] # "no"
  /\ asking' = [asking EXCEPT ![j] = "no"]
  /\ IF j \in AutoLabel \/ asking[j] = "pending"
     THEN Bump(j, "canceled", IF j \in AutoLabel THEN "canceled" ELSE "")
     ELSE row' = [row EXCEPT ![j].asked = TRUE, ![j].fresh = TRUE]
  /\ UNCHANGED <<task, worker, orphans, lock, slot, reaping, labelled, history>>

\* Time passes and the row is not written: its process is gone, or waits for the slot.
\* Only the start of a job and the sweep read the age of a row, and only in-process mode has them.
Age(j) ==
  /\ Executor = "api"
  /\ row[j].status \in {"pending", "running"} /\ row[j].fresh
  /\ \A p \in Proc : Works(p, j) => LongWaits /\ task[p].at = "wait"
  /\ row' = [row EXCEPT ![j].fresh = FALSE]
  /\ UNCHANGED <<task, worker, orphans, lock, slot, asking, reaping, labelled, history>>

\* Mutant of Stale: rows that were written a moment ago are swept too.
StaleAny == {j \in AutoLabel : row[j].status \in {"pending", "running"}}
\* Mutant of Stale: a job that never started is not looked for.
StaleRunning == {j \in AutoLabel : row[j].status = "running" /\ ~row[j].fresh}
\* reap_stale_jobs, at start-up and on the daemon's cadence; auto-label rows are
\* swept only where the API runs them.
Stale == {j \in AutoLabel : row[j].status \in {"pending", "running"} /\ ~row[j].fresh}
ReapRead ==
  /\ Executor = "api" /\ reaping = {} /\ Stale # {}
  /\ reaping' = Stale
  /\ UNCHANGED <<row, task, worker, orphans, lock, slot, asking, labelled, history>>

ReapWrite ==
  /\ reaping # {}
  /\ row' = [j \in Job |-> IF j \in reaping
                           THEN [row[j] EXCEPT !.status = "error", !.fresh = TRUE,
                                   !.why = IF @ = "" THEN "interrupted" ELSE @]
                           ELSE row[j]]
  /\ reaping' = {}
  /\ history' = [history EXCEPT !.slain = @ \cup {j \in reaping : Live(j)}]
  /\ UNCHANGED <<task, worker, orphans, lock, slot, asking, labelled>>

\* The API process dies and is started again: its tasks and its slot go with it.
ApiDies ==
  /\ history.crashes < MaxCrashes
  /\ \E j \in AutoLabel : task[j].at # "off"
  /\ task' = [p \in Proc |-> IF p \in AutoLabel THEN NoTask ELSE task[p]]
  /\ slot' = IF slot \in AutoLabel THEN Nobody ELSE slot
  /\ asking' = [j \in Job |-> "no"]
  /\ reaping' = {}
  /\ history' = [history EXCEPT !.crashes = @ + 1]
  /\ UNCHANGED <<row, worker, orphans, lock, labelled>>

-----------------------------------------------------------------------------
(* One auto-label job, in whichever process runs it. *)

\* The row is read (its only_unlabelled is what `next' stands for) and bumped.
Begin(p) == LET j == task[p].job IN
  /\ task[p].at = "start" /\ j \in AutoLabel
  /\ Bump(j, "running", row[j].why)
  /\ task' = [task EXCEPT ![p].at = "wait", ![p].told = row[j].resume]
  /\ UNCHANGED <<worker, orphans, lock, slot, asking, reaping, labelled, history>>

\* gpu_slot, then fetch_frames: nothing left to label is an error.
TakeSlot(p) == LET j == task[p].job
                   first == IF task[p].told THEN labelled[j] + 1 ELSE 1 IN
  /\ task[p].at = "wait" /\ slot = Nobody
  /\ IF first > Frames
     THEN At(p, "failing") /\ UNCHANGED slot
     ELSE /\ task' = [task EXCEPT ![p].at = "label", ![p].next = first]
          /\ slot' = p
  /\ UNCHANGED <<row, worker, orphans, lock, asking, reaping, labelled, history>>

\* A frame is labelled, committed or not, and reported: the first always, the others
\* when a percent is full.  The report stops a job that is no longer wanted.
Label(p) == LET j == task[p].job
                f == task[p].next IN
  /\ task[p].at = "label" /\ f <= Frames /\ j \notin Poison
  /\ history' = [history EXCEPT !.twice = IF f <= labelled[j] THEN @ \cup {j} ELSE @]
  /\ \E now \in Commits :
       labelled' = [labelled EXCEPT ![j] = IF now /\ f > @ THEN f ELSE @]
  /\ \/ /\ row[j].status \in Terminal
        /\ Leave(p) /\ slot' = Freed(p)
        /\ UNCHANGED row
     \/ /\ row[j].status \notin Terminal
        /\ row' = [row EXCEPT ![j].fresh = TRUE]
        /\ task' = [task EXCEPT ![p].next = f + 1]
        /\ UNCHANGED slot
     \/ /\ f > 1
        /\ task' = [task EXCEPT ![p].next = f + 1]
        /\ UNCHANGED <<row, slot>>
  /\ UNCHANGED <<worker, orphans, lock, asking, reaping>>

\* The session's last commit; the slot is released before the row is written.
Save(p) == LET j == task[p].job IN
  /\ task[p].at = "label" /\ task[p].next > Frames
  /\ labelled' = [labelled EXCEPT ![j] = Frames]
  /\ At(p, "saved") /\ slot' = Freed(p)
  /\ UNCHANGED <<row, worker, orphans, lock, asking, reaping, history>>

Finish(p) ==
  /\ task[p].at = "saved"
  /\ Bump(task[p].job, "done", row[task[p].job].why)
  /\ Leave(p)
  /\ UNCHANGED <<worker, orphans, lock, slot, asking, reaping, labelled, history>>

\* An exception anywhere in the work; what was not committed is rolled back.
Raise(p) ==
  /\ MayFail /\ task[p].at \in {"label", "train", "score"}
  /\ At(p, "failing") /\ slot' = Freed(p)
  /\ UNCHANGED <<row, worker, orphans, lock, asking, reaping, labelled, history>>

RecordFailure(p) ==
  /\ task[p].at = "failing"
  /\ Bump(task[p].job, "error", "failed")
  /\ Leave(p)
  /\ UNCHANGED <<worker, orphans, lock, slot, asking, reaping, labelled, history>>

-----------------------------------------------------------------------------
(* One training job, always in the worker. *)

BeginTrain(p) ==
  /\ task[p].at = "start" /\ task[p].job \in Train
  /\ Bump(task[p].job, "running", row[task[p].job].why)
  /\ At(p, "ask")
  /\ UNCHANGED <<worker, orphans, lock, slot, asking, reaping, labelled, history>>

AskCanceled(p) == LET j == task[p].job IN
  /\ task[p].at = "ask"
  /\ IF row[j].asked
     THEN Bump(j, "canceled", row[j].why) /\ Leave(p)
     ELSE At(p, "train") /\ UNCHANGED row
  /\ UNCHANGED <<worker, orphans, lock, slot, asking, reaping, labelled, history>>

\* An epoch ends: drain writes its progress, then looks for a cancel.
Epoch(p) == LET j == task[p].job IN
  /\ task[p].at = "train" /\ task[p].next <= Frames /\ ~task[p].told
  /\ row' = [row EXCEPT ![j].fresh = TRUE]
  /\ task' = [task EXCEPT ![p].next = @ + 1, ![p].told = row[j].asked]
  /\ UNCHANGED <<worker, orphans, lock, slot, asking, reaping, labelled, history>>

EndTrain(p) == LET j == task[p].job IN
  /\ task[p].at = "train" /\ (task[p].told \/ task[p].next > Frames)
  /\ IF task[p].told
     THEN Bump(j, "canceled", row[j].why) /\ Leave(p)
     ELSE At(p, "score") /\ row' = [row EXCEPT ![j].fresh = TRUE]
  /\ UNCHANGED <<worker, orphans, lock, slot, asking, reaping, labelled, history>>

\* Evaluate, register, ask for promotion (module Governance), done.
Score(p) ==
  /\ task[p].at = "score"
  /\ Bump(task[p].job, "done", row[task[p].job].why)
  /\ Leave(p)
  /\ UNCHANGED <<worker, orphans, lock, slot, asking, reaping, labelled, history>>

-----------------------------------------------------------------------------
(* The GPU worker. *)

\* Mutant of Boot: the lifetime lock is not waited for.
BootUnlocked(w) ==
  /\ worker[w] = "down"
  /\ lock' = w
  /\ worker' = [worker EXCEPT ![w] = "boot"]
  /\ orphans' = [orphans EXCEPT ![w] =
                   {j \in AutoLabel : Executor = "worker" /\ row[j].status = "running"}]
  /\ UNCHANGED <<row, task, slot, asking, reaping, labelled, history>>

\* Mutant of Boot: queued jobs are taken for orphans too.
BootAll(w) ==
  /\ worker[w] = "down" /\ lock = Nobody
  /\ lock' = w
  /\ worker' = [worker EXCEPT ![w] = "boot"]
  /\ orphans' = [orphans EXCEPT ![w] = {j \in AutoLabel : row[j].status \in {"pending", "running"}}]
  /\ UNCHANGED <<row, task, slot, asking, reaping, labelled, history>>

Boot(w) ==
  /\ worker[w] = "down" /\ lock = Nobody
  /\ lock' = w
  /\ worker' = [worker EXCEPT ![w] = "boot"]
  /\ orphans' = [orphans EXCEPT ![w] =
                   {j \in AutoLabel : Executor = "worker" /\ row[j].status = "running"}]
  /\ UNCHANGED <<row, task, slot, asking, reaping, labelled, history>>

\* Mutants of Requeued: from the first frame again; for ever; in a status of its own.
RequeuedAfresh(r) ==
  IF r.attempts + 1 >= MaxAttempts
  THEN [r EXCEPT !.attempts = @ + 1, !.status = "error", !.why = "gave up", !.fresh = TRUE]
  ELSE [r EXCEPT !.attempts = @ + 1, !.status = "pending", !.fresh = TRUE]
RequeuedForever(r) ==
  [r EXCEPT !.attempts = IF @ < MaxAttempts THEN @ + 1 ELSE @,
            !.status = "pending", !.resume = TRUE, !.fresh = TRUE]
RequeuedAsQueued(r) ==
  [r EXCEPT !.attempts = @ + 1, !.status = "queued", !.resume = TRUE, !.fresh = TRUE]

Requeued(r) ==
  IF r.attempts + 1 >= MaxAttempts
  THEN [r EXCEPT !.attempts = @ + 1, !.status = "error", !.why = "gave up", !.fresh = TRUE]
  ELSE [r EXCEPT !.attempts = @ + 1, !.status = "pending", !.resume = TRUE, !.fresh = TRUE]

RequeueOrphans(w) ==
  /\ worker[w] = "boot"
  /\ row' = [j \in Job |-> IF j \in orphans[w] THEN Requeued(row[j]) ELSE row[j]]
  /\ worker' = [worker EXCEPT ![w] = "reset"]
  /\ orphans' = [orphans EXCEPT ![w] = {}]
  /\ UNCHANGED <<task, lock, slot, asking, reaping, labelled, history>>

\* Mutant of TrainingReset: the new run starts with a clean slate.
TrainingResetClean ==
  row' = [j \in Job |-> IF j \in Train /\ row[j].status = "running"
                        THEN [row[j] EXCEPT !.status = "pending", !.resume = TRUE,
                                            !.asked = FALSE, !.fresh = TRUE]
                        ELSE row[j]]

\* Every running training row, whoever runs it; no attempt is counted.
TrainingReset ==
  row' = [j \in Job |-> IF j \in Train /\ row[j].status = "running"
                        THEN [row[j] EXCEPT !.status = "pending", !.resume = TRUE,
                                            !.fresh = TRUE]
                        ELSE row[j]]

ResetTraining(w) ==
  /\ worker[w] = "reset"
  /\ TrainingReset
  /\ worker' = [worker EXCEPT ![w] = "up"]
  /\ UNCHANGED <<task, orphans, lock, slot, asking, reaping, labelled, history>>

Waiting(S) == {j \in S : row[j].status = "pending"}
Queued == IF Executor = "worker" /\ Waiting(AutoLabel) # {} THEN Waiting(AutoLabel) ELSE Waiting(Train)

\* Between two jobs, and only there, the worker looks whether it still has its lock.
Claim(w) ==
  /\ worker[w] = "up" /\ task[w].at = "off" /\ lock = w
  /\ Queued # {}
  /\ LET j == Oldest(Queued) IN
       /\ Bump(j, "running", row[j].why)
       /\ task' = [task EXCEPT ![w] = [NoTask EXCEPT !.at = "claimed", !.job = j]]
  /\ UNCHANGED <<worker, orphans, lock, slot, asking, reaping, labelled, history>>

\* Training has a preflight; an auto-label job does not.
Launch(w) ==
  /\ task[w].at = "claimed"
  /\ \/ At(w, "start") /\ UNCHANGED row
     \/ /\ MayFail /\ task[w].job \in Train
        /\ Bump(task[w].job, "error", "failed") /\ Leave(w)
  /\ UNCHANGED <<worker, orphans, lock, slot, asking, reaping, labelled, history>>

Unlocked(w) == IF lock = w THEN Nobody ELSE lock

ExitUnlocked(w) ==
  /\ worker[w] = "up" /\ task[w].at = "off" /\ lock # w
  /\ worker' = [worker EXCEPT ![w] = "down"]
  /\ UNCHANGED <<row, task, orphans, lock, slot, asking, reaping, labelled, history>>

\* SIGTERM.  Idle, or on the await of the claim itself: out.
Stop(w) ==
  /\ history.stops < MaxStops
  /\ worker[w] = "up"
  /\ task[w].at = "off" \/ (StopInClaim /\ task[w].at = "claimed")
  /\ Leave(w)
  /\ worker' = [worker EXCEPT ![w] = "down"]
  /\ lock' = Unlocked(w)
  /\ history' = [history EXCEPT !.stops = @ + 1]
  /\ UNCHANGED <<row, orphans, slot, asking, reaping, labelled>>

\* With an auto-label job: its task is cancelled, then its row is read ...
StopAutolabel(w) == LET j == task[w].job IN
  /\ history.stops < MaxStops
  /\ worker[w] = "up" /\ j \in AutoLabel
  /\ task[w].at \in {"start", "wait", "label", "saved", "failing"}
  /\ IF row[j].status = "running"
     THEN At(w, "requeue") /\ UNCHANGED <<worker, lock>>
     ELSE Leave(w) /\ lock' = Unlocked(w) /\ worker' = [worker EXCEPT ![w] = "down"]
  /\ slot' = Freed(w)
  /\ history' = [history EXCEPT !.stops = @ + 1]
  /\ UNCHANGED <<row, orphans, asking, reaping, labelled>>

\* ... and put back in the queue without counting an attempt.
RequeueInterrupted(w) == LET j == task[w].job IN
  /\ task[w].at = "requeue"
  /\ row' = [row EXCEPT ![j].status = "pending", ![j].resume = TRUE, ![j].fresh = TRUE]
  /\ Leave(w)
  /\ worker' = [worker EXCEPT ![w] = "down"] /\ lock' = Unlocked(w)
  /\ UNCHANGED <<orphans, slot, asking, reaping, labelled, history>>

\* With a training job: its row goes back, the lock is released, and the process ends
\* when the thread that trains does, for asyncio.run joins it.
StopTraining(w) ==
  /\ history.stops < MaxStops
  /\ worker[w] = "up" /\ task[w].job \in Train
  /\ task[w].at \in {"start", "ask", "train", "score", "failing"}
  /\ TrainingReset
  /\ At(w, IF task[w].at \in {"train", "score"} THEN "ghost" ELSE "off")
  /\ worker' = [worker EXCEPT ![w] = "exiting"]
  /\ lock' = Unlocked(w)
  /\ history' = [history EXCEPT !.stops = @ + 1]
  /\ UNCHANGED <<orphans, slot, asking, reaping, labelled>>

ThreadEnds(w) ==
  /\ worker[w] = "exiting"
  /\ worker' = [worker EXCEPT ![w] = "down"]
  /\ Leave(w)
  /\ UNCHANGED <<row, orphans, lock, slot, asking, reaping, labelled, history>>

\* Death of the worker, in a job or out of one.
Dead(w) ==
  /\ worker' = [worker EXCEPT ![w] = "down"]
  /\ orphans' = [orphans EXCEPT ![w] = {}]
  /\ Leave(w) /\ lock' = Unlocked(w) /\ slot' = Freed(w)
  /\ UNCHANGED <<row, asking, reaping, labelled>>

Crash(w) ==
  /\ history.crashes < MaxCrashes /\ worker[w] # "down"
  /\ Dead(w)
  /\ history' = [history EXCEPT !.crashes = @ + 1]

\* The job itself takes the process down, every time.
PoisonCrash(w) ==
  /\ task[w].at = "label" /\ task[w].job \in Poison
  /\ Dead(w)
  /\ UNCHANGED history

\* The database ends every session: both locks are gone, and with the slot's connection
\* the work that holds or awaits it.  Training opens a session per write and goes on.
LoseConnections ==
  /\ history.losses < MaxLosses
  /\ lock # Nobody
  /\ lock' = Nobody /\ slot' = Nobody
  /\ task' = [p \in Proc |-> IF task[p].at \in {"wait", "label"}
                             THEN [task[p] EXCEPT !.at = "failing"] ELSE task[p]]
  /\ history' = [history EXCEPT !.losses = @ + 1]
  /\ UNCHANGED <<row, worker, orphans, asking, reaping, labelled>>

OtherTakesSlot ==
  /\ OtherWork /\ slot = Nobody
  /\ slot' = Other
  /\ UNCHANGED <<row, task, worker, orphans, lock, asking, reaping, labelled, history>>

OtherFreesSlot ==
  /\ slot = Other
  /\ slot' = Nobody
  /\ UNCHANGED <<row, task, worker, orphans, lock, asking, reaping, labelled, history>>

-----------------------------------------------------------------------------
\* What a task does next of its own accord.
Run(p) == \/ Begin(p) \/ TakeSlot(p) \/ Label(p) \/ Save(p) \/ Finish(p)
          \/ RecordFailure(p)
          \/ BeginTrain(p) \/ AskCanceled(p) \/ Epoch(p) \/ EndTrain(p) \/ Score(p)

\* What a worker process does of its own accord.
Serve(w) == \/ Boot(w) \/ RequeueOrphans(w) \/ ResetTraining(w) \/ Claim(w) \/ Launch(w)
            \/ ExitUnlocked(w) \/ RequeueInterrupted(w) \/ ThreadEnds(w)
            \/ PoisonCrash(w)

Sweep == ReapRead \/ ReapWrite

Next ==
  \/ \E j \in AutoLabel : Start(j)
  \/ \E j \in Train : Enqueue(j)
  \/ \E j \in Job : CancelRead(j) \/ CancelWrite(j) \/ Age(j)
  \/ Sweep \/ ApiDies
  \/ \E p \in Proc : Run(p) \/ Raise(p)
  \/ \E w \in Worker : Serve(w) \/ Stop(w) \/ StopAutolabel(w) \/ StopTraining(w) \/ Crash(w)
  \/ LoseConnections \/ OtherTakesSlot \/ OtherFreesSlot

Spec == Init /\ [][Next]_vars

\* The worker's container is restarted, its loop and the API's tasks go on, time passes
\* for rows nobody writes, and the daemon sweeps.
Fairness ==
  /\ \A p \in Proc : WF_vars(Run(p))
  /\ \A w \in Worker : WF_vars(Serve(w))
  /\ \A j \in Job : WF_vars(Age(j))
  /\ WF_vars(Sweep) /\ WF_vars(OtherFreesSlot)
FairSpec == Spec /\ Fairness

-----------------------------------------------------------------------------
(* Safety. *)

\* No job is run by two processes at once: recovery takes a row for an orphan because
\* its own lock says no other worker lives (autolabel/jobs.py:116, gpu_worker.py:15).
NotRunTwice == \A j \in Job : \A p, q \in Proc : Works(p, j) /\ Works(q, j) => p = q

\* One thing computes on the card at a time, whoever it is (core/gpu_slot.py:1).
CardNotShared == Cardinality(OnCard) <= 1

\* Through any crashes and stops, no frame whose labels are committed is labelled by the
\* same job again (autolabel/jobs.py:120).
FrameOnce == history.twice = {}

\* The sweep fails only rows whose process is gone (job_reaper.py:14).
ReapsOnlyDead == history.slain = {}

(* What a step may never do. *)

\* A canceled job stays canceled (job_control.py:11).
CancelStands ==
  [][\A j \in Job : row[j].status = "canceled" => row'[j].status = "canceled"]_vars

\* A training run asked to stop and then lost in a crash or a restart is not finished
\* by whoever picks it up: the request outlives the process it was made to.
CancelSurvivesCrash ==
  \A j \in Train :
    [](row[j].asked /\ row[j].status \in {"pending", "running"} /\ ~Live(j)
         => [](row[j].status # "done"))

(* Liveness. *)

\* Every queued job ends, also behind one that kills the worker each time it runs.
EveryJobEnds == \A j \in Job : row[j].status = "pending" ~> row[j].status \in Terminal

\* A row whose process is gone does not block the next start for ever (job_reaper.py:8).
StuckRowClears ==
  \A j \in AutoLabel : row[j].status \in {"pending", "running"} /\ ~Live(j)
                    ~> row[j].status \in Terminal \/ Live(j)

(* Refinement: the tables are a queue of leases. *)
Lease(j) == {w \in Proc : row[j].status = "running" /\ Works(w, j)}
Queue == INSTANCE JobQueue WITH
  Holder <- Proc,
  life <- [j \in Job |-> CASE row[j].status = "absent" -> "absent"
                            [] row[j].status = "pending" -> "waiting"
                            [] row[j].status = "running" -> "held"
                            [] OTHER -> "ended"],
  holder <- [j \in Job |-> IF Lease(j) = {} THEN Nobody ELSE CHOOSE w \in Lease(j) : TRUE]
KeepsQueue == Queue!Spec
=============================================================================
