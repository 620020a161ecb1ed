------------------------------ MODULE AgentRuns ------------------------------
(***************************************************************************)
(* A corpus run of the annotation agent: the AgentRun row, the task in the *)
(* API process that works through its units, the crash that takes the task *)
(* and not the row, the sweep at the next start-up, and the resume from    *)
(* the cursor.  services/agent/resume.py, the start-up of api/main.py, the *)
(* resume route of routers/agent.py and the four runners it relaunches:    *)
(* error_daemon.py, relabel_agent.py, reanalyze.py, perception/backfill.py *)
(*                                                                         *)
(* One API process (Dockerfile, Makefile).  A unit is a frame, a session   *)
(* for an error sweep.  What a runner finds in a unit is left out, and so  *)
(* is the wait of relabel_all for the card: a worker may always be slow.   *)
(* Every frame that relabel_all reads has something to relabel.            *)
(***************************************************************************)
EXTENDS Naturals, FiniteSets

CONSTANTS
  Kinds,          \* the kinds of run considered
  Units, Window,  \* units in the order of their ids, and max_frames / max_sessions
  Streak,         \* failures in a row that stop a runner
  Bad,            \* units that can never be read
  OutageIn,       \* kinds of run during which the object store may go down
  MayTrain,       \* when a worker may find training on the card: "launch", "resume"
  Worker,         \* tasks of the API process
  MaxClicks,      \* requests to resume in flight at once
  MaxCrashes, MaxOutages

AllKinds == {"error_sweep", "relabel_all", "reanalyze_all", "drivable_backfill"}

ASSUME AgentRunsAssumption ==
  /\ Kinds \subseteq AllKinds /\ OutageIn \subseteq AllKinds
  /\ Units \subseteq Nat /\ Bad \subseteq Units /\ IsFiniteSet(Units)
  /\ Window \in Nat \ {0} /\ Streak \in Nat \ {0}
  /\ MayTrain \subseteq {"launch", "resume"}
  /\ MaxClicks \in Nat /\ MaxCrashes \in Nat /\ MaxOutages \in Nat

Terminal == {"committed", "reverted", "error"}
Status == {"absent", "running", "interrupted"} \cup Terminal

VARIABLES
  kind,     \* the kind of the run
  run,      \* its row: status, cursor, counts, the child runs it lists, whether its heartbeat is recent
  trace,    \* trace[u]: what unit u carries: no record, or the status of the record made of it
  aged,     \* units whose skip was recorded more than the staleness window ago
  worker,   \* worker[w]: the task's own state
  clicks,   \* requests to resume that have read the row as interrupted
  up, down, \* the API process is up; the object store is down
  history   \* what the properties and the bounds remember

vars == <<kind, run, trace, aged, worker, clicks, up, down, history>>

Trace == {"none", "committed", "skipped", "interrupted", "reverted"}
NoCounts == [frames |-> 0, skipped |-> 0]
Off == [pc |-> "off", resumed |-> FALSE, todo |-> {}, done |-> {}, counts |-> NoCounts,
        kids |-> {}, streak |-> 0]

Counts == [frames : Nat, skipped : Nat]

TypeOK ==
  /\ kind \in Kinds
  /\ run \in [status : Status, done : SUBSET Units, counts : Counts, kids : SUBSET Units, fresh : BOOLEAN]
  /\ trace \in [Units -> Trace] /\ aged \subseteq Units
  /\ worker \in [Worker -> [pc : {"off", "spawned", "work", "child", "beat", "end", "fail"},
                            resumed : BOOLEAN, todo : SUBSET Units, done : SUBSET Units,
                            counts : Counts, kids : SUBSET Units, streak : 0..Streak]]
  /\ clicks \in 0..MaxClicks /\ up \in BOOLEAN /\ down \in BOOLEAN
  /\ history \in [scope : SUBSET Units, times : [Units -> Nat], missed : BOOLEAN,
                  crashes : 0..MaxCrashes, outages : 0..MaxOutages]

Init ==
  /\ kind \in Kinds
  /\ run = [status |-> "absent", done |-> {}, counts |-> NoCounts, kids |-> {}, fresh |-> FALSE]
  /\ trace = [u \in Units |-> "none"]
  /\ aged = {}
  /\ worker = [w \in Worker |-> Off]
  /\ clicks = 0
  /\ up = TRUE /\ down = FALSE
  /\ history = [scope |-> {}, times |-> [u \in Units |-> 0], missed |-> FALSE,
                crashes |-> 0, outages |-> 0]

-----------------------------------------------------------------------------
(* Starting, losing and resuming a run. *)

Spawn(w, again) == /\ worker[w].pc = "off"
                   /\ worker' = [worker EXCEPT ![w] = [Off EXCEPT !.pc = "spawned", !.resumed = again]]

Launch(w) ==
  /\ up /\ run.status = "absent"
  /\ Spawn(w, FALSE)
  /\ run' = [run EXCEPT !.status = "running", !.fresh = TRUE]
  /\ UNCHANGED <<kind, trace, aged, clicks, up, down, history>>

\* The process goes away, and every task and request with it.
Crash ==
  /\ up /\ run.status # "absent" /\ history.crashes < MaxCrashes
  /\ up' = FALSE
  /\ worker' = [w \in Worker |-> Off]
  /\ clicks' = 0
  /\ history' = [history EXCEPT !.crashes = @ + 1]
  /\ UNCHANGED <<kind, run, trace, aged, down>>

\* STALE_AFTER passes without a heartbeat.
Age ==
  /\ run.fresh \/ \E u \in Units \ aged : trace[u] = "skipped"
  /\ run' = [run EXCEPT !.fresh = FALSE]
  /\ aged' = {u \in Units : trace[u] = "skipped"}
  /\ UNCHANGED <<kind, trace, worker, clicks, up, down, history>>

\* Mutant of Dead: only a run that left a cursor is taken for dead.
DeadWithCursor(r) == r.status = "running" /\ ~r.fresh /\ r.done # {}

Dead(r) == r.status = "running" /\ ~r.fresh

\* Start-up: reap_interrupted, over the child runs too.
Start ==
  /\ ~up
  /\ up' = TRUE
  /\ run' = IF Dead(run) THEN [run EXCEPT !.status = "interrupted"] ELSE run
  /\ trace' = [u \in Units |-> IF u \in aged THEN "interrupted" ELSE trace[u]]
  /\ aged' = {}
  /\ history' = [history EXCEPT !.missed = run.status = "running" /\ run.fresh]
  /\ UNCHANGED <<kind, worker, clicks, down>>

\* resume_run reads the row; claim_for_resume sees the same read.
Click ==
  /\ up /\ run.status = "interrupted" /\ clicks < MaxClicks
  /\ clicks' = clicks + 1
  /\ UNCHANGED <<kind, run, trace, aged, worker, up, down, history>>

Claim(w) ==
  /\ clicks > 0
  /\ clicks' = clicks - 1
  /\ Spawn(w, TRUE)
  /\ run' = [run EXCEPT !.status = "running", !.fresh = TRUE]
  /\ UNCHANGED <<kind, trace, aged, up, down, history>>

\* revert_run: the cascade over the child runs the row lists.
Revert ==
  /\ up /\ run.status = "committed"
  /\ run' = [run EXCEPT !.status = "reverted"]
  /\ trace' = [u \in Units |-> IF u \in run.kids /\ trace[u] = "committed" THEN "reverted" ELSE trace[u]]
  /\ UNCHANGED <<kind, aged, worker, clicks, up, down, history>>

StoreDown == /\ ~down /\ kind \in OutageIn /\ history.outages < MaxOutages
             /\ down' = TRUE
             /\ history' = [history EXCEPT !.outages = @ + 1]
             /\ UNCHANGED <<kind, run, trace, aged, worker, clicks, up>>

StoreUp == /\ down /\ down' = FALSE
           /\ UNCHANGED <<kind, run, trace, aged, worker, clicks, up, history>>

-----------------------------------------------------------------------------
(* The runner.  Postgres returns the same rows for the same query, so the  *)
(* unordered limit of the error sweep is taken to be an ordered one.       *)

First(S) == {u \in S : Cardinality({v \in S : v < u}) < Window}

Selected ==
  First(IF kind \in {"relabel_all", "drivable_backfill"} THEN {u \in Units : trace[u] = "none"} ELSE Units)

\* Mutants: the resumed worker starts over; its totals do.
CursorLost(r) == {}
CountsLost(r) == NoCounts

Cursor(r) == r.done
CountsSoFar(r) == r.counts

Commit(counts) == run' = [run EXCEPT !.status = "committed", !.counts = counts]
Leave(w) == worker' = [worker EXCEPT ![w] = Off]

TrainingHoldsCard(w) ==
  /\ kind \in {"error_sweep", "relabel_all"}
  /\ (IF worker[w].resumed THEN "resume" ELSE "launch") \in MayTrain
  /\ worker[w].pc = "spawned"
  /\ Commit(NoCounts) /\ Leave(w)
  /\ UNCHANGED <<kind, trace, aged, clicks, up, down, history>>

Begin(w) ==
  /\ worker[w].pc = "spawned"
  /\ IF Selected = {} /\ kind # "error_sweep"
     THEN Commit(IF kind = "relabel_all" THEN NoCounts ELSE CountsSoFar(run)) /\ Leave(w)
     ELSE /\ worker' = [worker EXCEPT ![w].pc = "work", ![w].todo = Selected \ Cursor(run),
                                      ![w].done = Cursor(run), ![w].counts = CountsSoFar(run),
                                      ![w].kids = run.kids]
          /\ UNCHANGED run
  /\ history' = [history EXCEPT !.scope = IF worker[w].resumed THEN @ ELSE Selected]
  /\ UNCHANGED <<kind, trace, aged, clicks, up, down>>

Next1(w) == CHOOSE u \in worker[w].todo : \A v \in worker[w].todo : u <= v
Unreadable(u) == down \/ u \in Bad

\* The unit's own work commits in a session of its own.
Work(w) ==
  /\ worker[w].pc = "work" /\ worker[w].todo # {}
  /\ LET u == Next1(w) IN
     /\ ~Unreadable(u)
     /\ trace' = [trace EXCEPT ![u] = "committed"]
     /\ history' = [history EXCEPT !.times[u] = @ + 1]
     /\ worker' = [worker EXCEPT ![w] =
          [worker[w] EXCEPT !.pc = IF kind = "relabel_all" THEN "child" ELSE "beat",
                            !.todo = @ \ {u}, !.done = @ \cup {u}, !.streak = 0,
                            !.counts.frames = @ + 1,
                            !.kids = IF kind = "relabel_all" THEN @ \cup {u} ELSE @]]
  /\ UNCHANGED <<kind, run, aged, clicks, up, down>>

\* A unit that cannot be read counts as done; relabel_all keeps a child run that says so.
Skip(w) ==
  /\ worker[w].pc = "work" /\ worker[w].todo # {}
  /\ LET u == Next1(w)
         streak == worker[w].streak + 1 IN
     /\ Unreadable(u)
     /\ IF kind = "error_sweep"
        THEN worker' = [worker EXCEPT ![w].pc = "fail"]
        ELSE worker' = [worker EXCEPT ![w] =
               [worker[w] EXCEPT !.pc = IF streak = Streak /\ kind # "reanalyze_all" THEN "fail" ELSE "beat",
                                 !.todo = @ \ {u}, !.done = @ \cup {u}, !.streak = streak,
                                 !.counts.skipped = @ + 1,
                                 !.counts.frames = IF kind = "drivable_backfill" THEN @ + 1 ELSE @]]
     /\ trace' = [trace EXCEPT ![u] = IF kind = "relabel_all" THEN "skipped" ELSE @]
  /\ UNCHANGED <<kind, run, aged, clicks, up, down, history>>

ListChild(w) ==
  /\ worker[w].pc = "child"
  /\ run' = [run EXCEPT !.kids = worker[w].kids]
  /\ worker' = [worker EXCEPT ![w].pc = "beat"]
  /\ UNCHANGED <<kind, trace, aged, clicks, up, down, history>>

\* beat, and the breaker of the reanalysis.
Beat(w) ==
  /\ worker[w].pc = "beat"
  /\ run' = [run EXCEPT !.done = worker[w].done, !.counts = worker[w].counts, !.fresh = TRUE,
                        !.status = IF @ \in Terminal THEN @ ELSE "running"]
  /\ worker' = [worker EXCEPT ![w].pc = IF worker[w].streak = Streak THEN "end" ELSE "work"]
  /\ UNCHANGED <<kind, trace, aged, clicks, up, down, history>>

Finish(w) ==
  /\ worker[w].pc = "end" \/ (worker[w].pc = "work" /\ worker[w].todo = {})
  /\ run' = [run EXCEPT !.status = "committed", !.counts = worker[w].counts,
                        !.kids = IF kind = "relabel_all" THEN worker[w].kids ELSE @]
  /\ Leave(w)
  /\ UNCHANGED <<kind, trace, aged, clicks, up, down, history>>

\* Mutants of FailStatus: stopped by an outage and yet committed; a word nobody knows.
FailCommitted(k) == "committed"
FailWord(k) == "failed"

FailStatus(k) == IF k = "drivable_backfill" THEN "interrupted" ELSE "error"

Fail(w) ==
  /\ worker[w].pc = "fail"
  /\ run' = [run EXCEPT !.status = FailStatus(kind),
                        !.counts = IF kind = "drivable_backfill" THEN worker[w].counts ELSE @]
  /\ Leave(w)
  /\ UNCHANGED <<kind, trace, aged, clicks, up, down, history>>

Step(w) == \/ TrainingHoldsCard(w) \/ Begin(w) \/ Work(w) \/ Skip(w)
           \/ ListChild(w) \/ Beat(w) \/ Finish(w) \/ Fail(w)

Next == \/ \E w \in Worker : Launch(w) \/ Claim(w) \/ Step(w)
        \/ Crash \/ Age \/ Start \/ Click \/ Revert \/ StoreDown \/ StoreUp

Spec == Init /\ [][Next]_vars

\* The event loop runs every task, a supervisor restarts the API, an outage ends, a run is launched,
\* and somebody resumes what is listed as interrupted.
Fairness == /\ \A w \in Worker : WF_vars(Step(w)) /\ WF_vars(Launch(w)) /\ WF_vars(Claim(w))
            /\ WF_vars(Start) /\ WF_vars(StoreUp) /\ WF_vars(Click)

FairSpec == Spec /\ Fairness

-----------------------------------------------------------------------------
(* Properties. *)

(* A unit in the cursor is never worked on again, and relabel_all reads no  *)
(* frame that has a child run: a second one would count it twice.           *)
NoRework ==
  [][\A u \in Units : history'.times[u] # history.times[u] =>
       (u \notin run.done /\ (kind = "relabel_all" => trace[u] = "none"))]_vars

(* The totals a run reports are those of the units in its cursor, across    *)
(* every crash and resume (error_daemon.py: cursor and totals move together *)
(* in one commit).                                                          *)
CountsMatchCursor ==
  kind \in {"error_sweep", "reanalyze_all"} =>
    run.counts.frames + run.counts.skipped = Cardinality(run.done)

(* A run that says committed has gone through every unit it selected when   *)
(* it was launched, whatever stopped it in between.                         *)
WholeScopeRead ==
  run.status = "committed" => \A u \in history.scope : u \in run.done \/ trace[u] # "none"

Stranded == /\ up /\ history.missed
            /\ run.status = "running" /\ \A w \in Worker : worker[w].pc = "off"

(* With someone to press resume, every run ends, unless the API came back   *)
(* so soon after a crash that its only sweep still saw a recent heartbeat.  *)
EndsUnlessStranded == <>[](run.status \in Terminal \/ Stranded)

(* The start-up sweep is what clears a row left running by a dead process   *)
(* (api/main.py): so every run ends.                                        *)
EveryRunEnds == <>(run.status \in Terminal)

(* Reverting a relabel of the corpus reverts every child run it made.       *)
RevertTakesAll ==
  run.status = "reverted" => \A u \in Units : trace[u] # "committed" \/ kind # "relabel_all"

(* The child run that says a frame could not be read goes on saying so.     *)
SkipStands == [][\A u \in Units : trace[u] = "skipped" => trace'[u] = "skipped"]_vars
=============================================================================
