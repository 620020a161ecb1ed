------------------------------ MODULE Campaign ------------------------------
(***************************************************************************)
(* A campaign: mine, judge, label, train, evaluate, promote, and again,    *)
(* one stage per tick, until a target, a budget, patience or a number of   *)
(* iterations stops it.  services/flywheel/campaign.py and its routes.     *)
(*                                                                         *)
(* A driver is a call of the daemon's tick or of a route, with a database  *)
(* session of its own.  It opens a step and commits, runs the stage for    *)
(* minutes, and commits the outcome; a crash may come in between.  The     *)
(* reads of one call before it opens the step are one action with it.      *)
(*                                                                         *)
(* Objects are numbered in the order the miner ranks them.  A stage that   *)
(* fails is one whose handler raises.  The promotion gate is Governance's, *)
(* and the judge flags proposals only, so both leave this state alone.     *)
(***************************************************************************)
EXTENDS Naturals, Sequences, FiniteSets, Orm

CONSTANTS
  Driver,          \* calls that may be in flight together
  LabelBudget, MaxIterations, Patience, TargetValue,   \* the campaign's own columns
  MinBatch,        \* the least a mining slice asks for (25 in the code)
  Object,          \* objects of the class, numbered by rank
  Values,          \* what a finished retrain may report; NoValue: nothing for the class
  RequireApproval, Autopilot,  \* a person at every stage, except these
  Careful,         \* people approve only a stage that is waiting
  TickBlocked,     \* people tick a blocked campaign by hand
  JobsEnd,         \* the statuses a retrain may end with
  MaxCrashes, MaxFails, MaxStops, MaxSteps  \* bounds of the model

Stages == <<"mine", "judge", "label", "train", "evaluate", "promote">>
Stage == {Stages[n] : n \in DOMAIN Stages}
Terminal == {"succeeded", "exhausted", "stopped"}
NoValue == 0
NoJob == 0

ASSUME CampaignAssumption ==
  /\ LabelBudget \in Nat \ {0} /\ MaxIterations \in Nat \ {0} /\ Patience \in Nat \ {0}
  /\ TargetValue \in Nat \ {0} /\ MinBatch \in Nat \ {0}
  /\ Object \subseteq Nat /\ IsFiniteSet(Object) /\ Values \subseteq Nat
  /\ RequireApproval \in BOOLEAN /\ Autopilot \subseteq Stage
  /\ JobsEnd \subseteq {"done", "error", "canceled"}

VARIABLES
  camp,      \* the campaign's row
  steps,     \* its step rows, in the order they were started
  call,      \* call[d]: what driver d's session holds
  jobs,      \* the retrains it enqueued
  reviewed,  \* objects a person has decided
  history    \* what the properties remember, and counts of faults

vars == <<camp, steps, call, jobs, reviewed, history>>

Step == [iteration : Nat, stage : Stage, status : {"running", "waiting", "done", "failed", "stopped"},
         awaiting : {"", "approval", "review", "gpu", "retrain"}, job : Nat,
         objects : SUBSET Object, value : Nat]
NewStep(iteration, stage) ==
  [iteration |-> iteration, stage |-> stage, status |-> "running", awaiting |-> "",
   job |-> NoJob, objects |-> {}, value |-> NoValue]
Idle == [at |-> "off", step |-> 0, seen |-> <<>>, was |-> <<>>, now |-> <<>>, job |-> NoJob]

Row == [status : Terminal \cup {"pending", "running", "blocked"}, iteration : Nat,
        spent : Nat, stalled : Nat, best : Nat]
TypeOK ==
  /\ camp \in Row
  /\ steps \in Seq(Step)
  /\ \A d \in Driver :
       /\ call[d].at \in {"off", "run", "queued"}
       /\ call[d].at # "off" => /\ call[d].step \in DOMAIN steps
                                /\ call[d].seen \in Step
                                /\ call[d].was \in Row /\ call[d].now \in Row
                                /\ call[d].job \in 0 .. Len(jobs)
  /\ jobs \in Seq([status : {"pending", "running"} \cup JobsEnd, value : Nat, iteration : Nat])
  /\ reviewed \subseteq Object
  /\ history \in [crashes : Nat, fails : Nat, stops : Nat]

Init ==
  /\ camp = [status |-> "pending", iteration |-> 0, spent |-> 0, stalled |-> 0, best |-> NoValue]
  /\ steps = <<>>
  /\ call = [d \in Driver |-> Idle]
  /\ jobs = <<>>
  /\ reviewed = {}
  /\ history = [crashes |-> 0, fails |-> 0, stops |-> 0]

-----------------------------------------------------------------------------
(* Reading the steps. *)

AtLeast1(n) == IF n = 0 THEN 1 ELSE n
StepsOf(iteration) == {n \in DOMAIN steps : steps[n].iteration = AtLeast1(iteration)}
Latest(S) == CHOOSE n \in S : \A m \in S : m <= n

\* What a campaign's stage left behind: the latest step, or a blank one.
LastStep(c, stage) ==
  LET S == {n \in StepsOf(c.iteration) : steps[n].stage = stage}
  IN IF S = {} THEN NewStep(AtLeast1(c.iteration), stage) ELSE steps[Latest(S)]

StopReason(c) ==
  IF c.best # NoValue /\ c.best >= TargetValue THEN "succeeded"
  ELSE IF \/ c.iteration > MaxIterations
          \/ c.spent >= LabelBudget
          \/ c.stalled >= Patience
       THEN "exhausted" ELSE ""

NextStage(c) ==
  LET done == {steps[n].stage : n \in {k \in StepsOf(c.iteration) : steps[k].status = "done"}}
      left == {n \in DOMAIN Stages : Stages[n] \notin done}
  IN IF left = {} THEN Stages[1] ELSE Stages[CHOOSE n \in left : \A m \in left : n <= m]

\* Mutant of BlockingStep: a step that a crash left running blocks as well.
BlockedByAnyOpen(c) == \E n \in StepsOf(c.iteration) : steps[n].status \in {"running", "waiting"}

BlockingStep(c) == \E n \in StepsOf(c.iteration) : steps[n].status = "waiting"

\* The step of the stage that is still open, if there is one.
OpenSteps(c, stage) ==
  {n \in StepsOf(c.iteration) : steps[n].stage = stage /\ steps[n].status \in {"running", "waiting"}}

-----------------------------------------------------------------------------
(* Starting a stage. *)

Started(c) == IF c.status = "pending"
              THEN [c EXCEPT !.status = "running", !.iteration = AtLeast1(c.iteration)] ELSE c

\* run_stage up to its handler.  Opening a step commits; resuming an open one does not.
RunStage(d, stage) ==
  LET c == Started(camp)
      open == OpenSteps(c, stage)
      n == IF open = {} THEN Len(steps) + 1 ELSE Latest(open)
  IN /\ n <= MaxSteps
     /\ steps' = IF open = {} THEN Append(steps, NewStep(c.iteration, stage)) ELSE steps
     /\ camp' = IF open = {} THEN c ELSE camp
     /\ call' = [call EXCEPT ![d] = [at |-> "run", step |-> n, seen |-> steps'[n],
                                      was |-> camp', now |-> c, job |-> NoJob]]
     /\ UNCHANGED <<jobs, reviewed, history>>

AskApproval(stage) ==
  LET open == OpenSteps(camp, stage)
      n == IF open = {} THEN Len(steps) + 1 ELSE Latest(open)
      asked(s) == [s EXCEPT !.status = "waiting", !.awaiting = "approval"]
  IN /\ n <= MaxSteps
     /\ steps' = IF open = {} THEN Append(steps, asked(NewStep(AtLeast1(camp.iteration), stage)))
                 ELSE [steps EXCEPT ![n] = asked(steps[n])]
     /\ UNCHANGED <<camp, call, jobs, reviewed, history>>

\* The daemon ticks a campaign that is pending or running; people tick any that has not ended.
Tick(d) ==
  /\ call[d].at = "off"
  /\ camp.status \in {"pending", "running"} \cup (IF TickBlocked THEN {"blocked"} ELSE {})
  /\ IF StopReason(camp) # ""
     THEN /\ camp' = [camp EXCEPT !.status = StopReason(camp)]
          /\ UNCHANGED <<steps, call, jobs, reviewed, history>>
     ELSE /\ ~BlockingStep(camp)
          /\ LET stage == NextStage(camp) IN
             IF RequireApproval /\ stage \notin Autopilot
             THEN AskApproval(stage)
             ELSE RunStage(d, stage)

\* POST .../approve runs whatever stage it names.
Approve(d, stage) ==
  /\ call[d].at = "off" /\ camp.status \notin Terminal
  /\ Careful => \E n \in StepsOf(camp.iteration) : steps[n].stage = stage /\ steps[n].status = "waiting"
  /\ RunStage(d, stage)

StopCampaign ==
  /\ history.stops < MaxStops /\ camp.status \notin Terminal /\ Len(steps) < MaxSteps
  /\ camp' = [camp EXCEPT !.status = "stopped"]
  /\ steps' = Append(steps, [NewStep(camp.iteration, "promote") EXCEPT !.status = "stopped"])
  /\ history' = [history EXCEPT !.stops = @ + 1]
  /\ UNCHANGED <<call, jobs, reviewed>>

-----------------------------------------------------------------------------
(* The handlers of the stages, and how a call ends. *)

Runs(d, stage) == call[d].at = "run" /\ call[d].seen.stage = stage

\* What the call leaves on its step and on the campaign, in one commit.
Outcome(d, step, c) ==
  /\ steps' = [steps EXCEPT ![call[d].step] = Flush(steps[call[d].step], call[d].seen, step)]
  /\ camp' = Flush(camp, call[d].was, c)
  /\ call' = [call EXCEPT ![d] = Idle]

\* Mutant of Waiting: the reason lands in the status column.
WaitingMixed(step, on) == [step EXCEPT !.status = on]

Done(step) == [step EXCEPT !.status = "done", !.awaiting = ""]
Waiting(step, on) == [step EXCEPT !.status = "waiting", !.awaiting = on]

Least(a, b) == IF a <= b THEN a ELSE b
Greatest(a, b) == IF a <= b THEN b ELSE a
Remaining(c) == IF c.spent >= LabelBudget THEN 0 ELSE LabelBudget - c.spent

SliceSize(c) == IF Remaining(c) = 0 THEN 0
                ELSE Greatest(MinBatch, Least(Remaining(c), LabelBudget \div MaxIterations))

Mine(d) ==
  LET c == call[d].now
      pool == Object \ reviewed
      mined == {o \in pool : Cardinality({p \in pool : p < o}) < SliceSize(c)}
  IN /\ Runs(d, "mine")
     /\ Outcome(d, [Done(call[d].seen) EXCEPT !.objects = mined], c)
     /\ UNCHANGED <<jobs, reviewed, history>>

Judge(d) ==
  /\ Runs(d, "judge")
  /\ Outcome(d, Done(call[d].seen), call[d].now)
  /\ UNCHANGED <<jobs, reviewed, history>>

Pending(objects) == objects \ reviewed # {}

\* Mutant of Spend: the labels of this batch instead of the campaign's.
SpendBatch(c, objects) == [c EXCEPT !.spent = Cardinality(objects)]

Spend(c, objects) == [c EXCEPT !.spent = @ + Cardinality(objects)]

\* Counts the batch once a person has decided all of it, and waits until then.
Label(d) ==
  LET c == call[d].now
      objects == LastStep(c, "mine").objects
  IN /\ Runs(d, "label")
     /\ IF Pending(objects)
        THEN Outcome(d, Waiting(call[d].seen, "review"), c)
        ELSE Outcome(d, Done(call[d].seen), Spend(c, objects))
     /\ UNCHANGED <<jobs, reviewed, history>>

GpuBusy == \E k \in DOMAIN jobs : jobs[k].status = "running"

\* The retrain has ended, by the names this stage knows.
Ended(status) == status \in {"done", "failed", "cancelled"}

\* A step that has a retrain reads how it went.
TrainPoll(d) ==
  LET step == call[d].seen
      job == jobs[step.job]
  IN /\ Runs(d, "train") /\ step.job # NoJob
     /\ Outcome(d, IF Ended(job.status)
                   THEN [Done(step) EXCEPT !.status = IF job.status = "done" THEN "done" ELSE "failed",
                                           !.value = job.value]
                   ELSE Waiting(step, "retrain"), call[d].now)
     /\ UNCHANGED <<jobs, reviewed, history>>

TrainWaitsGpu(d) ==
  /\ Runs(d, "train") /\ call[d].seen.job = NoJob /\ GpuBusy
  /\ Outcome(d, Waiting(call[d].seen, "gpu"), call[d].now)
  /\ UNCHANGED <<jobs, reviewed, history>>

\* enqueue_job commits in a session of its own; the step learns the job's id afterwards.
Enqueue(d) ==
  /\ Runs(d, "train") /\ call[d].seen.job = NoJob /\ ~GpuBusy
  /\ jobs' = Append(jobs, [status |-> "pending", value |-> NoValue,
                           iteration |-> call[d].now.iteration])
  /\ call' = [call EXCEPT ![d].at = "queued", ![d].job = Len(jobs')]
  /\ UNCHANGED <<camp, steps, reviewed, history>>

\* Mutant of RecordJob: the step waits for the retrain without its id.
RecordJobLost(d) ==
  /\ call[d].at = "queued"
  /\ Outcome(d, Waiting(call[d].seen, "retrain"), call[d].now)
  /\ UNCHANGED <<jobs, reviewed, history>>

RecordJob(d) ==
  /\ call[d].at = "queued"
  /\ Outcome(d, [Waiting(call[d].seen, "retrain") EXCEPT !.job = call[d].job], call[d].now)
  /\ UNCHANGED <<jobs, reviewed, history>>

Measured(c, value) ==
  IF value = NoValue THEN c
  ELSE [c EXCEPT !.best = Greatest(@, value), !.stalled = IF value > c.best THEN 0 ELSE @ + 1,
                 !.status = IF value >= TargetValue THEN "succeeded" ELSE @]

Evaluate(d) ==
  LET value == LastStep(call[d].now, "train").value
  IN /\ Runs(d, "evaluate")
     /\ Outcome(d, Done(call[d].seen), Measured(call[d].now, value))
     /\ UNCHANGED <<jobs, reviewed, history>>

NextIteration(c) == IF c.status # "succeeded" THEN [c EXCEPT !.iteration = @ + 1] ELSE c

Promote(d) ==
  /\ Runs(d, "promote")
  /\ Outcome(d, Done(call[d].seen), NextIteration(call[d].now))
  /\ UNCHANGED <<jobs, reviewed, history>>

\* The handler raised.
StageFails(d) ==
  /\ call[d].at = "run" /\ history.fails < MaxFails
  /\ Outcome(d, [call[d].seen EXCEPT !.status = "failed"], [call[d].now EXCEPT !.status = "blocked"])
  /\ history' = [history EXCEPT !.fails = @ + 1]
  /\ UNCHANGED <<jobs, reviewed>>

Crash(d) ==
  /\ call[d].at # "off" /\ history.crashes < MaxCrashes
  /\ call' = [call EXCEPT ![d] = Idle]
  /\ history' = [history EXCEPT !.crashes = @ + 1]
  /\ UNCHANGED <<camp, steps, jobs, reviewed>>

-----------------------------------------------------------------------------
(* Around the campaign: reviewers and the training queue. *)

MinedObjects == UNION {steps[n].objects : n \in DOMAIN steps}

Review(o) ==
  /\ o \in MinedObjects \ reviewed
  /\ reviewed' = reviewed \cup {o}
  /\ UNCHANGED <<camp, steps, call, jobs, history>>

JobRuns(k) ==
  /\ k \in DOMAIN jobs /\ jobs[k].status = "pending" /\ ~GpuBusy
  /\ jobs' = [jobs EXCEPT ![k].status = "running"]
  /\ UNCHANGED <<camp, steps, call, reviewed, history>>

JobEnds(k) ==
  /\ k \in DOMAIN jobs /\ jobs[k].status = "running"
  /\ \E status \in JobsEnd, value \in Values :
       jobs' = [jobs EXCEPT ![k].status = status, ![k].value = IF status = "done" THEN value ELSE NoValue]
  /\ UNCHANGED <<camp, steps, call, reviewed, history>>

-----------------------------------------------------------------------------
Handler(d) == \/ Mine(d) \/ Judge(d) \/ Label(d) \/ TrainPoll(d) \/ TrainWaitsGpu(d)
              \/ Enqueue(d) \/ RecordJob(d) \/ Evaluate(d) \/ Promote(d)
Next ==
  \/ \E d \in Driver : \/ Tick(d)
                       \/ \E stage \in Stage : Approve(d, stage)
                       \/ Handler(d) \/ StageFails(d) \/ Crash(d)
  \/ StopCampaign
  \/ \E o \in Object : Review(o)
  \/ \E k \in DOMAIN jobs : JobRuns(k) \/ JobEnds(k)

Spec == Init /\ [][Next]_vars

\* The daemon ticks on, handlers end, reviewers finish the batch, the worker runs the retrains
\* it is given (EveryJobEnds of Jobs), and people approve, if the campaign asks them to.
Fairness ==
  /\ \A d \in Driver : /\ WF_vars(Tick(d)) /\ WF_vars(Handler(d))
                       /\ RequireApproval => WF_vars(\E stage \in Stage : Approve(d, stage))
  /\ \A o \in Object : WF_vars(Review(o))
  /\ WF_vars(\E k \in DOMAIN jobs : JobRuns(k) \/ JobEnds(k))

FairSpec == Spec /\ Fairness

-----------------------------------------------------------------------------
(* Properties. *)

LabelledIterations ==
  {steps[n].iteration : n \in {k \in DOMAIN steps : steps[k].stage = "label" /\ steps[k].status = "done"}}

\* What labels_spent says is the batches people finished, each object once, through every
\* approval that asks the label stage again, every restart and every failed stage.
LabelsCountedOnce ==
  camp.spent = Cardinality(UNION {steps[n].objects : n \in {k \in DOMAIN steps :
                                                steps[k].iteration \in LabelledIterations}})

\* An iteration trains once, and once more for each crash or failed stage that loses its job.
RetrainsPerIteration ==
  \A i \in 1 .. MaxIterations :
    Cardinality({k \in DOMAIN jobs : jobs[k].iteration = i}) <= 1 + history.crashes + history.fails

\* A campaign ends on its own terms, whatever the retrains report.
CampaignEnds == <>(camp.status \in Terminal)

\* A stopped campaign stays stopped, whatever call was in flight.
StopStands == [][camp.status = "stopped" => camp.status' = "stopped"]_vars

\* What evaluation finds good enough goes to the gate.
SuccessIsPromoted ==
  (camp.status = "succeeded")
    ~> (\E n \in DOMAIN steps : steps[n].iteration = camp.iteration /\ steps[n].stage = "promote")
=============================================================================
