--------------------------- MODULE Campaign_proofs ---------------------------
(* Theorems of Campaign, for any budget, patience, target and number of    *)
(* iterations, any objects, and any number of crashes, failed stages,      *)
(* stops and steps.                                                        *)
EXTENDS Campaign, FiniteSetTheorems, SequenceTheorems, WellFoundedInduction, TLAPS

-------------------------------------------------------------------------------
(* Types. *)

JobType == [status : {"pending", "running"} \cup JobsEnd, value : Nat, iteration : Nat]
HistoryType == [crashes : Nat, fails : Nat, stops : Nat]
Blank == Idle.seen
CallType == [at : {"off", "run", "queued"}, step : Nat, seen : Step \cup {Blank},
             was : Row \cup {Blank}, now : Row \cup {Blank}, job : Nat]

\* What a session k holds while its call is in flight: a step and a row of the campaign.
Holds(k, opened, queued) ==
  k.at # "off" => /\ k.step \in 1 .. opened /\ k.job \in 0 .. queued
                  /\ k.seen \in Step /\ k.seen.job \in 0 .. queued
                  /\ k.was \in Row /\ k.now \in Row

\* The rows: a step names a retrain that was enqueued.
RowsOK == /\ camp \in Row /\ steps \in Seq(Step)
          /\ \A n \in 1 .. Len(steps) : steps[n].job \in 0 .. Len(jobs)
CallsOK == call \in [Driver -> CallType] /\ \A d \in Driver : Holds(call[d], Len(steps), Len(jobs))
JobsOK == jobs \in Seq(JobType)
AroundOK == reviewed \subseteq Object /\ history \in HistoryType

TypeInv == RowsOK /\ CallsOK /\ JobsOK /\ AroundOK

LEMMA StageIs == Stage = {"mine", "judge", "label", "train", "evaluate", "promote"}
<1>1. DOMAIN Stages = 1 .. 6 BY DEF Stages
<1>2. /\ Stages[1] = "mine" /\ Stages[2] = "judge" /\ Stages[3] = "label"
      /\ Stages[4] = "train" /\ Stages[5] = "evaluate" /\ Stages[6] = "promote"
  BY DEF Stages
<1>3. 1 .. 6 = {1, 2, 3, 4, 5, 6} OBVIOUS
<1> QED BY <1>1, <1>2, <1>3 DEF Stage

\* A flush writes a row of the same shape, column by column.
LEMMA FlushStep ==
  ASSUME NEW row \in Step, NEW loaded \in Step, NEW current \in Step
  PROVE  /\ Flush(row, loaded, current) \in Step
         /\ Flush(row, loaded, current).job \in {row.job, current.job}
BY DEF Step, Flush

LEMMA FlushRow ==
  ASSUME NEW row \in Row, NEW loaded \in Row, NEW current \in Row
  PROVE  Flush(row, loaded, current) \in Row
BY DEF Row, Flush

LEMMA FlushFresh ==
  ASSUME NEW row \in Step, NEW current \in Step
  PROVE  Flush(row, row, current) = current
BY DEF Step, Flush

LEMMA FlushColumns ==
  ASSUME NEW row \in Row, NEW loaded \in Row, NEW current \in Row,
         loaded.iteration = row.iteration, loaded.spent = row.spent
  PROVE  /\ Flush(row, loaded, current).iteration = current.iteration
         /\ Flush(row, loaded, current).spent = current.spent
         /\ Flush(row, loaded, current).status \in {row.status, current.status}
BY DEF Row, Flush

\* A set of positions has a last one.
LEMMA Last ==
  ASSUME NEW N \in Nat, NEW S \in SUBSET (1 .. N), S # {}
  PROVE  Latest(S) \in S /\ \A m \in S : m <= Latest(S)
<1> DEFINE Down == {N - n : n \in S}
<1>0. \A n \in S : n \in Nat /\ N - n \in Nat OBVIOUS
<1>1. Down \in SUBSET Nat /\ Down # {} BY <1>0
<1>2. PICK u \in Down : \A v \in Down : ~(<<v, u>> \in OpToRel(<, Nat))
  <2> HIDE DEF Down
  <2> QED BY <1>1, NatLessThanWellFounded, WFMin
<1>3. \A v \in Down : ~(v < u) BY <1>1, <1>2 DEF OpToRel
<1>4. PICK n \in S : u = N - n OBVIOUS
<1>5. ASSUME NEW m \in S PROVE m <= n
  <2>1. N - m \in Down OBVIOUS
  <2>2. ~(N - m < u) BY <1>3, <2>1
  <2> QED BY <1>0, <1>4, <2>2
<1> QED BY <1>5 DEF Latest

LEMMA TypeFacts ==
  ASSUME TypeInv
  PROVE  /\ camp \in Row /\ steps \in Seq(Step) /\ DOMAIN steps = 1 .. Len(steps) /\ Len(steps) \in Nat
         /\ \A n \in 1 .. Len(steps) : steps[n] \in Step /\ steps[n].job \in 0 .. Len(jobs)
         /\ jobs \in Seq(JobType) /\ DOMAIN jobs = 1 .. Len(jobs) /\ Len(jobs) \in Nat
         /\ \A k \in 1 .. Len(jobs) : jobs[k] \in JobType
         /\ \A d \in Driver : call[d] \in CallType /\ Holds(call[d], Len(steps), Len(jobs))
<1>1. steps \in Seq(Step) /\ jobs \in Seq(JobType) BY DEF TypeInv, RowsOK, JobsOK
<1>2. DOMAIN steps = 1 .. Len(steps) /\ Len(steps) \in Nat BY <1>1, LenProperties
<1>3. DOMAIN jobs = 1 .. Len(jobs) /\ Len(jobs) \in Nat BY <1>1, LenProperties
<1>4. \A n \in 1 .. Len(steps) : steps[n] \in Step BY <1>1, ElementOfSeq
<1>5. \A k \in 1 .. Len(jobs) : jobs[k] \in JobType BY <1>1, ElementOfSeq
<1> QED BY <1>1, <1>2, <1>3, <1>4, <1>5 DEF TypeInv, RowsOK, CallsOK

LEMMA NewStepFacts ==
  ASSUME NEW i \in Nat, NEW stage \in Stage
  PROVE  /\ NewStep(i, stage) \in Step /\ NewStep(i, stage).job = NoJob
         /\ NewStep(i, stage).iteration = i /\ NewStep(i, stage).stage = stage
         /\ NewStep(i, stage).status = "running" /\ NewStep(i, stage).objects = {}
BY DEF NewStep, Step, NoJob, NoValue

LEMMA StartedFacts ==
  ASSUME NEW c \in Row
  PROVE  /\ Started(c) \in Row /\ Started(c).spent = c.spent /\ AtLeast1(c.iteration) \in Nat \ {0}
         /\ c.status = "pending" => Started(c).status = "running"
                                     /\ Started(c).iteration = AtLeast1(c.iteration)
         /\ c.status # "pending" => Started(c) = c
<1> DEFINE i == AtLeast1(c.iteration)
<1>1. i \in Nat \ {0} BY DEF AtLeast1, Row
<1>2. c.status = "pending" => Started(c) = [c EXCEPT !.status = "running", !.iteration = i]
  BY DEF Started
<1>3. c.status # "pending" => Started(c) = c BY DEF Started
<1> HIDE DEF i
<1> QED BY <1>1, <1>2, <1>3 DEF Row, i

\* One more step, or one step rewritten.
LEMMA AppendFacts ==
  ASSUME TypeInv, NEW s \in Step, s.job \in 0 .. Len(jobs), steps' = Append(steps, s)
  PROVE  /\ steps' \in Seq(Step) /\ Len(steps') = Len(steps) + 1
         /\ steps'[Len(steps) + 1] = s /\ \A n \in 1 .. Len(steps) : steps'[n] = steps[n]
         /\ \A n \in 1 .. Len(steps') : steps'[n].job \in 0 .. Len(jobs)
<1>1. steps \in Seq(Step) /\ Len(steps) \in Nat BY TypeFacts
<1>2. /\ steps' \in Seq(Step) /\ Len(steps') = Len(steps) + 1
      /\ steps'[Len(steps) + 1] = s /\ \A n \in 1 .. Len(steps) : steps'[n] = steps[n]
  BY <1>1, AppendProperties
<1> QED BY <1>1, <1>2, TypeFacts

LEMMA RewriteFacts ==
  ASSUME TypeInv, NEW s \in Step, s.job \in 0 .. Len(jobs), NEW n \in 1 .. Len(steps),
         steps' = [steps EXCEPT ![n] = s]
  PROVE  /\ steps' \in Seq(Step) /\ Len(steps') = Len(steps)
         /\ steps'[n] = s /\ \A m \in 1 .. Len(steps) : m # n => steps'[m] = steps[m]
         /\ \A m \in 1 .. Len(steps') : steps'[m].job \in 0 .. Len(jobs)
<1>1. steps \in Seq(Step) BY TypeFacts
<1>2. /\ steps' \in Seq(Step) /\ Len(steps') = Len(steps)
      /\ \A m \in 1 .. Len(steps) : steps'[m] = IF m = n THEN s ELSE steps[m]
  BY <1>1, ExceptSeq
<1> QED BY <1>2, TypeFacts

\* One call changes.
Alone(d) == \A e \in Driver : e # d => call'[e] = call[e]

LEMMA CallChanges ==
  ASSUME TypeInv, NEW d \in Driver, NEW k \in CallType, call' = [call EXCEPT ![d] = k],
         Len(steps') \in Nat, Len(steps') >= Len(steps), Len(jobs') \in Nat, Len(jobs') >= Len(jobs),
         Holds(k, Len(steps'), Len(jobs'))
  PROVE  CallsOK' /\ call'[d] = k /\ Alone(d)
<1>1. call \in [Driver -> CallType] BY DEF TypeInv, CallsOK
<1>2. call' \in [Driver -> CallType] /\ call'[d] = k /\ Alone(d) BY <1>1 DEF Alone
<1>3. ASSUME NEW e \in Driver PROVE Holds(call'[e], Len(steps'), Len(jobs'))
  <2>1. CASE e = d BY <1>2, <2>1
  <2>2. CASE e # d
    <3>1. call'[e] = call[e] /\ Holds(call[e], Len(steps), Len(jobs))
      BY <1>2, <2>2, TypeFacts DEF Alone
    <3> QED BY <3>1, TypeFacts DEF Holds
  <2> QED BY <2>1, <2>2
<1> QED BY <1>2, <1>3 DEF CallsOK

LEMMA IdleFacts == Idle \in CallType /\ Idle.at = "off"
<1> DEFINE seen == Idle.seen
<1>1. Idle.was = seen /\ Idle.now = seen BY DEF Idle
<1>2. Idle.at = "off" /\ Idle.step \in Nat /\ Idle.job \in Nat BY DEF Idle, NoJob
<1>3. Idle = [at |-> Idle.at, step |-> Idle.step, seen |-> seen, was |-> seen, now |-> seen,
              job |-> Idle.job]
  BY DEF Idle
<1> HIDE DEF seen
<1> QED BY <1>1, <1>2, <1>3 DEF CallType, Blank, seen

LEMMA OpenStepsFacts ==
  ASSUME TypeInv, NEW c, NEW stage
  PROVE  /\ OpenSteps(c, stage) \in SUBSET (1 .. Len(steps))
         /\ OpenSteps(c, stage) # {} => Latest(OpenSteps(c, stage)) \in OpenSteps(c, stage)
<1>1. OpenSteps(c, stage) \in SUBSET (1 .. Len(steps)) BY TypeFacts DEF OpenSteps, StepsOf
<1> QED BY <1>1, TypeFacts, Last

-------------------------------------------------------------------------------
(* What each action does. *)

LEMMA RunStageFacts ==
  ASSUME TypeInv, NEW d \in Driver, NEW stage \in Stage, RunStage(d, stage)
  PROVE  LET c == Started(camp)
             open == OpenSteps(c, stage) IN
         /\ RowsOK' /\ CallsOK' /\ UNCHANGED <<jobs, reviewed, history>> /\ Alone(d)
         /\ call'[d].at = "run" /\ call'[d].seen = steps'[call'[d].step]
         /\ call'[d].step \in 1 .. Len(steps') /\ call'[d].was = camp' /\ call'[d].now = c
         /\ \/ /\ open = {} /\ camp' = c /\ call'[d].step = Len(steps) + 1
               /\ steps' = Append(steps, NewStep(c.iteration, stage))
            \/ /\ open # {} /\ camp' = camp /\ call'[d].step = Latest(open) /\ steps' = steps
<1> DEFINE c == Started(camp)
           open == OpenSteps(c, stage)
           n == IF open = {} THEN Len(steps) + 1 ELSE Latest(open)
           seen == steps'[n]
           was == camp'
           k == [at |-> "run", step |-> n, seen |-> seen, was |-> was, now |-> c, job |-> NoJob]
<1>1. /\ steps' = IF open = {} THEN Append(steps, NewStep(c.iteration, stage)) ELSE steps
      /\ camp' = IF open = {} THEN c ELSE camp
      /\ call' = [call EXCEPT ![d] = k]
      /\ UNCHANGED <<jobs, reviewed, history>>
  BY DEF RunStage
<1>2. c \in Row /\ c.iteration \in Nat /\ camp \in Row BY TypeFacts, StartedFacts DEF Row
<1>3. camp' \in Row BY <1>1, <1>2
<1>4. /\ steps' \in Seq(Step) /\ Len(steps') \in Nat /\ Len(steps') >= Len(steps)
      /\ n \in 1 .. Len(steps') /\ \A m \in 1 .. Len(steps') : steps'[m].job \in 0 .. Len(jobs)
  <2>1. CASE open = {}
    <3>1. steps' = Append(steps, NewStep(c.iteration, stage)) /\ n = Len(steps) + 1 BY <1>1, <2>1
    <3>2. /\ NewStep(c.iteration, stage) \in Step
          /\ NewStep(c.iteration, stage).job \in 0 .. Len(jobs)
      BY <1>2, NewStepFacts, TypeFacts DEF NoJob
    <3> HIDE DEF n
    <3> QED BY <3>1, <3>2, TypeFacts, AppendFacts
  <2>2. CASE open # {}
    <3>1. steps' = steps /\ n = Latest(open) BY <1>1, <2>2
    <3>2. open \in SUBSET (1 .. Len(steps)) /\ Latest(open) \in open BY <2>2, OpenStepsFacts
    <3> HIDE DEF n, open
    <3>3. n \in 1 .. Len(steps) BY <3>1, <3>2
    <3>4. steps \in Seq(Step) /\ Len(steps) \in Nat
          /\ \A m \in 1 .. Len(steps) : steps[m].job \in 0 .. Len(jobs)
      BY TypeFacts
    <3> QED BY <3>1, <3>3, <3>4
  <2> QED BY <2>1, <2>2
<1>5. seen \in Step /\ seen.job \in 0 .. Len(jobs) BY <1>4, ElementOfSeq
<1>6. /\ k.at = "run" /\ k.step = n /\ k.seen = seen /\ k.was = was /\ k.now = c /\ k.job = NoJob
      /\ k \in CallType
  <2> HIDE DEF n, seen, was, c
  <2> QED BY <1>2, <1>3, <1>4, <1>5 DEF CallType, NoJob, was
<1>7. jobs' = jobs BY <1>1
<1> HIDE DEF k, n, seen, c
<1>8. Holds(k, Len(steps'), Len(jobs'))
  BY <1>2, <1>3, <1>4, <1>5, <1>6, <1>7, TypeFacts DEF Holds, NoJob
<1>9. CallsOK' /\ call'[d] = k /\ Alone(d)
  <2>1. Len(jobs') \in Nat /\ Len(jobs') >= Len(jobs) BY <1>7, TypeFacts
  <2>2. k \in CallType /\ call' = [call EXCEPT ![d] = k] BY <1>1, <1>6 DEF k
  <2> QED BY <1>4, <1>8, <2>1, <2>2, CallChanges
<1>10. RowsOK' BY <1>3, <1>4, <1>7 DEF RowsOK
<1>11. n \in 1 .. Len(steps') /\ seen = steps'[n] /\ was = camp' BY <1>4 DEF seen
<1>12. (open = {} => n = Len(steps) + 1) /\ (open # {} => n = Latest(open)) BY DEF n
<1> QED BY <1>1, <1>6, <1>9, <1>10, <1>11, <1>12 DEF c

\* A person is asked: the step waits for approval.
LEMMA AskFacts ==
  ASSUME TypeInv, NEW stage \in Stage, AskApproval(stage)
  PROVE  LET open == OpenSteps(camp, stage)
             i == AtLeast1(camp.iteration) IN
         /\ RowsOK' /\ CallsOK' /\ UNCHANGED <<camp, call, jobs, reviewed, history>>
         /\ \/ /\ open = {}
               /\ \E s \in Step : /\ steps' = Append(steps, s) /\ s.status = "waiting"
                                  /\ s.iteration = i /\ s.stage = stage /\ s.objects = {}
                                  /\ s.job = NoJob
            \/ /\ open # {} /\ Latest(open) \in 1 .. Len(steps)
               /\ \E s \in Step : /\ steps' = [steps EXCEPT ![Latest(open)] = s]
                                  /\ s.status = "waiting"
                                  /\ s.iteration = steps[Latest(open)].iteration
                                  /\ s.stage = steps[Latest(open)].stage
                                  /\ s.objects = steps[Latest(open)].objects
                                  /\ s.job = steps[Latest(open)].job
<1> DEFINE open == OpenSteps(camp, stage)
           i == AtLeast1(camp.iteration)
           n == Latest(open)
           asked(s) == [s EXCEPT !.status = "waiting", !.awaiting = "approval"]
<1>1. /\ steps' = IF open = {} THEN Append(steps, asked(NewStep(i, stage)))
                  ELSE [steps EXCEPT ![n] = asked(steps[n])]
      /\ UNCHANGED <<camp, call, jobs, reviewed, history>>
  BY OpenStepsFacts, TypeFacts DEF AskApproval
<1>2. ASSUME NEW s \in Step
      PROVE  /\ asked(s) \in Step /\ asked(s).status = "waiting" /\ asked(s).iteration = s.iteration
             /\ asked(s).stage = s.stage /\ asked(s).objects = s.objects /\ asked(s).job = s.job
  BY <1>2 DEF Step
<1> HIDE DEF asked
<1>3. i \in Nat BY TypeFacts, StartedFacts
<1>4. ASSUME Len(steps') \in Nat, Len(steps') >= Len(steps), steps' \in Seq(Step),
             \A m \in 1 .. Len(steps') : steps'[m].job \in 0 .. Len(jobs)
      PROVE  RowsOK' /\ CallsOK'
  <2>1. RowsOK' BY <1>1, <1>4, TypeFacts DEF RowsOK
  <2>2. CallsOK'
    BY <1>1, <1>4, TypeFacts DEF TypeInv, CallsOK, Holds
  <2> QED BY <2>1, <2>2
<1>5. CASE open = {}
  <2> DEFINE s == asked(NewStep(i, stage))
  <2>1. /\ s \in Step /\ s.status = "waiting" /\ s.iteration = i /\ s.stage = stage
        /\ s.objects = {} /\ s.job = NoJob
    BY <1>2, <1>3, NewStepFacts
  <2>2. steps' = Append(steps, s) BY <1>1, <1>5
  <2> HIDE DEF s
  <2>3. RowsOK' /\ CallsOK' BY <1>4, <2>1, <2>2, AppendFacts, TypeFacts DEF NoJob
  <2> QED BY <1>1, <1>5, <2>1, <2>2, <2>3
<1>6. CASE open # {}
  <2> DEFINE s == asked(steps[n])
  <2>1. n \in 1 .. Len(steps) BY <1>6, OpenStepsFacts
  <2>2. steps[n] \in Step /\ steps[n].job \in 0 .. Len(jobs) BY <2>1, TypeFacts
  <2>3. /\ s \in Step /\ s.status = "waiting" /\ s.iteration = steps[n].iteration
        /\ s.stage = steps[n].stage /\ s.objects = steps[n].objects /\ s.job = steps[n].job
    BY <1>2, <2>2
  <2>4. steps' = [steps EXCEPT ![n] = s] BY <1>1, <1>6
  <2> HIDE DEF s, n
  <2>5. RowsOK' /\ CallsOK' BY <1>4, <2>1, <2>2, <2>3, <2>4, RewriteFacts, TypeFacts
  <2> QED BY <1>1, <1>6, <2>1, <2>3, <2>4, <2>5 DEF n
<1> QED BY <1>5, <1>6

\* A call ends.
LEMMA OutcomeFacts ==
  ASSUME TypeInv, NEW d \in Driver, call[d].at # "off", NEW step \in Step, NEW c \in Row,
         step.job \in 0 .. Len(jobs), Outcome(d, step, c), jobs' = jobs
  PROVE  LET n == call[d].step IN
         /\ RowsOK' /\ CallsOK' /\ Alone(d) /\ call'[d] = Idle
         /\ n \in 1 .. Len(steps) /\ Len(steps') = Len(steps)
         /\ steps'[n] = Flush(steps[n], call[d].seen, step)
         /\ \A m \in 1 .. Len(steps) : m # n => steps'[m] = steps[m]
         /\ camp' = Flush(camp, call[d].was, c)
<1> DEFINE n == call[d].step
           s == Flush(steps[n], call[d].seen, step)
<1>1. /\ n \in 1 .. Len(steps) /\ call[d].seen \in Step /\ call[d].was \in Row
      /\ steps[n] \in Step /\ steps[n].job \in 0 .. Len(jobs)
  BY TypeFacts DEF Holds
<1>2. steps' = [steps EXCEPT ![n] = s] /\ call' = [call EXCEPT ![d] = Idle]
      /\ camp' = Flush(camp, call[d].was, c)
  BY DEF Outcome
<1>3. s \in Step /\ s.job \in 0 .. Len(jobs) BY <1>1, FlushStep
<1> HIDE DEF s, n
<1>4. /\ steps' \in Seq(Step) /\ Len(steps') = Len(steps)
      /\ steps'[n] = s /\ \A m \in 1 .. Len(steps) : m # n => steps'[m] = steps[m]
      /\ \A m \in 1 .. Len(steps') : steps'[m].job \in 0 .. Len(jobs)
  BY <1>1, <1>2, <1>3, RewriteFacts
<1>5. camp' \in Row BY <1>1, <1>2, FlushRow, TypeFacts
<1>6. RowsOK' BY <1>4, <1>5 DEF RowsOK
<1>7. Holds(Idle, Len(steps'), Len(jobs')) BY IdleFacts DEF Holds
<1>8. CallsOK' /\ call'[d] = Idle /\ Alone(d)
  <2> DEFINE k == Idle
  <2>1. k \in CallType /\ Holds(k, Len(steps'), Len(jobs')) /\ call' = [call EXCEPT ![d] = k]
    BY <1>2, <1>7, IdleFacts
  <2> HIDE DEF k
  <2>2. /\ Len(jobs') \in Nat /\ Len(jobs') >= Len(jobs)
        /\ Len(steps') \in Nat /\ Len(steps') >= Len(steps)
    BY <1>4, TypeFacts
  <2>3. CallsOK' /\ call'[d] = k /\ Alone(d) BY <2>1, <2>2, CallChanges
  <2> QED BY <2>3 DEF k
<1> QED BY <1>1, <1>2, <1>4, <1>6, <1>8 DEF s, n

\* What a handler leaves on its step: it never moves the step to another stage or iteration.
Kept(old, new) == new.iteration = old.iteration /\ new.stage = old.stage

LEMMA DoneFacts ==
  ASSUME NEW s \in Step
  PROVE  /\ Done(s) \in Step /\ Kept(s, Done(s)) /\ Done(s).status = "done"
         /\ Done(s).objects = s.objects /\ Done(s).job = s.job
BY DEF Done, Step, Kept

LEMMA WaitingFacts ==
  ASSUME NEW s \in Step, NEW on \in {"review", "gpu", "retrain"}
  PROVE  /\ Waiting(s, on) \in Step /\ Kept(s, Waiting(s, on)) /\ Waiting(s, on).status = "waiting"
         /\ Waiting(s, on).objects = s.objects /\ Waiting(s, on).job = s.job
BY DEF Waiting, Step, Kept

LEMMA LastStepFacts ==
  ASSUME TypeInv, NEW c \in Row, NEW stage \in Stage
  PROVE  LastStep(c, stage) \in Step
<1> DEFINE S == {n \in StepsOf(c.iteration) : steps[n].stage = stage}
<1>1. S \in SUBSET (1 .. Len(steps)) BY TypeFacts DEF StepsOf
<1>2. CASE S = {}
  <2>1. LastStep(c, stage) = NewStep(AtLeast1(c.iteration), stage) BY <1>2 DEF LastStep
  <2>2. AtLeast1(c.iteration) \in Nat BY StartedFacts
  <2> QED BY <2>1, <2>2, NewStepFacts
<1>3. CASE S # {}
  <2>1. LastStep(c, stage) = steps[Latest(S)] BY <1>3 DEF LastStep
  <2> HIDE DEF S
  <2>2. Latest(S) \in S BY <1>1, <1>3, Last, TypeFacts
  <2> QED BY <1>1, <2>1, <2>2, TypeFacts
<1> QED BY <1>2, <1>3

\* The step and the row that a call holds.
LEMMA HeldFacts ==
  ASSUME TypeInv, NEW d \in Driver, call[d].at # "off"
  PROVE  /\ call[d].seen \in Step /\ call[d].was \in Row /\ call[d].now \in Row
         /\ call[d].seen.job \in 0 .. Len(jobs) /\ call[d].job \in 0 .. Len(jobs)
         /\ call[d].step \in 1 .. Len(steps) /\ call[d] \in CallType
BY TypeFacts DEF Holds

\* A handler that ends without a word on the campaign's row.
Leaves(d, step, c) ==
  /\ step \in Step /\ c \in Row /\ step.job \in 0 .. Len(jobs) /\ Kept(call[d].seen, step)
  /\ call[d].at # "off" /\ Outcome(d, step, c)
  /\ UNCHANGED <<jobs, reviewed>>

LEMMA MineFacts ==
  ASSUME TypeInv, NEW d \in Driver, Mine(d)
  PROVE  \E step, c : /\ Leaves(d, step, c) /\ c = call[d].now /\ step.status = "done"
                      /\ step.objects \subseteq Object \ reviewed /\ step.job = call[d].seen.job
                      /\ call[d].seen.stage = "mine" /\ call[d].at = "run" /\ history' = history
<1> DEFINE c == call[d].now
           pool == Object \ reviewed
           mined == {o \in pool : Cardinality({p \in pool : p < o}) < SliceSize(c)}
           s == Done(call[d].seen)
           step == [s EXCEPT !.objects = mined]
<1>1. /\ call[d].at = "run" /\ call[d].seen.stage = "mine" /\ Outcome(d, step, c)
      /\ UNCHANGED <<jobs, reviewed, history>>
  BY DEF Mine, Runs
<1>2. /\ call[d].seen \in Step /\ c \in Row /\ call[d].seen.job \in 0 .. Len(jobs)
  BY <1>1, HeldFacts
<1>3. /\ s \in Step /\ Kept(call[d].seen, s) /\ s.status = "done" /\ s.job = call[d].seen.job
  BY <1>2, DoneFacts
<1>4. mined \in SUBSET Object /\ mined \subseteq Object \ reviewed OBVIOUS
<1> HIDE DEF mined, s
<1>5. /\ step \in Step /\ step.status = "done" /\ step.objects = mined /\ step.job = s.job
      /\ step.iteration = s.iteration /\ step.stage = s.stage
  BY <1>3, <1>4 DEF Step
<1> HIDE DEF step
<1>6. Kept(call[d].seen, step) BY <1>3, <1>5 DEF Kept
<1>7. Leaves(d, step, c) BY <1>1, <1>2, <1>3, <1>5, <1>6 DEF Leaves
<1> QED BY <1>1, <1>3, <1>4, <1>5, <1>7

LEMMA JudgeFacts ==
  ASSUME TypeInv, NEW d \in Driver, Judge(d)
  PROVE  \E step, c : /\ Leaves(d, step, c) /\ c = call[d].now /\ step.status = "done"
                      /\ step.objects = call[d].seen.objects /\ step.job = call[d].seen.job
                      /\ call[d].seen.stage = "judge" /\ call[d].at = "run" /\ history' = history
<1> DEFINE step == Done(call[d].seen)
<1>1. /\ call[d].at = "run" /\ call[d].seen.stage = "judge" /\ Outcome(d, step, call[d].now)
      /\ UNCHANGED <<jobs, reviewed, history>>
  BY DEF Judge, Runs
<1>2. call[d].seen \in Step /\ call[d].now \in Row /\ call[d].seen.job \in 0 .. Len(jobs)
  BY <1>1, HeldFacts
<1>3. /\ step \in Step /\ Kept(call[d].seen, step) /\ step.status = "done"
      /\ step.objects = call[d].seen.objects /\ step.job = call[d].seen.job
  BY <1>2, DoneFacts
<1> HIDE DEF step
<1>4. Leaves(d, step, call[d].now) BY <1>1, <1>2, <1>3 DEF Leaves
<1> QED BY <1>1, <1>3, <1>4

\* The batch it counts is the one that was mined last, and a person has decided all of it.
LEMMA LabelFacts ==
  ASSUME TypeInv, NEW d \in Driver, Label(d)
  PROVE  LET objects == LastStep(call[d].now, "mine").objects IN
         \E step, c : /\ Leaves(d, step, c)
                      /\ step.objects = call[d].seen.objects /\ step.job = call[d].seen.job
                      /\ call[d].seen.stage = "label" /\ call[d].at = "run" /\ history' = history
                      /\ \/ step.status = "waiting" /\ c = call[d].now
                         \/ /\ step.status = "done" /\ objects \subseteq reviewed
                            /\ c.iteration = call[d].now.iteration
                            /\ c.spent = call[d].now.spent + Cardinality(objects)
                            /\ c.status = call[d].now.status
<1> DEFINE now == call[d].now
           objects == LastStep(now, "mine").objects
<1>1. call[d].at = "run" /\ call[d].seen.stage = "label" /\ UNCHANGED <<jobs, reviewed, history>>
  BY DEF Label, Runs
<1>2. call[d].seen \in Step /\ now \in Row /\ call[d].seen.job \in 0 .. Len(jobs)
  BY <1>1, HeldFacts
<1>3. objects \subseteq Object /\ Cardinality(objects) \in Nat
  <2>1. LastStep(now, "mine") \in Step BY <1>2, LastStepFacts, StageIs
  <2>2. objects \subseteq Object BY <2>1 DEF Step
  <2> QED BY <2>2, CampaignAssumption, FS_Subset, FS_CardinalityType
<1>4. CASE Pending(objects)
  <2> DEFINE step == Waiting(call[d].seen, "review")
  <2>1. Outcome(d, step, now) BY <1>4 DEF Label
  <2>2. /\ step \in Step /\ Kept(call[d].seen, step) /\ step.status = "waiting"
        /\ step.objects = call[d].seen.objects /\ step.job = call[d].seen.job
    BY <1>2, WaitingFacts
  <2> HIDE DEF step
  <2>3. Leaves(d, step, now) BY <1>1, <1>2, <2>1, <2>2 DEF Leaves
  <2> QED BY <1>1, <2>2, <2>3
<1>5. CASE ~Pending(objects)
  <2> DEFINE step == Done(call[d].seen)
             c == Spend(now, objects)
  <2>1. Outcome(d, step, c) BY <1>5 DEF Label
  <2>2. /\ step \in Step /\ Kept(call[d].seen, step) /\ step.status = "done"
        /\ step.objects = call[d].seen.objects /\ step.job = call[d].seen.job
    BY <1>2, DoneFacts
  <2>3. /\ c \in Row /\ c.iteration = now.iteration /\ c.status = now.status
        /\ c.spent = now.spent + Cardinality(objects)
    <3> DEFINE k == Cardinality(objects)
    <3>1. c = [now EXCEPT !.spent = now.spent + k] BY <1>2 DEF Spend, Row
    <3> HIDE DEF k, now, c
    <3>2. now.spent + k \in Nat BY <1>2, <1>3 DEF Row, k
    <3>3. /\ c \in Row /\ c.iteration = now.iteration /\ c.status = now.status
          /\ c.spent = now.spent + k
      BY <1>2, <3>1, <3>2 DEF Row
    <3> QED BY <3>3 DEF k
  <2>4. objects \subseteq reviewed BY <1>5 DEF Pending
  <2> HIDE DEF step, c
  <2>5. Leaves(d, step, c) BY <1>1, <1>2, <2>1, <2>2, <2>3 DEF Leaves
  <2> QED BY <1>1, <2>2, <2>3, <2>4, <2>5
<1> QED BY <1>4, <1>5

\* It waits, or the retrain is done; the statuses a retrain ends with are not those it calls failed.
LEMMA TrainFacts ==
  ASSUME TypeInv, NEW d \in Driver, TrainPoll(d) \/ TrainWaitsGpu(d)
  PROVE  \E step, c : /\ Leaves(d, step, c) /\ c = call[d].now
                      /\ step.status \in {"waiting", "done"}
                      /\ step.objects = call[d].seen.objects /\ step.job = call[d].seen.job
                      /\ call[d].seen.stage = "train" /\ call[d].at = "run" /\ history' = history
<1> DEFINE seen == call[d].seen
           now == call[d].now
<1>1. call[d].at = "run" /\ seen.stage = "train" /\ UNCHANGED <<jobs, reviewed, history>>
  BY DEF TrainPoll, TrainWaitsGpu, Runs
<1>2. seen \in Step /\ now \in Row /\ seen.job \in 0 .. Len(jobs)
  BY <1>1, HeldFacts
<1>3. ASSUME NEW on \in {"gpu", "retrain"}, Outcome(d, Waiting(seen, on), now)
      PROVE  \E step, c : /\ Leaves(d, step, c) /\ c = now /\ step.status \in {"waiting", "done"}
                          /\ step.objects = seen.objects /\ step.job = seen.job
  <2> DEFINE step == Waiting(seen, on)
  <2>1. /\ step \in Step /\ Kept(seen, step) /\ step.status = "waiting"
        /\ step.objects = seen.objects /\ step.job = seen.job
    BY <1>2, WaitingFacts
  <2>2. Outcome(d, step, now) BY <1>3
  <2> HIDE DEF step
  <2>3. Leaves(d, step, now) BY <1>1, <1>2, <2>1, <2>2 DEF Leaves
  <2> QED BY <2>1, <2>3
<1>4. CASE TrainWaitsGpu(d)
  <2>1. Outcome(d, Waiting(seen, "gpu"), now) BY <1>4 DEF TrainWaitsGpu
  <2> QED BY <1>1, <1>3, <2>1
<1>5. CASE TrainPoll(d) /\ ~Ended(jobs[seen.job].status)
  <2>1. Outcome(d, Waiting(seen, "retrain"), now) BY <1>5 DEF TrainPoll
  <2> QED BY <1>1, <1>3, <2>1
<1>6. CASE TrainPoll(d) /\ Ended(jobs[seen.job].status)
  <2> DEFINE job == jobs[seen.job]
             s == Done(seen)
             status == IF job.status = "done" THEN "done" ELSE "failed"
             value == job.value
             step == [s EXCEPT !.status = status, !.value = value]
  <2>1. Outcome(d, step, now) BY <1>6 DEF TrainPoll
  <2>2. job \in JobType
    <3>1. seen.job \in 1 .. Len(jobs) BY <1>2, <1>6, TypeFacts DEF TrainPoll, NoJob
    <3> QED BY <3>1, TypeFacts
  <2>3. status = "done"
    <3>1. job.status \in {"pending", "running", "done", "error", "canceled"}
      BY <2>2, CampaignAssumption DEF JobType
    <3> QED BY <1>6, <3>1 DEF Ended
  <2>4. s \in Step /\ Kept(seen, s) /\ s.objects = seen.objects /\ s.job = seen.job
    BY <1>2, DoneFacts
  <2>5. value \in Nat BY <2>2 DEF JobType
  <2> HIDE DEF s, status, value
  <2>6. /\ step \in Step /\ step.status = "done" /\ step.objects = s.objects /\ step.job = s.job
        /\ step.iteration = s.iteration /\ step.stage = s.stage
    BY <2>3, <2>4, <2>5 DEF Step
  <2> HIDE DEF step
  <2>7. Kept(seen, step) BY <2>4, <2>6 DEF Kept
  <2>8. Leaves(d, step, now) BY <1>1, <1>2, <2>1, <2>4, <2>6, <2>7 DEF Leaves
  <2> QED BY <1>1, <2>4, <2>6, <2>8
<1> QED BY <1>4, <1>5, <1>6

LEMMA RecordJobFacts ==
  ASSUME TypeInv, NEW d \in Driver, RecordJob(d)
  PROVE  \E step, c : /\ Leaves(d, step, c) /\ c = call[d].now /\ step.status = "waiting"
                      /\ step.objects = call[d].seen.objects /\ step.job = call[d].job
                      /\ call[d].at = "queued" /\ history' = history
<1> DEFINE s == Waiting(call[d].seen, "retrain")
           id == call[d].job
           step == [s EXCEPT !.job = id]
<1>1. /\ call[d].at = "queued" /\ Outcome(d, step, call[d].now) /\ UNCHANGED <<jobs, reviewed, history>>
  BY DEF RecordJob
<1>2. call[d].seen \in Step /\ call[d].now \in Row /\ id \in 0 .. Len(jobs) /\ id \in Nat
  BY <1>1, HeldFacts, TypeFacts DEF CallType
<1>3. s \in Step /\ Kept(call[d].seen, s) /\ s.status = "waiting" /\ s.objects = call[d].seen.objects
  BY <1>2, WaitingFacts
<1> HIDE DEF s, id
<1>4. /\ step \in Step /\ step.status = "waiting" /\ step.objects = s.objects /\ step.job = id
      /\ step.iteration = s.iteration /\ step.stage = s.stage
  BY <1>2, <1>3 DEF Step
<1> HIDE DEF step
<1>5. Kept(call[d].seen, step) BY <1>3, <1>4 DEF Kept
<1>6. Leaves(d, step, call[d].now) BY <1>1, <1>2, <1>4, <1>5 DEF Leaves
<1> QED BY <1>1, <1>3, <1>4, <1>6 DEF id

LEMMA EvaluateFacts ==
  ASSUME TypeInv, NEW d \in Driver, Evaluate(d)
  PROVE  \E step, c : /\ Leaves(d, step, c) /\ step.status = "done"
                      /\ c.iteration = call[d].now.iteration /\ c.spent = call[d].now.spent
                      /\ step.objects = call[d].seen.objects /\ step.job = call[d].seen.job
                      /\ call[d].seen.stage = "evaluate" /\ call[d].at = "run" /\ history' = history
<1> DEFINE now == call[d].now
           value == LastStep(now, "train").value
           step == Done(call[d].seen)
           c == Measured(now, value)
<1>1. /\ call[d].at = "run" /\ call[d].seen.stage = "evaluate" /\ Outcome(d, step, c)
      /\ UNCHANGED <<jobs, reviewed, history>>
  BY DEF Evaluate, Runs
<1>2. call[d].seen \in Step /\ now \in Row /\ call[d].seen.job \in 0 .. Len(jobs)
  BY <1>1, HeldFacts
<1>3. /\ step \in Step /\ Kept(call[d].seen, step) /\ step.status = "done"
      /\ step.objects = call[d].seen.objects /\ step.job = call[d].seen.job
  BY <1>2, DoneFacts
<1>4. value \in Nat
  <2>1. LastStep(now, "train") \in Step BY <1>2, LastStepFacts, StageIs
  <2> QED BY <2>1 DEF Step
<1>5. c \in Row /\ c.iteration = now.iteration /\ c.spent = now.spent
  <2> DEFINE best == Greatest(now.best, value)
             stalled == IF value > now.best THEN 0 ELSE now.stalled + 1
             status == IF value >= TargetValue THEN "succeeded" ELSE now.status
             m == [now EXCEPT !.best = best, !.stalled = stalled, !.status = status]
  <2>1. c = now \/ c = m BY <1>2 DEF Measured, Row
  <2>2. best \in Nat /\ stalled \in Nat /\ status \in Terminal \cup {"pending", "running", "blocked"}
    BY <1>2, <1>4 DEF Greatest, Row, Terminal
  <2> HIDE DEF best, stalled, status, c, now
  <2>3. m \in Row /\ m.iteration = now.iteration /\ m.spent = now.spent BY <1>2, <2>2 DEF Row
  <2> QED BY <1>2, <2>1, <2>3
<1> HIDE DEF step, c
<1>6. Leaves(d, step, c) BY <1>1, <1>2, <1>3, <1>5 DEF Leaves
<1> QED BY <1>1, <1>3, <1>5, <1>6

LEMMA PromoteFacts ==
  ASSUME TypeInv, NEW d \in Driver, Promote(d)
  PROVE  \E step, c : /\ Leaves(d, step, c) /\ step.status = "done" /\ c.spent = call[d].now.spent
                      /\ c.status = call[d].now.status
                      /\ call[d].now.status # "succeeded" => c.iteration = call[d].now.iteration + 1
                      /\ step.objects = call[d].seen.objects /\ step.job = call[d].seen.job
                      /\ call[d].seen.stage = "promote" /\ call[d].at = "run" /\ history' = history
<1> DEFINE now == call[d].now
           step == Done(call[d].seen)
           c == NextIteration(now)
<1>1. /\ call[d].at = "run" /\ call[d].seen.stage = "promote" /\ Outcome(d, step, c)
      /\ UNCHANGED <<jobs, reviewed, history>>
  BY DEF Promote, Runs
<1>2. call[d].seen \in Step /\ now \in Row /\ call[d].seen.job \in 0 .. Len(jobs)
  BY <1>1, HeldFacts
<1>3. /\ step \in Step /\ Kept(call[d].seen, step) /\ step.status = "done"
      /\ step.objects = call[d].seen.objects /\ step.job = call[d].seen.job
  BY <1>2, DoneFacts
<1>4. /\ c \in Row /\ c.spent = now.spent /\ c.status = now.status
      /\ now.status # "succeeded" => c.iteration = now.iteration + 1
  <2>1. c = IF now.status # "succeeded" THEN [now EXCEPT !.iteration = now.iteration + 1] ELSE now
    BY <1>2 DEF NextIteration, Row
  <2> HIDE DEF c, now
  <2> QED BY <1>2, <2>1 DEF Row
<1> HIDE DEF step, c
<1>5. Leaves(d, step, c) BY <1>1, <1>2, <1>3, <1>4 DEF Leaves
<1> QED BY <1>1, <1>3, <1>4, <1>5

LEMMA StageFailsFacts ==
  ASSUME TypeInv, NEW d \in Driver, StageFails(d)
  PROVE  \E step, c : /\ Leaves(d, step, c) /\ step.status = "failed"
                      /\ c.spent = call[d].now.spent /\ c.iteration = call[d].now.iteration
                      /\ step.objects = call[d].seen.objects /\ step.job = call[d].seen.job
                      /\ call[d].at = "run"
                      /\ history' \in HistoryType /\ history'.fails = history.fails + 1
                      /\ history'.crashes = history.crashes
<1> DEFINE step == [call[d].seen EXCEPT !.status = "failed"]
           c == [call[d].now EXCEPT !.status = "blocked"]
<1>1. /\ call[d].at = "run" /\ Outcome(d, step, c) /\ UNCHANGED <<jobs, reviewed>>
  BY DEF StageFails
<1>2. call[d].seen \in Step /\ call[d].now \in Row /\ call[d].seen.job \in 0 .. Len(jobs)
  BY <1>1, HeldFacts
<1>3. /\ step \in Step /\ Kept(call[d].seen, step) /\ step.status = "failed"
      /\ step.objects = call[d].seen.objects /\ step.job = call[d].seen.job
  BY <1>2 DEF Step, Kept
<1>4. c \in Row /\ c.spent = call[d].now.spent /\ c.iteration = call[d].now.iteration
  BY <1>2 DEF Row
<1>5. history' = [history EXCEPT !.fails = history.fails + 1] /\ history \in HistoryType
  BY DEF StageFails, TypeInv, AroundOK, HistoryType
<1>6. /\ history' \in HistoryType /\ history'.fails = history.fails + 1
      /\ history'.crashes = history.crashes
  BY <1>5 DEF HistoryType
<1> HIDE DEF step, c
<1>7. Leaves(d, step, c) BY <1>1, <1>2, <1>3, <1>4 DEF Leaves
<1> QED BY <1>1, <1>3, <1>4, <1>6, <1>7

LEMMA EnqueueFacts ==
  ASSUME TypeInv, NEW d \in Driver, Enqueue(d)
  PROVE  /\ RowsOK' /\ CallsOK' /\ JobsOK' /\ UNCHANGED <<camp, steps, reviewed, history>> /\ Alone(d)
         /\ call[d].at = "run" /\ call[d].seen.stage = "train" /\ call[d].seen.job = NoJob
         /\ call'[d].at = "queued" /\ call'[d].seen = call[d].seen /\ call'[d].step = call[d].step
         /\ call'[d].was = call[d].was /\ call'[d].now = call[d].now
         /\ call'[d].job = Len(jobs) + 1
         /\ Len(jobs') = Len(jobs) + 1 /\ \A k \in 1 .. Len(jobs) : jobs'[k] = jobs[k]
         /\ jobs'[Len(jobs) + 1].iteration = call[d].now.iteration
<1> DEFINE job == [status |-> "pending", value |-> NoValue, iteration |-> call[d].now.iteration]
           id == Len(jobs')
           k == [call[d] EXCEPT !.at = "queued", !.job = id]
<1>1. /\ call[d].at = "run" /\ call[d].seen.stage = "train" /\ call[d].seen.job = NoJob
      /\ jobs' = Append(jobs, job) /\ UNCHANGED <<camp, steps, reviewed, history>>
  BY DEF Enqueue, Runs
<1>2. /\ call[d] \in CallType /\ call[d].seen \in Step /\ call[d].was \in Row /\ call[d].now \in Row
      /\ call[d].step \in 1 .. Len(steps) /\ call[d].seen.job \in 0 .. Len(jobs)
  BY <1>1, HeldFacts
<1>3. job \in JobType /\ job.iteration = call[d].now.iteration BY <1>2 DEF JobType, Row, NoValue
<1> HIDE DEF job
<1>4. /\ jobs' \in Seq(JobType) /\ Len(jobs') = Len(jobs) + 1 /\ jobs'[Len(jobs) + 1] = job
      /\ \A j \in 1 .. Len(jobs) : jobs'[j] = jobs[j]
  BY <1>1, <1>3, TypeFacts, AppendProperties
<1>5. Len(jobs) \in Nat /\ Len(jobs') \in Nat /\ Len(jobs') >= Len(jobs) /\ id = Len(jobs) + 1
  BY <1>4, TypeFacts
<1>6. call' = [call EXCEPT ![d] = k]
  <2>1. call' = [call EXCEPT ![d].at = "queued", ![d].job = id] BY DEF Enqueue
  <2> HIDE DEF id
  <2> QED BY <2>1 DEF TypeInv, CallsOK
<1> HIDE DEF id
<1>7. /\ k \in CallType /\ k.at = "queued" /\ k.seen = call[d].seen /\ k.step = call[d].step
      /\ k.was = call[d].was /\ k.now = call[d].now /\ k.job = id
  <2> DEFINE c == call[d]
  <2>1. c \in CallType /\ id \in Nat BY <1>2, <1>5
  <2>2. k = [c EXCEPT !.at = "queued", !.job = id] OBVIOUS
  <2> HIDE DEF c, k
  <2>3. /\ k \in CallType /\ k.at = "queued" /\ k.seen = c.seen /\ k.step = c.step
        /\ k.was = c.was /\ k.now = c.now /\ k.job = id
    BY <2>1, <2>2 DEF CallType
  <2> QED BY <2>3 DEF c
<1> HIDE DEF k
<1>8. Len(steps') = Len(steps) /\ Len(steps) \in Nat BY <1>1, TypeFacts
<1>9. Holds(k, Len(steps'), Len(jobs')) BY <1>2, <1>4, <1>5, <1>7, <1>8 DEF Holds
<1>10. CallsOK' /\ call'[d] = k /\ Alone(d)
  <2>1. Len(steps') \in Nat /\ Len(steps') >= Len(steps) BY <1>8
  <2> QED BY <1>5, <1>6, <1>7, <1>9, <2>1, CallChanges
<1>11. RowsOK' BY <1>1, <1>5, TypeFacts DEF RowsOK
<1> QED BY <1>1, <1>3, <1>4, <1>5, <1>7, <1>10, <1>11 DEF JobsOK

LEMMA CrashFacts ==
  ASSUME TypeInv, NEW d \in Driver, Crash(d)
  PROVE  /\ RowsOK' /\ CallsOK' /\ UNCHANGED <<camp, steps, jobs, reviewed>> /\ Alone(d)
         /\ call'[d] = Idle /\ call[d].at # "off"
         /\ history' \in HistoryType /\ history'.crashes = history.crashes + 1
         /\ history'.fails = history.fails
<1> DEFINE k == Idle
<1>1. call' = [call EXCEPT ![d] = k] /\ UNCHANGED <<camp, steps, jobs, reviewed>> /\ call[d].at # "off"
  BY DEF Crash
<1>2. k \in CallType /\ k.at = "off" BY IdleFacts
<1> HIDE DEF k
<1>3. /\ Len(jobs') \in Nat /\ Len(jobs') >= Len(jobs)
      /\ Len(steps') \in Nat /\ Len(steps') >= Len(steps)
  BY <1>1, TypeFacts
<1>4. Holds(k, Len(steps'), Len(jobs')) BY <1>2 DEF Holds
<1>5. CallsOK' /\ call'[d] = k /\ Alone(d) BY <1>1, <1>2, <1>3, <1>4, CallChanges
<1>6. RowsOK' BY <1>1, TypeFacts DEF RowsOK
<1>7. history' = [history EXCEPT !.crashes = history.crashes + 1] /\ history \in HistoryType
  BY DEF Crash, TypeInv, AroundOK, HistoryType
<1>8. /\ history' \in HistoryType /\ history'.crashes = history.crashes + 1
      /\ history'.fails = history.fails
  BY <1>7 DEF HistoryType
<1> QED BY <1>1, <1>5, <1>6, <1>8 DEF k

LEMMA StopFacts ==
  ASSUME TypeInv, StopCampaign
  PROVE  /\ RowsOK' /\ CallsOK' /\ UNCHANGED <<call, jobs, reviewed>>
         /\ camp'.status = "stopped" /\ camp'.iteration = camp.iteration /\ camp'.spent = camp.spent
         /\ \E s \in Step : /\ steps' = Append(steps, s) /\ s.status = "stopped" /\ s.stage = "promote"
                            /\ s.iteration = camp.iteration /\ s.objects = {} /\ s.job = NoJob
         /\ history' \in HistoryType /\ history'.crashes = history.crashes
         /\ history'.fails = history.fails
<1> DEFINE s == [NewStep(camp.iteration, "promote") EXCEPT !.status = "stopped"]
<1>1. /\ camp' = [camp EXCEPT !.status = "stopped"] /\ steps' = Append(steps, s)
      /\ UNCHANGED <<call, jobs, reviewed>>
  BY DEF StopCampaign
<1>2. camp \in Row /\ camp.iteration \in Nat BY TypeFacts DEF Row
<1>3. /\ s \in Step /\ s.status = "stopped" /\ s.stage = "promote" /\ s.iteration = camp.iteration
      /\ s.objects = {} /\ s.job = NoJob
  <2> DEFINE blank == NewStep(camp.iteration, "promote")
  <2>1. "promote" \in Stage BY StageIs
  <2>2. /\ blank \in Step /\ blank.stage = "promote" /\ blank.iteration = camp.iteration
        /\ blank.objects = {} /\ blank.job = NoJob
    BY <1>2, <2>1, NewStepFacts
  <2>3. s = [blank EXCEPT !.status = "stopped"] OBVIOUS
  <2> HIDE DEF blank, s
  <2> QED BY <2>2, <2>3 DEF Step
<1>4. /\ camp' \in Row /\ camp'.status = "stopped" /\ camp'.iteration = camp.iteration
      /\ camp'.spent = camp.spent
  BY <1>1, <1>2 DEF Row, Terminal
<1> HIDE DEF s
<1>5. /\ steps' \in Seq(Step) /\ Len(steps') = Len(steps) + 1
      /\ \A n \in 1 .. Len(steps') : steps'[n].job \in 0 .. Len(jobs)
  BY <1>1, <1>3, AppendFacts, TypeFacts DEF NoJob
<1>6. RowsOK' BY <1>1, <1>4, <1>5 DEF RowsOK
<1>7. CallsOK' BY <1>1, <1>5, TypeFacts DEF TypeInv, CallsOK, Holds
<1>8. history' = [history EXCEPT !.stops = history.stops + 1] /\ history \in HistoryType
  BY DEF StopCampaign, TypeInv, AroundOK, HistoryType
<1>9. /\ history' \in HistoryType /\ history'.crashes = history.crashes
      /\ history'.fails = history.fails
  BY <1>8 DEF HistoryType
<1> QED BY <1>1, <1>3, <1>4, <1>6, <1>7, <1>9

\* A retrain runs, or ends.
LEMMA JobFacts ==
  ASSUME TypeInv, NEW k \in DOMAIN jobs, JobRuns(k) \/ JobEnds(k)
  PROVE  /\ RowsOK' /\ CallsOK' /\ JobsOK' /\ UNCHANGED <<camp, steps, call, reviewed, history>>
         /\ Len(jobs') = Len(jobs) /\ \A j \in 1 .. Len(jobs) : jobs'[j].iteration = jobs[j].iteration
<1>1. UNCHANGED <<camp, steps, call, reviewed, history>> BY DEF JobRuns, JobEnds
<1>2. k \in 1 .. Len(jobs) /\ jobs[k] \in JobType /\ jobs \in Seq(JobType) /\ Len(jobs) \in Nat
  BY TypeFacts
<1>3. \E job \in JobType : jobs' = [jobs EXCEPT ![k] = job] /\ job.iteration = jobs[k].iteration
  <2>1. CASE JobRuns(k)
    <3> DEFINE job == [jobs[k] EXCEPT !.status = "running"]
    <3>1. jobs' = [jobs EXCEPT ![k] = job] BY <2>1 DEF JobRuns
    <3>2. job \in JobType /\ job.iteration = jobs[k].iteration BY <1>2 DEF JobType
    <3> HIDE DEF job
    <3> QED BY <3>1, <3>2
  <2>2. CASE JobEnds(k)
    <3>1. PICK status \in JobsEnd, value \in Values :
            jobs' = [jobs EXCEPT ![k].status = status,
                                 ![k].value = IF status = "done" THEN value ELSE NoValue]
      BY <2>2 DEF JobEnds
    <3> DEFINE v == IF status = "done" THEN value ELSE NoValue
               job == [jobs[k] EXCEPT !.status = status, !.value = v]
    <3>2. v \in Nat BY CampaignAssumption DEF NoValue
    <3>3. jobs' = [jobs EXCEPT ![k] = job]
      <4>1. jobs' = [jobs EXCEPT ![k].status = status, ![k].value = v] BY <3>1
      <4> HIDE DEF v
      <4>2. jobs \in [1 .. Len(jobs) -> JobType] BY <1>2, LenProperties
      <4> QED BY <1>2, <4>1, <4>2
    <3> HIDE DEF v
    <3>4. job \in JobType /\ job.iteration = jobs[k].iteration BY <1>2, <3>2 DEF JobType
    <3> HIDE DEF job
    <3> QED BY <3>3, <3>4
  <2> QED BY <2>1, <2>2
<1>4. PICK job \in JobType : jobs' = [jobs EXCEPT ![k] = job] /\ job.iteration = jobs[k].iteration
  BY <1>3
<1>5. /\ jobs' \in Seq(JobType) /\ Len(jobs') = Len(jobs)
      /\ \A j \in 1 .. Len(jobs) : jobs'[j] = IF j = k THEN job ELSE jobs[j]
  BY <1>2, <1>4, ExceptSeq
<1>6. \A j \in 1 .. Len(jobs) : jobs'[j].iteration = jobs[j].iteration BY <1>4, <1>5
<1>7. RowsOK' BY <1>1, <1>5, TypeFacts DEF RowsOK
<1>8. CallsOK' BY <1>1, <1>5, TypeFacts DEF TypeInv, CallsOK
<1> QED BY <1>1, <1>5, <1>6, <1>7, <1>8 DEF JobsOK

\* What the calls leave is of its type.
LEMMA LeavesFacts ==
  ASSUME TypeInv, NEW d \in Driver, NEW step, NEW c, Leaves(d, step, c)
  PROVE  LET n == call[d].step IN
         /\ RowsOK' /\ CallsOK' /\ JobsOK' /\ reviewed' \subseteq Object
         /\ Alone(d) /\ call'[d] = Idle /\ n \in 1 .. Len(steps) /\ Len(steps') = Len(steps)
         /\ steps'[n] = Flush(steps[n], call[d].seen, step)
         /\ \A m \in 1 .. Len(steps) : m # n => steps'[m] = steps[m]
         /\ camp' = Flush(camp, call[d].was, c)
<1>1. /\ call[d].at # "off" /\ step \in Step /\ c \in Row /\ step.job \in 0 .. Len(jobs)
      /\ Outcome(d, step, c) /\ jobs' = jobs /\ reviewed' = reviewed
  BY DEF Leaves
<1>2. JobsOK' /\ reviewed' \subseteq Object BY <1>1 DEF TypeInv, JobsOK, AroundOK
<1> QED BY <1>1, <1>2, OutcomeFacts

\* The stage to do next: one that is not done, after those that are.
DoneStages(i) == {steps[n].stage : n \in {k \in StepsOf(i) : steps[k].status = "done"}}

LEMMA NextStageFacts ==
  ASSUME NEW c
  PROVE  /\ NextStage(c) \in Stage
         /\ Stage \subseteq DoneStages(c.iteration) \/ NextStage(c) \notin DoneStages(c.iteration)
         /\ NextStage(c) = "label" => "mine" \in DoneStages(c.iteration)
         /\ NextStage(c) = "promote" => "label" \in DoneStages(c.iteration)
<1> DEFINE done == DoneStages(c.iteration)
           left == {n \in DOMAIN Stages : Stages[n] \notin done}
           first == CHOOSE n \in left : \A m \in left : n <= m
<1>1. /\ Stages[1] = "mine" /\ Stages[2] = "judge" /\ Stages[3] = "label"
      /\ Stages[4] = "train" /\ Stages[5] = "evaluate" /\ Stages[6] = "promote"
      /\ DOMAIN Stages = 1 .. 6
  BY DEF Stages
<1>2. NextStage(c) = IF left = {} THEN Stages[1] ELSE Stages[first] BY DEF NextStage, DoneStages
<1>3. CASE left = {}
  <2>1. Stage \subseteq done BY <1>3 DEF Stage
  <2>2. NextStage(c) = "mine" BY <1>1, <1>2, <1>3
  <2>3. NextStage(c) \in Stage BY <2>2, StageIs
  <2> QED BY <2>1, <2>2, <2>3
<1>4. CASE left # {}
  <2>1. left \in SUBSET Nat BY <1>1
  <2>2. first \in left /\ \A m \in left : first <= m
    <3> HIDE DEF left
    <3>1. PICK u \in left : \A v \in left : ~(<<v, u>> \in OpToRel(<, Nat))
      BY <1>4, <2>1, NatLessThanWellFounded, WFMin
    <3>2. \A v \in left : ~(v < u) BY <2>1, <3>1 DEF OpToRel
    <3>3. \A v \in left : u <= v BY <2>1, <3>2
    <3> QED BY <3>3
  <2>3. first \in 1 .. 6 /\ Stages[first] \notin done BY <1>1, <2>2
  <2>4. NextStage(c) = Stages[first] BY <1>2, <1>4
  <2> HIDE DEF first
  <2>5. \A m \in 1 .. 6 : m < first => Stages[m] \in done BY <1>1, <2>2, <2>3
  <2>6. NextStage(c) \in Stage BY <1>1, <2>3, <2>4 DEF Stage
  <2>12. first = 1 \/ first = 2 \/ first = 3 \/ first = 4 \/ first = 5 \/ first = 6 BY <2>3
  <2>13. Stages[1] # "label" /\ Stages[2] # "label" /\ Stages[4] # "label" /\ Stages[5] # "label"
         /\ Stages[6] # "label"
    BY <1>1
  <2>14. Stages[1] # "promote" /\ Stages[2] # "promote" /\ Stages[3] # "promote"
         /\ Stages[4] # "promote" /\ Stages[5] # "promote"
    BY <1>1
  <2>7. Stages[first] = "label" => first = 3 BY <2>12, <2>13, Zenon
  <2>8. Stages[first] = "promote" => first = 6 BY <2>12, <2>14, Zenon
  <2> HIDE DEF left, done
  <2>9. NextStage(c) = "label" => "mine" \in done BY <1>1, <2>4, <2>5, <2>7
  <2>10. NextStage(c) = "promote" => "label" \in done BY <1>1, <2>4, <2>5, <2>8
  <2> QED BY <2>3, <2>4, <2>6, <2>9, <2>10 DEF done
<1> QED BY <1>3, <1>4

LEMMA TickFacts ==
  ASSUME TypeInv, NEW d \in Driver, Tick(d)
  PROVE  /\ call[d].at = "off" /\ camp.status \notin Terminal
         /\ \/ /\ camp' \in Row /\ camp'.status \in Terminal /\ camp'.iteration = camp.iteration
               /\ camp'.spent = camp.spent /\ UNCHANGED <<steps, call, jobs, reviewed, history>>
            \/ AskApproval(NextStage(camp)) /\ ~BlockingStep(camp)
            \/ RunStage(d, NextStage(camp)) /\ ~BlockingStep(camp)
<1>1. call[d].at = "off" /\ camp.status \in {"pending", "running", "blocked"} BY DEF Tick
<1>2. camp.status \notin Terminal BY <1>1 DEF Terminal
<1>3. CASE StopReason(camp) # ""
  <2> DEFINE reason == StopReason(camp)
  <2>1. camp' = [camp EXCEPT !.status = reason] /\ UNCHANGED <<steps, call, jobs, reviewed, history>>
    BY <1>3 DEF Tick
  <2>2. reason \in Terminal BY <1>3 DEF StopReason, Terminal
  <2> HIDE DEF reason
  <2>3. /\ camp' \in Row /\ camp'.status = reason /\ camp'.iteration = camp.iteration
        /\ camp'.spent = camp.spent
    BY <2>1, <2>2, TypeFacts DEF Row
  <2> QED BY <1>1, <1>2, <2>1, <2>2, <2>3
<1>4. CASE ~(StopReason(camp) # "")
  <2>1. ~BlockingStep(camp) /\ (AskApproval(NextStage(camp)) \/ RunStage(d, NextStage(camp)))
    BY <1>4 DEF Tick
  <2> QED BY <1>1, <1>2, <2>1
<1> QED BY <1>3, <1>4

\* A handler leaves a step and a row, or it has enqueued the retrain.
LEMMA HandlerFacts ==
  ASSUME TypeInv, NEW d \in Driver, Handler(d) \/ StageFails(d)
  PROVE  (Enqueue(d) \/ \E step, c : Leaves(d, step, c)) /\ history' \in HistoryType
<1>0. history \in HistoryType BY DEF TypeInv, AroundOK
<1>1. CASE Mine(d) BY <1>0, <1>1, MineFacts
<1>2. CASE Judge(d) BY <1>0, <1>2, JudgeFacts
<1>3. CASE Label(d) BY <1>0, <1>3, LabelFacts
<1>4. CASE TrainPoll(d) \/ TrainWaitsGpu(d) BY <1>0, <1>4, TrainFacts
<1>5. CASE Enqueue(d) BY <1>0, <1>5, EnqueueFacts
<1>6. CASE RecordJob(d) BY <1>0, <1>6, RecordJobFacts
<1>7. CASE Evaluate(d) BY <1>0, <1>7, EvaluateFacts
<1>8. CASE Promote(d) BY <1>0, <1>8, PromoteFacts
<1>9. CASE StageFails(d) BY <1>9, StageFailsFacts
<1> QED BY <1>1, <1>2, <1>3, <1>4, <1>5, <1>6, <1>7, <1>8, <1>9 DEF Handler

LEMMA TypeStep == TypeInv /\ [Next]_vars => TypeInv'
<1> SUFFICES ASSUME TypeInv, [Next]_vars PROVE TypeInv' OBVIOUS
<1>0. RowsOK /\ CallsOK /\ JobsOK /\ reviewed \subseteq Object /\ history \in HistoryType
  BY DEF TypeInv, AroundOK
<1>1. CASE UNCHANGED vars BY <1>0, <1>1 DEF vars, TypeInv, RowsOK, CallsOK, JobsOK, AroundOK
<1>2. ASSUME NEW d \in Driver, NEW stage \in Stage, RunStage(d, stage) PROVE TypeInv'
  <2>1. RowsOK' /\ CallsOK' /\ UNCHANGED <<jobs, reviewed, history>> BY <1>2, RunStageFacts
  <2> QED BY <1>0, <2>1 DEF TypeInv, JobsOK, AroundOK
<1>3. ASSUME NEW d \in Driver, Tick(d) PROVE TypeInv'
  <2>1. CASE /\ camp' \in Row /\ UNCHANGED <<steps, call, jobs, reviewed, history>>
    BY <1>0, <2>1 DEF TypeInv, RowsOK, CallsOK, JobsOK, AroundOK
  <2>2. CASE AskApproval(NextStage(camp))
    <3>1. RowsOK' /\ CallsOK' /\ UNCHANGED <<jobs, reviewed, history>>
      BY <2>2, AskFacts, NextStageFacts
    <3> QED BY <1>0, <3>1 DEF TypeInv, JobsOK, AroundOK
  <2>3. CASE RunStage(d, NextStage(camp)) BY <1>2, <2>3, NextStageFacts
  <2> QED BY <1>3, <2>1, <2>2, <2>3, TickFacts
<1>4. ASSUME NEW d \in Driver, NEW stage \in Stage, Approve(d, stage) PROVE TypeInv'
  BY <1>2, <1>4 DEF Approve
<1>5. ASSUME NEW d \in Driver, Handler(d) \/ StageFails(d) PROVE TypeInv'
  <2>1. history' \in HistoryType BY <1>5, HandlerFacts
  <2>2. CASE Enqueue(d)
    <3>1. RowsOK' /\ CallsOK' /\ JobsOK' /\ reviewed' = reviewed BY <2>2, EnqueueFacts
    <3> QED BY <1>0, <2>1, <3>1 DEF TypeInv, AroundOK
  <2>3. CASE \E step, c : Leaves(d, step, c)
    <3>1. RowsOK' /\ CallsOK' /\ JobsOK' /\ reviewed' \subseteq Object BY <2>3, LeavesFacts
    <3> QED BY <2>1, <3>1 DEF TypeInv, AroundOK
  <2> QED BY <1>5, <2>2, <2>3, HandlerFacts
<1>6. ASSUME NEW d \in Driver, Crash(d) PROVE TypeInv'
  <2>1. RowsOK' /\ CallsOK' /\ UNCHANGED <<jobs, reviewed>> /\ history' \in HistoryType
    BY <1>6, CrashFacts
  <2> QED BY <1>0, <2>1 DEF TypeInv, JobsOK, AroundOK
<1>7. CASE StopCampaign
  <2>1. RowsOK' /\ CallsOK' /\ UNCHANGED <<jobs, reviewed>> /\ history' \in HistoryType
    BY <1>7, StopFacts
  <2> QED BY <1>0, <2>1 DEF TypeInv, JobsOK, AroundOK
<1>8. ASSUME NEW o \in Object, Review(o) PROVE TypeInv'
  <2>1. reviewed' \subseteq Object /\ UNCHANGED <<camp, steps, call, jobs, history>>
    BY <1>0, <1>8 DEF Review
  <2> QED BY <1>0, <2>1 DEF TypeInv, RowsOK, CallsOK, JobsOK, AroundOK
<1>9. ASSUME NEW k \in DOMAIN jobs, JobRuns(k) \/ JobEnds(k) PROVE TypeInv'
  <2>1. RowsOK' /\ CallsOK' /\ JobsOK' /\ UNCHANGED <<reviewed, history>> BY <1>9, JobFacts
  <2> QED BY <1>0, <2>1 DEF TypeInv, AroundOK
<1> QED BY <1>1, <1>3, <1>4, <1>5, <1>6, <1>7, <1>8, <1>9 DEF Next

LEMMA TypeInit == Init => TypeInv
<1> SUFFICES ASSUME Init PROVE TypeInv OBVIOUS
<1>1. camp \in Row BY DEF Init, Row, NoValue
<1>2. steps \in Seq(Step) /\ Len(steps) = 0 /\ jobs \in Seq(JobType) /\ Len(jobs) = 0
  BY EmptySeq DEF Init
<1>3. call \in [Driver -> CallType] /\ \A d \in Driver : call[d].at = "off"
  <2> HIDE DEF Idle
  <2>1. call = [d \in Driver |-> Idle] BY DEF Init
  <2> QED BY <2>1, IdleFacts
<1>4. reviewed = {} /\ history \in HistoryType BY DEF Init, HistoryType
<1> QED BY <1>1, <1>2, <1>3, <1>4 DEF TypeInv, RowsOK, CallsOK, JobsOK, AroundOK, Holds

LEMMA TypeInvOK == TypeInv => TypeOK
<1> SUFFICES ASSUME TypeInv PROVE TypeOK OBVIOUS
<1>1. camp \in Row /\ steps \in Seq(Step) /\ jobs \in Seq(JobType)
      /\ reviewed \subseteq Object /\ history \in HistoryType
  BY DEF TypeInv, RowsOK, JobsOK, AroundOK
<1>2. ASSUME NEW d \in Driver
      PROVE  /\ call[d].at \in {"off", "run", "queued"}
             /\ call[d].at # "off" => /\ call[d].step \in DOMAIN steps
                                      /\ call[d].seen \in Step
                                      /\ call[d].was \in Row /\ call[d].now \in Row
                                      /\ call[d].job \in 0 .. Len(jobs)
  <2>1. call[d].at \in {"off", "run", "queued"} BY TypeFacts DEF CallType
  <2> QED BY <2>1, TypeFacts DEF Holds
<1> QED BY <1>1, <1>2 DEF TypeOK, JobType, HistoryType

(* The campaign's row, its steps, the calls in flight, the retrains and    *)
(* the faults stay of their types, for any number of calls at once: a call *)
(* holds a step that exists, and a step names a retrain that was enqueued. *)
THEOREM TypeCorrect == Spec => []TypeOK
<1>1. Init => TypeInv BY TypeInit
<1>2. TypeInv /\ [Next]_vars => TypeInv' BY TypeStep
<1>3. TypeInv => TypeOK BY TypeInvOK
<1> QED BY <1>1, <1>2, <1>3, PTL DEF Spec

-------------------------------------------------------------------------------
(* One call at a time, and people who approve only what is waiting.  These *)
(* speak of N steps S, the iteration of now and the set R that is reviewed.*)

OneDriver == \A d, e \in Driver : d = e

Live(s) == s.status \in {"running", "waiting", "done"}
Open(s) == s.status \in {"running", "waiting"}
In(s, i, stage) == s.iteration = i /\ s.stage = stage
DoneIn(S, N, i, stage) == \E n \in 1 .. N : In(S[n], i, stage) /\ S[n].status = "done"

\* Of a stage of an iteration, the last step alone can be live; stages follow each other, a batch
\* is mined by one step of its iteration, and the iteration ends with the batch labelled.
Good(S, N, now, R) ==
  \A n \in 1 .. N :
    /\ S[n].iteration <= now
    /\ S[n].status = "stopped" => S[n].stage = "promote"
    /\ Live(S[n]) /\ S[n].stage = "label" => DoneIn(S, N, S[n].iteration, "mine")
    /\ Live(S[n]) /\ S[n].stage = "promote" => DoneIn(S, N, S[n].iteration, "label")
    /\ In(S[n], now, "promote") => S[n].status # "done"
    /\ S[n].objects # {} => S[n].stage = "mine" /\ S[n].status = "done"
    /\ S[n].objects # {} /\ S[n].iteration # now => DoneIn(S, N, S[n].iteration, "label")
    /\ DoneIn(S, N, S[n].iteration, "label") => S[n].objects \subseteq R
    /\ \A m \in 1 .. N :
         /\ Live(S[n]) /\ S[m].status # "stopped" /\ In(S[m], S[n].iteration, S[n].stage) => m <= n
         /\ S[n].iteration # S[m].iteration => S[n].objects \cap S[m].objects = {}

\* The objects of the iterations that were labelled.
Counted(S, N) == UNION {S[n].objects : n \in {k \in 1 .. N : DoneIn(S, N, S[k].iteration, "label")}}

\* One live step for a stage of an iteration.
LEMMA OneLive ==
  ASSUME NEW S, NEW N \in Nat, NEW now, NEW R, Good(S, N, now, R), NEW n \in 1 .. N, NEW m \in 1 .. N,
         Live(S[n]), Live(S[m]), In(S[m], S[n].iteration, S[n].stage)
  PROVE  m = n
<1>1. S[n].status # "stopped" /\ S[m].status # "stopped" BY DEF Live
<1>2. m <= n BY <1>1 DEF Good
<1>3. In(S[n], S[m].iteration, S[m].stage) BY DEF In
<1>4. n <= m BY <1>1, <1>3 DEF Good
<1> QED BY <1>2, <1>4

\* A step more: a stage begins, or the campaign is stopped.
LEMMA AppendGood ==
  ASSUME NEW S, NEW N \in Nat, NEW now \in Nat, NEW R, Good(S, N, now, R),
         NEW T, NEW s, T[N + 1] = s, \A n \in 1 .. N : T[n] = S[n],
         s.objects = {}, s.iteration \in Nat, s.iteration <= now,
         \A n \in 1 .. N : S[n].iteration \in Nat,
         \/ s.status = "stopped" /\ s.stage = "promote"
         \/ /\ Open(s) /\ \A n \in 1 .. N : In(S[n], s.iteration, s.stage) => ~Live(S[n])
            /\ s.stage = "label" => DoneIn(S, N, s.iteration, "mine")
            /\ s.stage = "promote" => DoneIn(S, N, s.iteration, "label")
  PROVE  Good(T, N + 1, now, R) /\ Counted(T, N + 1) = Counted(S, N)
<1>0. s.status # "done" BY DEF Open
<1>1. \A n \in 1 .. N + 1 : n \in 1 .. N \/ n = N + 1 OBVIOUS
<1>2. \A i, stage : DoneIn(T, N + 1, i, stage) <=> DoneIn(S, N, i, stage)
  BY <1>0, <1>1 DEF DoneIn
<1>3. ASSUME NEW n \in 1 .. N + 1
      PROVE  /\ T[n].iteration <= now
             /\ T[n].status = "stopped" => T[n].stage = "promote"
             /\ Live(T[n]) /\ T[n].stage = "label" => DoneIn(T, N + 1, T[n].iteration, "mine")
             /\ Live(T[n]) /\ T[n].stage = "promote" => DoneIn(T, N + 1, T[n].iteration, "label")
             /\ In(T[n], now, "promote") => T[n].status # "done"
             /\ T[n].objects # {} => T[n].stage = "mine" /\ T[n].status = "done"
             /\ T[n].objects # {} /\ T[n].iteration # now => DoneIn(T, N + 1, T[n].iteration, "label")
             /\ DoneIn(T, N + 1, T[n].iteration, "label") => T[n].objects \subseteq R
  <2>1. CASE n \in 1 .. N BY <1>2, <2>1 DEF Good
  <2>2. CASE n = N + 1 BY <1>0, <1>2, <2>2 DEF Live, Open
  <2> QED BY <1>1, <2>1, <2>2
<1>4. ASSUME NEW n \in 1 .. N + 1, NEW m \in 1 .. N + 1
      PROVE  /\ Live(T[n]) /\ T[m].status # "stopped" /\ In(T[m], T[n].iteration, T[n].stage) => m <= n
             /\ T[n].iteration # T[m].iteration => T[n].objects \cap T[m].objects = {}
  <2>1. CASE n \in 1 .. N /\ m \in 1 .. N BY <2>1 DEF Good
  <2>2. CASE n = N + 1 BY <2>2
  <2>3. CASE n \in 1 .. N /\ m = N + 1
    <3>1. T[m].objects = {} BY <2>3
    <3>2. Live(T[n]) /\ T[m].status # "stopped" => ~In(T[m], T[n].iteration, T[n].stage)
      BY <2>3 DEF In
    <3> QED BY <3>1, <3>2
  <2> QED BY <1>1, <2>1, <2>2, <2>3
<1>5. Good(T, N + 1, now, R) BY <1>3, <1>4 DEF Good
<1>6. Counted(T, N + 1) = Counted(S, N) BY <1>1, <1>2 DEF Counted
<1> QED BY <1>5, <1>6

\* People decide more objects.
LEMMA ReviewGood ==
  ASSUME NEW S, NEW N, NEW now, NEW R, Good(S, N, now, R), NEW Q, R \subseteq Q
  PROVE  Good(S, N, now, Q)
BY DEF Good

\* The open step n of this iteration is rewritten as s.
Rewritten(S, N, now, n, T, s) ==
  /\ T[n] = s /\ \A m \in 1 .. N : m # n => T[m] = S[m]
  /\ Open(S[n]) /\ S[n].iteration = now /\ Kept(S[n], s)
  /\ s.status \in {"waiting", "done", "failed"}

LEMMA RewriteDone ==
  ASSUME NEW S, NEW N \in Nat, NEW now, NEW n \in 1 .. N, NEW T, NEW s,
         Rewritten(S, N, now, n, T, s)
  PROVE  \A i, stage : /\ DoneIn(S, N, i, stage) => DoneIn(T, N, i, stage)
                       /\ DoneIn(T, N, i, stage) =>
                            DoneIn(S, N, i, stage) \/ (In(s, i, stage) /\ s.status = "done" /\ i = now)
<1> SUFFICES ASSUME NEW i, NEW stage
             PROVE  /\ DoneIn(S, N, i, stage) => DoneIn(T, N, i, stage)
                    /\ DoneIn(T, N, i, stage) =>
                         DoneIn(S, N, i, stage) \/ (In(s, i, stage) /\ s.status = "done" /\ i = now)
  OBVIOUS
<1>0. T[n] = s /\ s.iteration = now /\ \A m \in 1 .. N : m # n => T[m] = S[m]
  BY DEF Rewritten, Kept
<1>1. ASSUME DoneIn(S, N, i, stage) PROVE DoneIn(T, N, i, stage)
  <2>1. PICK m \in 1 .. N : In(S[m], i, stage) /\ S[m].status = "done" BY <1>1 DEF DoneIn
  <2>2. m # n BY <2>1 DEF Rewritten, Open
  <2> QED BY <1>0, <2>1, <2>2 DEF DoneIn
<1>2. ASSUME DoneIn(T, N, i, stage)
      PROVE  DoneIn(S, N, i, stage) \/ (In(s, i, stage) /\ s.status = "done" /\ i = now)
  <2>1. PICK m \in 1 .. N : In(T[m], i, stage) /\ T[m].status = "done" BY <1>2 DEF DoneIn
  <2>2. CASE m = n BY <1>0, <2>1, <2>2 DEF In
  <2>3. CASE m # n
    <3>1. In(S[m], i, stage) /\ S[m].status = "done" BY <1>0, <2>1, <2>3
    <3> QED BY <3>1 DEF DoneIn
  <2> QED BY <2>2, <2>3
<1> QED BY <1>1, <1>2

\* Until its batch is labelled an iteration has no label step done, and its mine step is the first.
LEMMA NotYet ==
  ASSUME NEW S, NEW N \in Nat, NEW now, NEW R, Good(S, N, now, R), NEW n \in 1 .. N,
         Open(S[n]), S[n].iteration = now, S[n].stage \in {"mine", "label"}
  PROVE  ~DoneIn(S, N, now, "label")
<1> SUFFICES ASSUME DoneIn(S, N, now, "label") PROVE FALSE OBVIOUS
<1>1. PICK m \in 1 .. N : In(S[m], now, "label") /\ S[m].status = "done" BY DEF DoneIn
<1>2. Live(S[n]) /\ S[n].status # "done" /\ Live(S[m]) BY <1>1 DEF Live, Open
<1>3. CASE S[n].stage = "label"
  <2>1. In(S[m], S[n].iteration, S[n].stage) BY <1>1, <1>3
  <2>2. m = n BY <1>2, <2>1, OneLive
  <2> QED BY <1>1, <1>2, <2>2
<1>4. CASE S[n].stage = "mine"
  <2>1. DoneIn(S, N, now, "mine") BY <1>1, <1>2 DEF Good, In
  <2>2. PICK k \in 1 .. N : In(S[k], now, "mine") /\ S[k].status = "done" BY <2>1 DEF DoneIn
  <2>3. Live(S[k]) /\ In(S[k], S[n].iteration, S[n].stage) BY <1>4, <2>2 DEF Live
  <2>4. k = n BY <1>2, <2>3, OneLive
  <2> QED BY <1>2, <2>2, <2>4
<1> QED BY <1>3, <1>4

LEMMA RewriteGood ==
  ASSUME NEW S, NEW N \in Nat, NEW now \in Nat, NEW R, Good(S, N, now, R), NEW n \in 1 .. N,
         NEW T, NEW s, Rewritten(S, N, now, n, T, s), NEW later \in {now, now + 1},
         \A m \in 1 .. N : S[m].iteration \in Nat,
         s.stage = "promote" /\ s.status = "done" <=> later = now + 1,
         s.objects # {} => s.stage = "mine" /\ s.status = "done" /\ s.objects \cap R = {},
         s.stage = "label" /\ s.status = "done" =>
           \A m \in 1 .. N : S[m].iteration = now => S[m].objects \subseteq R
  PROVE  Good(T, N, later, R)
<1>0. /\ T[n] = s /\ \A m \in 1 .. N : m # n => T[m] = S[m]
      /\ s.iteration = now /\ S[n].iteration = now /\ s.stage = S[n].stage
      /\ S[n].status # "done" /\ Live(S[n]) /\ s.status # "stopped" /\ S[n].status # "stopped"
      /\ now <= later
  BY DEF Rewritten, Kept, Open, Live
<1>1. \A i, stage : /\ DoneIn(S, N, i, stage) => DoneIn(T, N, i, stage)
                    /\ DoneIn(T, N, i, stage) =>
                         DoneIn(S, N, i, stage) \/ (In(s, i, stage) /\ s.status = "done" /\ i = now)
  BY RewriteDone
\* A step of the new sequence is live only if the old one was, and so on.
<1>2. ASSUME NEW m \in 1 .. N
      PROVE  /\ T[m].iteration = S[m].iteration /\ T[m].stage = S[m].stage
             /\ Live(T[m]) => Live(S[m])
             /\ T[m].status = "stopped" <=> S[m].status = "stopped"
  BY <1>0
<1>3. S[n].objects = {} BY <1>0 DEF Good
<1>4. ASSUME NEW m \in 1 .. N
      PROVE  /\ T[m].iteration <= later
             /\ T[m].status = "stopped" => T[m].stage = "promote"
             /\ Live(T[m]) /\ T[m].stage = "label" => DoneIn(T, N, T[m].iteration, "mine")
             /\ Live(T[m]) /\ T[m].stage = "promote" => DoneIn(T, N, T[m].iteration, "label")
  BY <1>0, <1>1, <1>2 DEF Good
<1>5. ASSUME NEW m \in 1 .. N, In(T[m], later, "promote") PROVE T[m].status # "done"
  <2>1. S[m].iteration = later /\ S[m].iteration <= now BY <1>2, <1>5 DEF Good, In
  <2>2. later = now BY <2>1
  <2>3. CASE m = n BY <1>0, <1>5, <2>2, <2>3 DEF In
  <2>4. CASE m # n BY <1>0, <1>5, <2>2, <2>4 DEF Good
  <2> QED BY <2>3, <2>4
<1>6. ASSUME NEW m \in 1 .. N, T[m].objects # {}
      PROVE  /\ T[m].stage = "mine" /\ T[m].status = "done"
             /\ T[m].iteration # later => DoneIn(T, N, T[m].iteration, "label")
  <2>1. CASE m = n BY <1>0, <1>6, <2>1
  <2>2. CASE m # n
    <3>1. T[m] = S[m] BY <1>0, <2>2
    <3>2. S[m].stage = "mine" /\ S[m].status = "done" BY <1>6, <3>1 DEF Good
    <3>3. ASSUME S[m].iteration # later PROVE DoneIn(S, N, S[m].iteration, "label")
      <4>1. CASE S[m].iteration # now BY <1>6, <3>1, <4>1 DEF Good
      <4>2. CASE S[m].iteration = now
        <5>1. s.stage = "promote" BY <3>3, <4>2
        <5>2. DoneIn(S, N, now, "label") BY <1>0, <5>1 DEF Good
        <5> QED BY <4>2, <5>2
      <4> QED BY <4>1, <4>2
    <3> QED BY <1>1, <3>1, <3>2, <3>3
  <2> QED BY <2>1, <2>2
<1>7. ASSUME NEW m \in 1 .. N, DoneIn(T, N, T[m].iteration, "label") PROVE T[m].objects \subseteq R
  <2>1. CASE DoneIn(S, N, S[m].iteration, "label")
    <3>1. S[m].objects \subseteq R BY <2>1 DEF Good
    <3>2. CASE m # n BY <1>0, <3>1, <3>2
    <3>3. CASE m = n
      <4>1. S[n].stage # "mine" BY <1>0, <2>1, <3>3, NotYet DEF Rewritten
      <4> QED BY <1>0, <3>3, <4>1
    <3> QED BY <3>2, <3>3
  <2>2. CASE ~DoneIn(S, N, S[m].iteration, "label")
    <3>1. s.stage = "label" /\ s.status = "done" /\ S[m].iteration = now
      BY <1>1, <1>2, <1>7, <2>2 DEF In
    <3>2. S[m].objects \subseteq R BY <3>1
    <3>3. s.objects = {} BY <3>1
    <3> QED BY <1>0, <3>2, <3>3
  <2> QED BY <2>1, <2>2
<1>8. ASSUME NEW m \in 1 .. N, NEW k \in 1 .. N,
             Live(T[m]), T[k].status # "stopped", In(T[k], T[m].iteration, T[m].stage)
      PROVE  k <= m
  <2>1. Live(S[m]) /\ S[k].status # "stopped" /\ In(S[k], S[m].iteration, S[m].stage)
    BY <1>2, <1>8 DEF In
  <2> QED BY <2>1 DEF Good
<1>9. ASSUME NEW m \in 1 .. N, NEW k \in 1 .. N, T[m].iteration # T[k].iteration
      PROVE  T[m].objects \cap T[k].objects = {}
  <2>1. ASSUME NEW j \in 1 .. N, S[j].iteration # now PROVE S[j].objects \cap s.objects = {}
    <3>1. CASE S[j].objects = {} BY <3>1
    <3>2. CASE S[j].objects # {}
      <4>1. DoneIn(S, N, S[j].iteration, "label") BY <2>1, <3>2 DEF Good
      <4>2. S[j].objects \subseteq R BY <4>1 DEF Good
      <4> QED BY <4>2
    <3> QED BY <3>1, <3>2
  <2>2. CASE m = n /\ k # n BY <1>0, <1>9, <2>1, <2>2
  <2>3. CASE m # n /\ k = n BY <1>0, <1>9, <2>1, <2>3
  <2>4. CASE m # n /\ k # n BY <1>0, <1>9, <2>4 DEF Good
  <2> QED BY <1>9, <2>2, <2>3, <2>4
<1> QED BY <1>4, <1>5, <1>6, <1>7, <1>8, <1>9 DEF Good

\* Only a label step that ends counts a batch.
LEMMA RewriteCounts ==
  ASSUME NEW S, NEW N \in Nat, NEW now \in Nat, NEW R, Good(S, N, now, R), NEW n \in 1 .. N,
         NEW T, NEW s, Rewritten(S, N, now, n, T, s),
         s.objects # {} => s.stage = "mine"
  PROVE  /\ ~(s.stage = "label" /\ s.status = "done") => Counted(T, N) = Counted(S, N)
         /\ s.stage = "label" /\ s.status = "done" =>
              /\ Counted(T, N) = Counted(S, N)
                                   \cup UNION {S[m].objects : m \in {k \in 1 .. N : S[k].iteration = now}}
              /\ \A m \in 1 .. N : S[m].iteration = now => S[m].objects \cap Counted(S, N) = {}
<1>0. /\ T[n] = s /\ \A m \in 1 .. N : m # n => T[m] = S[m]
      /\ s.iteration = now /\ S[n].iteration = now /\ s.stage = S[n].stage /\ S[n].status # "done"
      /\ Open(S[n])
  BY DEF Rewritten, Kept, Open
<1>1. S[n].objects = {} BY <1>0 DEF Good
<1>2. \A i : /\ DoneIn(S, N, i, "label") => DoneIn(T, N, i, "label")
             /\ DoneIn(T, N, i, "label") =>
                  DoneIn(S, N, i, "label") \/ (s.stage = "label" /\ s.status = "done" /\ i = now)
  BY RewriteDone DEF In
<1>3. \A m \in 1 .. N : T[m].iteration = S[m].iteration BY <1>0
<1>4. CASE ~(s.stage = "label" /\ s.status = "done")
  <2>1. \A m \in 1 .. N : DoneIn(T, N, T[m].iteration, "label") <=> DoneIn(S, N, S[m].iteration, "label")
    BY <1>2, <1>3, <1>4
  <2>2. ASSUME NEW m \in 1 .. N, DoneIn(S, N, S[m].iteration, "label") PROVE T[m].objects = S[m].objects
    <3>1. CASE m # n BY <1>0, <3>1
    <3>2. CASE m = n
      <4>1. S[n].stage # "mine" BY <1>0, <2>2, <3>2, NotYet
      <4> QED BY <1>0, <1>1, <3>2, <4>1
    <3> QED BY <3>1, <3>2
  <2> QED BY <1>4, <2>1, <2>2 DEF Counted
<1>5. CASE s.stage = "label" /\ s.status = "done"
  <2>1. ~DoneIn(S, N, now, "label") BY <1>0, <1>5, NotYet
  <2>2. DoneIn(T, N, now, "label") BY <1>0, <1>5 DEF DoneIn, In
  <2>3. \A m \in 1 .. N : DoneIn(T, N, T[m].iteration, "label")
                            <=> DoneIn(S, N, S[m].iteration, "label") \/ S[m].iteration = now
    BY <1>2, <1>3, <2>2
  <2>4. \A m \in 1 .. N : T[m].objects = S[m].objects BY <1>0, <1>1, <1>5
  <2>5. Counted(T, N) = Counted(S, N)
                          \cup UNION {S[m].objects : m \in {k \in 1 .. N : S[k].iteration = now}}
    BY <2>3, <2>4 DEF Counted
  <2>6. ASSUME NEW m \in 1 .. N, S[m].iteration = now PROVE S[m].objects \cap Counted(S, N) = {}
    <3>1. \A k \in 1 .. N : DoneIn(S, N, S[k].iteration, "label") => S[k].iteration # now BY <2>1
    <3>2. \A k \in 1 .. N : S[k].iteration # now => S[k].objects \cap S[m].objects = {}
      BY <2>6 DEF Good
    <3> QED BY <3>1, <3>2 DEF Counted
  <2> QED BY <1>5, <2>5, <2>6
<1> QED BY <1>4, <1>5

-------------------------------------------------------------------------------
(* The invariant of the campaign. *)

Now == AtLeast1(camp.iteration)

\* A call in flight holds the open step of this iteration as it is, and the campaign's columns as
\* they are, but for the status, which a person may have set to stopped meanwhile.
InFlight(d) ==
  /\ steps[call[d].step] = call[d].seen /\ Open(call[d].seen) /\ call[d].seen.iteration = Now
  /\ call[d].was.iteration = camp.iteration /\ call[d].was.spent = camp.spent
  /\ call[d].now.iteration = Now /\ call[d].now.spent = camp.spent
  /\ call[d].now.status \notin Terminal
  /\ call[d].at = "queued" => call[d].seen.stage = "train" /\ call[d].seen.job = NoJob

CampInv ==
  /\ camp.status \in {"running", "blocked"} => camp.iteration # 0
  /\ Good(steps, Len(steps), Now, reviewed)
  /\ \A d \in Driver : call[d].at # "off" => InFlight(d)

SpentInv == camp.spent = Cardinality(Counted(steps, Len(steps)))

LEMMA NowFacts ==
  ASSUME TypeInv
  PROVE  /\ Now \in Nat \ {0} /\ camp.iteration \in Nat /\ camp.iteration <= Now
         /\ camp.iteration # 0 => Now = camp.iteration
         /\ \A n \in 1 .. Len(steps) : steps[n].iteration \in Nat
<1>1. camp.iteration \in Nat BY TypeFacts DEF Row
<1>2. \A n \in 1 .. Len(steps) : steps[n].iteration \in Nat BY TypeFacts DEF Step
<1>3. /\ Now \in Nat \ {0} /\ camp.iteration <= Now /\ (camp.iteration # 0 => Now = camp.iteration)
  BY <1>1 DEF Now, AtLeast1
<1> QED BY <1>1, <1>2, <1>3

\* An empty step changes no count, and the steps counted are those of the property.
LEMMA CountedIs ==
  ASSUME TypeInv
  PROVE  UNION {steps[n].objects : n \in {k \in DOMAIN steps : steps[k].iteration \in LabelledIterations}}
           = Counted(steps, Len(steps))
<1>1. DOMAIN steps = 1 .. Len(steps) BY TypeFacts
<1>2. \A i : i \in LabelledIterations <=> DoneIn(steps, Len(steps), i, "label")
  BY <1>1 DEF LabelledIterations, DoneIn, In
<1> QED BY <1>1, <1>2 DEF Counted

\* The batch that is labelled next is what this iteration has mined.
LEMMA LastMined ==
  ASSUME TypeInv, CampInv, NEW c \in Row, AtLeast1(c.iteration) = Now,
         DoneIn(steps, Len(steps), Now, "mine")
  PROVE  UNION {steps[m].objects : m \in {k \in 1 .. Len(steps) : steps[k].iteration = Now}}
           = LastStep(c, "mine").objects
<1> DEFINE N == Len(steps)
           S == {n \in StepsOf(c.iteration) : steps[n].stage = "mine"}
<1>1. \A n : n \in S <=> n \in 1 .. N /\ In(steps[n], Now, "mine") BY TypeFacts DEF StepsOf, In
<1>2. PICK k \in 1 .. N : In(steps[k], Now, "mine") /\ steps[k].status = "done" BY DEF DoneIn
<1>3. S \in SUBSET (1 .. N) /\ S # {} /\ k \in S BY <1>1, <1>2
<1>4. LastStep(c, "mine") = steps[Latest(S)] BY <1>3 DEF LastStep
<1> HIDE DEF S
<1>5. Latest(S) \in S /\ \A m \in S : m <= Latest(S) BY <1>3, Last, TypeFacts
<1>6. Latest(S) = k
  <2> DEFINE m == Latest(S)
  <2>1. m \in 1 .. N /\ In(steps[m], Now, "mine") /\ k <= m BY <1>1, <1>3, <1>5
  <2> HIDE DEF m
  <2>2. steps[m].status # "stopped" BY <2>1 DEF CampInv, Good, In
  <2>3. Live(steps[k]) /\ In(steps[m], steps[k].iteration, steps[k].stage)
    BY <1>2, <2>1 DEF Live, In
  <2>4. m <= k BY <1>2, <2>1, <2>2, <2>3 DEF CampInv, Good
  <2>5. m = k BY <2>1, <2>4
  <2> QED BY <2>5 DEF m
<1>7. ASSUME NEW m \in 1 .. N, steps[m].iteration = Now, steps[m].objects # {} PROVE m = k
  <2>1. steps[m].stage = "mine" /\ steps[m].status = "done" BY <1>7 DEF CampInv, Good
  <2>2. Live(steps[k]) /\ Live(steps[m]) /\ In(steps[m], steps[k].iteration, steps[k].stage)
    BY <1>2, <1>7, <2>1 DEF Live, In
  <2>3. Good(steps, N, Now, reviewed) /\ N \in Nat BY TypeFacts DEF CampInv
  <2> HIDE DEF N
  <2> QED BY <1>2, <2>2, <2>3, OneLive
<1>8. steps[k].iteration = Now BY <1>2 DEF In
<1> QED BY <1>2, <1>4, <1>6, <1>7, <1>8

\* A call ends.
LEMMA LeavesInv ==
  ASSUME OneDriver, TypeInv, CampInv, NEW d \in Driver, NEW step, NEW c, Leaves(d, step, c),
         step.status \in {"waiting", "done", "failed"}, NEW later \in {Now, Now + 1},
         c.iteration = later, step.stage = "promote" /\ step.status = "done" <=> later = Now + 1,
         step.objects # {} => step.stage = "mine" /\ step.status = "done" /\ step.objects \cap reviewed = {},
         step.stage = "label" /\ step.status = "done" =>
           \A m \in 1 .. Len(steps) : steps[m].iteration = Now => steps[m].objects \subseteq reviewed
  PROVE  /\ CampInv' /\ camp'.iteration = later /\ camp'.spent = c.spent
         /\ Rewritten(steps, Len(steps), Now, call[d].step, steps', step)
<1> DEFINE n == call[d].step
           N == Len(steps)
<1>1. /\ call'[d] = Idle /\ n \in 1 .. N /\ Len(steps') = N
      /\ steps'[n] = Flush(steps[n], call[d].seen, step)
      /\ \A m \in 1 .. N : m # n => steps'[m] = steps[m]
      /\ camp' = Flush(camp, call[d].was, c)
  BY LeavesFacts
<1>2. /\ step \in Step /\ c \in Row /\ Kept(call[d].seen, step) /\ reviewed' = reviewed
      /\ call[d].at # "off"
  BY DEF Leaves
<1>3. InFlight(d) BY <1>2 DEF CampInv
<1>4. call[d].seen \in Step /\ call[d].was \in Row /\ camp \in Row BY <1>2, HeldFacts, TypeFacts
<1>5. steps'[n] = step BY <1>1, <1>2, <1>3, <1>4, FlushFresh DEF InFlight
<1>6. Rewritten(steps, N, Now, n, steps', step) BY <1>1, <1>2, <1>3, <1>5 DEF Rewritten, InFlight
<1>7. camp'.iteration = later /\ camp'.spent = c.spent
  BY <1>1, <1>2, <1>3, <1>4, FlushColumns DEF InFlight
<1>8. Now' = later
  <2>1. later # 0 BY NowFacts
  <2> QED BY <1>7, <2>1 DEF Now, AtLeast1
<1>9. Good(steps', N, later, reviewed)
  <2>1. /\ Good(steps, N, Now, reviewed) /\ N \in Nat /\ Now \in Nat
        /\ \A m \in 1 .. N : steps[m].iteration \in Nat
    BY NowFacts, TypeFacts DEF CampInv
  <2> HIDE DEF n, N
  <2> QED BY <1>1, <1>6, <2>1, RewriteGood DEF N
<1>10. \A e \in Driver : call'[e].at = "off" BY <1>1, IdleFacts DEF OneDriver
<1>11. camp'.iteration # 0 BY <1>7, NowFacts
<1>12. CampInv' BY <1>1, <1>2, <1>8, <1>9, <1>10, <1>11 DEF CampInv
<1> QED BY <1>6, <1>7, <1>12

\* A handler that leaves the batch and the columns as they are.
LEMMA QuietLeaves ==
  ASSUME OneDriver, TypeInv, CampInv, NEW d \in Driver, NEW step, NEW c, Leaves(d, step, c),
         step.status \in {"waiting", "done", "failed"},
         step.status = "done" => call[d].seen.stage \notin {"label", "promote"},
         c.iteration = call[d].now.iteration, c.spent = call[d].now.spent,
         step.objects = call[d].seen.objects
  PROVE  /\ CampInv' /\ (SpentInv => SpentInv')
         /\ Rewritten(steps, Len(steps), Now, call[d].step, steps', step) /\ Len(steps') = Len(steps)
<1>1. InFlight(d) /\ Kept(call[d].seen, step) /\ call[d].step \in 1 .. Len(steps)
  BY HeldFacts DEF Leaves, CampInv
<1>2. step.objects = {}
  <2>1. call[d].seen = steps[call[d].step] /\ call[d].seen.status # "done" BY <1>1 DEF InFlight, Open
  <2> QED BY <1>1, <2>1 DEF CampInv, Good
<1>3. Now \in Nat /\ Now \in {Now, Now + 1} BY NowFacts
<1>4. ~(step.stage = "promote" /\ step.status = "done") /\ ~(step.stage = "label" /\ step.status = "done")
  BY <1>1 DEF Kept
<1>5. c.iteration = Now /\ c.spent = camp.spent BY <1>1 DEF InFlight
<1>6. /\ CampInv' /\ camp'.iteration = Now /\ camp'.spent = c.spent
      /\ Rewritten(steps, Len(steps), Now, call[d].step, steps', step)
  BY <1>2, <1>3, <1>4, <1>5, LeavesInv
<1>7. Counted(steps', Len(steps)) = Counted(steps, Len(steps))
  <2>1. Good(steps, Len(steps), Now, reviewed) /\ Len(steps) \in Nat BY TypeFacts DEF CampInv
  <2> QED BY <1>1, <1>2, <1>3, <1>4, <1>6, <2>1, RewriteCounts
<1>8. Len(steps') = Len(steps) BY LeavesFacts
<1> QED BY <1>5, <1>6, <1>7, <1>8 DEF SpentInv

LEMMA MineInv ==
  ASSUME OneDriver, TypeInv, CampInv, NEW d \in Driver, Mine(d)
  PROVE  CampInv' /\ (SpentInv => SpentInv')
<1>1. PICK step, c : /\ Leaves(d, step, c) /\ c = call[d].now /\ step.status = "done"
                     /\ step.objects \subseteq Object \ reviewed /\ step.job = call[d].seen.job
                     /\ call[d].seen.stage = "mine" /\ call[d].at = "run" /\ history' = history
  BY MineFacts
<1>2. InFlight(d) /\ Kept(call[d].seen, step) /\ call[d].step \in 1 .. Len(steps)
  BY <1>1, HeldFacts DEF Leaves, CampInv
<1>3. step.stage = "mine" /\ step.objects \cap reviewed = {} BY <1>1, <1>2 DEF Kept
<1>4. Now \in Nat /\ Now \in {Now, Now + 1} /\ Now # Now + 1 BY NowFacts
<1>5. c.iteration = Now /\ c.spent = camp.spent BY <1>1, <1>2 DEF InFlight
<1>6. /\ CampInv' /\ camp'.iteration = Now /\ camp'.spent = c.spent
      /\ Rewritten(steps, Len(steps), Now, call[d].step, steps', step)
  BY <1>1, <1>3, <1>4, <1>5, LeavesInv
<1>7. Counted(steps', Len(steps)) = Counted(steps, Len(steps))
  <2>1. Good(steps, Len(steps), Now, reviewed) /\ Len(steps) \in Nat BY TypeFacts DEF CampInv
  <2> QED BY <1>2, <1>3, <1>4, <1>6, <2>1, RewriteCounts
<1>8. Len(steps') = Len(steps) BY <1>1, LeavesFacts
<1> QED BY <1>5, <1>6, <1>7, <1>8 DEF SpentInv

\* The batch counted is new to the count, so the numbers add up.
LEMMA LabelInv ==
  ASSUME OneDriver, TypeInv, CampInv, NEW d \in Driver, Label(d)
  PROVE  CampInv' /\ (SpentInv => SpentInv')
<1> DEFINE O == LastStep(call[d].now, "mine").objects
           N == Len(steps)
<1>1. PICK step, c : /\ Leaves(d, step, c)
                     /\ step.objects = call[d].seen.objects /\ step.job = call[d].seen.job
                     /\ call[d].seen.stage = "label" /\ call[d].at = "run" /\ history' = history
                     /\ \/ step.status = "waiting" /\ c = call[d].now
                        \/ /\ step.status = "done" /\ O \subseteq reviewed
                           /\ c.iteration = call[d].now.iteration
                           /\ c.spent = call[d].now.spent + Cardinality(O)
                           /\ c.status = call[d].now.status
  BY LabelFacts
<1>2. CASE step.status = "waiting" /\ c = call[d].now BY <1>1, <1>2, QuietLeaves
<1>3. CASE /\ step.status = "done" /\ O \subseteq reviewed
           /\ c.iteration = call[d].now.iteration
           /\ c.spent = call[d].now.spent + Cardinality(O)
  <2>1. /\ InFlight(d) /\ Kept(call[d].seen, step) /\ call[d].step \in 1 .. N
        /\ call[d].now \in Row
    BY <1>1, HeldFacts DEF Leaves, CampInv
  <2>2. step.stage = "label" BY <1>1, <2>1 DEF Kept
  <2>3. Good(steps, N, Now, reviewed) /\ N \in Nat /\ Now \in Nat /\ Now # Now + 1
    BY TypeFacts, NowFacts DEF CampInv
  <2>4. step.objects = {}
    <3>1. call[d].seen = steps[call[d].step] /\ call[d].seen.status # "done"
      BY <2>1 DEF InFlight, Open
    <3> QED BY <1>1, <2>1, <2>3, <3>1 DEF Good
  <2>5. UNION {steps[m].objects : m \in {k \in 1 .. N : steps[k].iteration = Now}} = O
    <3>1. Live(steps[call[d].step]) /\ steps[call[d].step].stage = "label"
          /\ steps[call[d].step].iteration = Now
      BY <1>1, <2>1 DEF InFlight, Live, Open
    <3>2. DoneIn(steps, N, Now, "mine") BY <2>1, <2>3, <3>1 DEF Good
    <3>3. AtLeast1(call[d].now.iteration) = Now BY <2>1, NowFacts DEF InFlight, AtLeast1
    <3> QED BY <2>1, <3>2, <3>3, LastMined
  <2> HIDE DEF O
  <2>6. \A m \in 1 .. N : steps[m].iteration = Now => steps[m].objects \subseteq O BY <2>5
  <2>7. c.iteration = Now /\ c.spent = camp.spent + Cardinality(O) BY <1>3, <2>1 DEF InFlight
  <2>8. /\ CampInv' /\ camp'.iteration = Now /\ camp'.spent = c.spent
        /\ Rewritten(steps, N, Now, call[d].step, steps', step)
    <3>1. Now \in {Now, Now + 1} OBVIOUS
    <3>2. \A m \in 1 .. N : steps[m].iteration = Now => steps[m].objects \subseteq reviewed
      BY <1>3, <2>6
    <3> QED BY <1>1, <1>3, <2>2, <2>3, <2>4, <2>7, <3>1, <3>2, LeavesInv
  <2>9. /\ Counted(steps', N) = Counted(steps, N)
                                  \cup UNION {steps[m].objects : m \in {k \in 1 .. N : steps[k].iteration = Now}}
        /\ \A m \in 1 .. N : steps[m].iteration = Now => steps[m].objects \cap Counted(steps, N) = {}
    <3> HIDE DEF N
    <3>1. step.objects # {} => step.stage = "mine" BY <2>4
    <3>2. step.stage = "label" /\ step.status = "done" =>
            /\ Counted(steps', N) = Counted(steps, N)
                  \cup UNION {steps[m].objects : m \in {k \in 1 .. N : steps[k].iteration = Now}}
            /\ \A m \in 1 .. N : steps[m].iteration = Now => steps[m].objects \cap Counted(steps, N) = {}
      BY <2>1, <2>3, <2>8, <3>1, RewriteCounts
    <3> QED BY <1>3, <2>2, <3>2
  <2>10. Counted(steps', N) = Counted(steps, N) \cup O /\ Counted(steps, N) \cap O = {}
    <3>1. Counted(steps, N) \cap UNION {steps[m].objects : m \in {k \in 1 .. N : steps[k].iteration = Now}} = {}
      BY <2>9
    <3> QED BY <2>5, <2>9, <3>1
  <2>11. IsFiniteSet(Counted(steps, N)) /\ IsFiniteSet(O)
    <3>1. \A m \in 1 .. N : steps[m].objects \subseteq Object BY TypeFacts DEF Step
    <3>2. Counted(steps, N) \subseteq Object BY <3>1 DEF Counted
    <3>3. O \subseteq Object BY <2>5, <3>1
    <3> QED BY <3>2, <3>3, CampaignAssumption, FS_Subset
  <2>12. Cardinality(Counted(steps', N)) = Cardinality(Counted(steps, N)) + Cardinality(O)
    <3>1. Cardinality(Counted(steps, N) \cup O)
            = Cardinality(Counted(steps, N)) + Cardinality(O) - Cardinality(Counted(steps, N) \cap O)
      BY <2>11, FS_Union
    <3>2. Cardinality(Counted(steps, N) \cap O) = 0 BY <2>10, FS_EmptySet
    <3>3. Cardinality(Counted(steps, N)) \in Nat /\ Cardinality(O) \in Nat
      BY <2>11, FS_CardinalityType
    <3> QED BY <2>10, <3>1, <3>2, <3>3
  <2>13. Len(steps') = Len(steps) BY <1>1, LeavesFacts
  <2>14. SpentInv => SpentInv' BY <2>7, <2>8, <2>12, <2>13 DEF SpentInv
  <2> QED BY <2>8, <2>14
<1> QED BY <1>1, <1>2, <1>3

\* The iteration after this one.
LEMMA PromoteInv ==
  ASSUME OneDriver, TypeInv, CampInv, NEW d \in Driver, Promote(d)
  PROVE  CampInv' /\ (SpentInv => SpentInv')
<1>1. PICK step, c : /\ Leaves(d, step, c) /\ step.status = "done" /\ c.spent = call[d].now.spent
                     /\ c.status = call[d].now.status
                     /\ call[d].now.status # "succeeded" => c.iteration = call[d].now.iteration + 1
                     /\ step.objects = call[d].seen.objects /\ step.job = call[d].seen.job
                     /\ call[d].seen.stage = "promote" /\ call[d].at = "run" /\ history' = history
  BY PromoteFacts
<1>2. InFlight(d) /\ Kept(call[d].seen, step) /\ call[d].step \in 1 .. Len(steps)
  BY <1>1, HeldFacts DEF Leaves, CampInv
<1>3. step.stage = "promote" BY <1>1, <1>2 DEF Kept
<1>4. step.objects = {}
  <2>1. call[d].seen = steps[call[d].step] /\ call[d].seen.status # "done" BY <1>2 DEF InFlight, Open
  <2> QED BY <1>1, <1>2, <2>1 DEF CampInv, Good
<1>5. Now \in Nat /\ Now + 1 \in {Now, Now + 1} BY NowFacts
<1>6. c.iteration = Now + 1 /\ c.spent = camp.spent
  <2>1. call[d].now.status # "succeeded" BY <1>2 DEF InFlight, Terminal
  <2> QED BY <1>1, <1>2, <2>1 DEF InFlight
<1>7. /\ CampInv' /\ camp'.iteration = Now + 1 /\ camp'.spent = c.spent
      /\ Rewritten(steps, Len(steps), Now, call[d].step, steps', step)
  BY <1>1, <1>3, <1>4, <1>5, <1>6, LeavesInv
<1>8. Counted(steps', Len(steps)) = Counted(steps, Len(steps))
  <2>1. Good(steps, Len(steps), Now, reviewed) /\ Len(steps) \in Nat BY TypeFacts DEF CampInv
  <2> QED BY <1>2, <1>3, <1>4, <1>5, <1>7, <2>1, RewriteCounts
<1>9. Len(steps') = Len(steps) BY <1>1, LeavesFacts
<1> QED BY <1>6, <1>7, <1>8, <1>9 DEF SpentInv

\* A stage that may begin: it is open, or no step of it is live and what comes before it is done.
MayBegin(stage) ==
  \/ OpenSteps(camp, stage) # {}
  \/ /\ \A n \in 1 .. Len(steps) : In(steps[n], Now, stage) => ~Live(steps[n])
     /\ stage = "label" => DoneIn(steps, Len(steps), Now, "mine")
     /\ stage = "promote" => DoneIn(steps, Len(steps), Now, "label")

LEMMA OpenIs ==
  ASSUME TypeInv, NEW stage
  PROVE  /\ OpenSteps(camp, stage) = {n \in 1 .. Len(steps) : In(steps[n], Now, stage) /\ Open(steps[n])}
         /\ OpenSteps(camp, stage) # {} =>
              Latest(OpenSteps(camp, stage)) \in 1 .. Len(steps)
              /\ In(steps[Latest(OpenSteps(camp, stage))], Now, stage)
              /\ Open(steps[Latest(OpenSteps(camp, stage))])
<1>1. OpenSteps(camp, stage) = {n \in 1 .. Len(steps) : In(steps[n], Now, stage) /\ Open(steps[n])}
  BY TypeFacts DEF OpenSteps, StepsOf, Now, In, Open
<1>2. OpenSteps(camp, stage) # {} => Latest(OpenSteps(camp, stage)) \in OpenSteps(camp, stage)
  BY OpenStepsFacts
<1> QED BY <1>1, <1>2

LEMMA RunStageInv ==
  ASSUME OneDriver, TypeInv, CampInv, NEW d \in Driver, NEW stage \in Stage, RunStage(d, stage),
         camp.status \notin Terminal, MayBegin(stage)
  PROVE  CampInv' /\ (SpentInv => SpentInv')
<1> DEFINE c == Started(camp)
           open == OpenSteps(c, stage)
           N == Len(steps)
<1>1. /\ UNCHANGED <<jobs, reviewed, history>>
      /\ call'[d].at = "run" /\ call'[d].seen = steps'[call'[d].step]
      /\ call'[d].was = camp' /\ call'[d].now = c
      /\ \/ /\ open = {} /\ camp' = c /\ call'[d].step = N + 1
            /\ steps' = Append(steps, NewStep(c.iteration, stage))
         \/ /\ open # {} /\ camp' = camp /\ call'[d].step = Latest(open) /\ steps' = steps
  BY RunStageFacts
<1>2. c \in Row /\ c.spent = camp.spent /\ c.iteration = Now /\ c.status \notin Terminal /\ c.iteration # 0
  <2>1. camp \in Row BY TypeFacts
  <2>2. CASE camp.status = "pending"
    BY <2>1, <2>2, StartedFacts, NowFacts DEF Now, Terminal
  <2>3. CASE camp.status # "pending"
    <3>1. camp.status \in {"running", "blocked"} BY <2>1, <2>3 DEF Row
    <3> QED BY <2>1, <2>3, <3>1, StartedFacts, NowFacts DEF CampInv
  <2> QED BY <2>2, <2>3
<1>3. AtLeast1(c.iteration) = Now BY <1>2 DEF AtLeast1
<1>4. open = OpenSteps(camp, stage) BY <1>3 DEF OpenSteps, StepsOf, Now
<1>5. \A e \in Driver : e = d BY DEF OneDriver
<1>6. N \in Nat /\ Now \in Nat /\ \A n \in 1 .. N : steps[n].iteration \in Nat
  BY TypeFacts, NowFacts
<1> HIDE DEF c, open, N
<1>7. CASE open = {}
  <2> DEFINE s == NewStep(c.iteration, stage)
  <2>1. camp' = c /\ call'[d].step = N + 1 /\ steps' = Append(steps, s) BY <1>1, <1>7
  <2>2. /\ s \in Step /\ s.job = NoJob /\ s.iteration = Now /\ s.stage = stage /\ s.objects = {}
        /\ s.status = "running" /\ Open(s)
    BY <1>2, <1>6, NewStepFacts DEF Open
  <2> HIDE DEF s
  <2>3. /\ Len(steps') = N + 1 /\ steps'[N + 1] = s /\ \A n \in 1 .. N : steps'[n] = steps[n]
    BY <2>1, <2>2, AppendFacts, TypeFacts DEF NoJob, N
  <2>4. /\ \A n \in 1 .. N : In(steps[n], s.iteration, s.stage) => ~Live(steps[n])
        /\ s.stage = "label" => DoneIn(steps, N, s.iteration, "mine")
        /\ s.stage = "promote" => DoneIn(steps, N, s.iteration, "label")
    BY <1>4, <1>7, <2>2 DEF MayBegin, N
  <2>5. Good(steps, N, Now, reviewed) BY DEF CampInv, N
  <2>6. Good(steps', N + 1, Now, reviewed) /\ Counted(steps', N + 1) = Counted(steps, N)
    <3>1. s.iteration \in Nat /\ s.iteration <= Now /\ s.objects = {} BY <1>6, <2>2
    <3>2. \/ s.status = "stopped" /\ s.stage = "promote"
          \/ /\ Open(s) /\ \A n \in 1 .. N : In(steps[n], s.iteration, s.stage) => ~Live(steps[n])
             /\ s.stage = "label" => DoneIn(steps, N, s.iteration, "mine")
             /\ s.stage = "promote" => DoneIn(steps, N, s.iteration, "label")
      BY <2>2, <2>4
    <3> DEFINE T == steps'
    <3>3. T[N + 1] = s /\ \A n \in 1 .. N : T[n] = steps[n] BY <2>3
    <3> HIDE DEF T
    <3>4. Good(T, N + 1, Now, reviewed) /\ Counted(T, N + 1) = Counted(steps, N)
      BY <1>6, <2>5, <3>1, <3>2, <3>3, AppendGood
    <3> QED BY <3>4 DEF T
  <2>7. Now' = Now BY <1>3, <2>1 DEF Now
  <2>8. Good(steps', Len(steps'), Now', reviewed') BY <1>1, <2>3, <2>6, <2>7
  <2>9. InFlight(d)' BY <1>1, <1>2, <2>1, <2>2, <2>3, <2>7 DEF InFlight
  <2>10. CampInv' BY <1>2, <1>5, <2>1, <2>8, <2>9 DEF CampInv
  <2>11. SpentInv => SpentInv' BY <1>2, <2>1, <2>3, <2>6 DEF SpentInv, N
  <2> QED BY <2>10, <2>11
<1>8. CASE open # {}
  <2>1. camp' = camp /\ call'[d].step = Latest(open) /\ steps' = steps BY <1>1, <1>8
  <2>2. /\ Latest(open) \in 1 .. N /\ In(steps[Latest(open)], Now, stage)
        /\ Open(steps[Latest(open)])
    BY <1>4, <1>8, OpenIs DEF N
  <2>3. Now' = Now BY <2>1 DEF Now
  <2>4. Good(steps', Len(steps'), Now', reviewed') BY <1>1, <2>1, <2>3 DEF CampInv
  <2>5. InFlight(d)' BY <1>1, <1>2, <2>1, <2>2, <2>3 DEF InFlight, In
  <2>6. CampInv' BY <1>5, <2>1, <2>4, <2>5 DEF CampInv
  <2> QED BY <2>1, <2>6 DEF SpentInv
<1> QED BY <1>7, <1>8

LEMMA AskInv ==
  ASSUME OneDriver, TypeInv, CampInv, NEW d \in Driver, call[d].at = "off",
         NEW stage \in Stage, AskApproval(stage), MayBegin(stage)
  PROVE  CampInv' /\ (SpentInv => SpentInv')
<1> DEFINE open == OpenSteps(camp, stage)
           N == Len(steps)
<1>1. /\ UNCHANGED <<camp, call, jobs, reviewed, history>>
      /\ \/ /\ open = {}
            /\ \E s \in Step : /\ steps' = Append(steps, s) /\ s.status = "waiting"
                               /\ s.iteration = Now /\ s.stage = stage /\ s.objects = {}
                               /\ s.job = NoJob
         \/ /\ open # {} /\ Latest(open) \in 1 .. N
            /\ \E s \in Step : /\ steps' = [steps EXCEPT ![Latest(open)] = s]
                               /\ s.status = "waiting"
                               /\ s.iteration = steps[Latest(open)].iteration
                               /\ s.stage = steps[Latest(open)].stage
                               /\ s.objects = steps[Latest(open)].objects
                               /\ s.job = steps[Latest(open)].job
  BY AskFacts DEF Now
<1>2. Now' = Now BY <1>1 DEF Now
<1>3. \A e \in Driver : call'[e].at = "off" BY <1>1 DEF OneDriver
<1>4. N \in Nat /\ Now \in Nat /\ \A n \in 1 .. N : steps[n].iteration \in Nat
  BY TypeFacts, NowFacts
<1>5. Good(steps, N, Now, reviewed) BY DEF CampInv
<1>6. ASSUME Good(steps', Len(steps'), Now, reviewed), Counted(steps', Len(steps')) = Counted(steps, N)
      PROVE  CampInv' /\ (SpentInv => SpentInv')
  BY <1>1, <1>2, <1>3, <1>6 DEF CampInv, SpentInv
<1> HIDE DEF open, N
<1>7. CASE open = {}
  <2>1. PICK s : /\ s \in Step /\ steps' = Append(steps, s) /\ s.status = "waiting"
                 /\ s.iteration = Now /\ s.stage = stage /\ s.objects = {} /\ s.job = NoJob
    BY <1>1, <1>7
  <2>2. /\ Len(steps') = N + 1 /\ steps'[N + 1] = s /\ \A n \in 1 .. N : steps'[n] = steps[n]
    BY <2>1, AppendFacts, TypeFacts DEF NoJob, N
  <2>3. /\ Open(s) /\ \A n \in 1 .. N : In(steps[n], s.iteration, s.stage) => ~Live(steps[n])
        /\ s.stage = "label" => DoneIn(steps, N, s.iteration, "mine")
        /\ s.stage = "promote" => DoneIn(steps, N, s.iteration, "label")
    BY <1>7, <2>1 DEF MayBegin, N, open, Open
  <2>4. Good(steps', N + 1, Now, reviewed) /\ Counted(steps', N + 1) = Counted(steps, N)
    <3>1. s.iteration \in Nat /\ s.iteration <= Now /\ s.objects = {} BY <1>4, <2>1
    <3>2. \/ s.status = "stopped" /\ s.stage = "promote"
          \/ /\ Open(s) /\ \A n \in 1 .. N : In(steps[n], s.iteration, s.stage) => ~Live(steps[n])
             /\ s.stage = "label" => DoneIn(steps, N, s.iteration, "mine")
             /\ s.stage = "promote" => DoneIn(steps, N, s.iteration, "label")
      BY <2>3
    <3> DEFINE T == steps'
    <3>3. T[N + 1] = s /\ \A n \in 1 .. N : T[n] = steps[n] BY <2>2
    <3> HIDE DEF T
    <3>4. Good(T, N + 1, Now, reviewed) /\ Counted(T, N + 1) = Counted(steps, N)
      BY <1>4, <1>5, <3>1, <3>2, <3>3, AppendGood
    <3> QED BY <3>4 DEF T
  <2> QED BY <1>6, <2>2, <2>4
<1>8. CASE open # {}
  <2> DEFINE n == Latest(open)
  <2>1. n \in 1 .. N /\ In(steps[n], Now, stage) /\ Open(steps[n])
    BY <1>8, OpenIs DEF open, N
  <2>2. PICK s \in Step : /\ steps' = [steps EXCEPT ![n] = s] /\ s.status = "waiting"
                          /\ s.iteration = steps[n].iteration /\ s.stage = steps[n].stage
                          /\ s.objects = steps[n].objects /\ s.job = steps[n].job
    BY <1>1, <1>8
  <2> HIDE DEF n
  <2>3. /\ Len(steps') = N /\ steps'[n] = s /\ \A m \in 1 .. N : m # n => steps'[m] = steps[m]
    <3>1. s.job \in 0 .. Len(jobs) BY <2>1, <2>2, TypeFacts DEF N
    <3> QED BY <2>1, <2>2, <3>1, RewriteFacts DEF N
  <2>4. Rewritten(steps, N, Now, n, steps', s) BY <2>1, <2>2, <2>3 DEF Rewritten, Kept, In
  <2>5. s.objects = {} BY <1>5, <2>1, <2>2 DEF Good, Open
  <2>6. Now \in {Now, Now + 1} /\ Now # Now + 1 BY <1>4
  <2>7. Good(steps', N, Now, reviewed) BY <1>4, <1>5, <2>1, <2>2, <2>4, <2>5, <2>6, RewriteGood
  <2>8. Counted(steps', N) = Counted(steps, N)
    BY <1>4, <1>5, <2>1, <2>2, <2>4, <2>5, RewriteCounts
  <2> QED BY <1>6, <2>3, <2>7, <2>8
<1> QED BY <1>7, <1>8

\* What the daemon goes on with may begin: the iteration would have ended with its promotion.
LEMMA NextMayBegin ==
  ASSUME TypeInv, CampInv
  PROVE  MayBegin(NextStage(camp))
<1> DEFINE done == DoneStages(camp.iteration)
           stage == NextStage(camp)
<1>1. \A st : st \in done <=> DoneIn(steps, Len(steps), Now, st)
  BY TypeFacts DEF DoneStages, StepsOf, DoneIn, In, Now
<1>2. "promote" \notin done
  BY <1>1 DEF DoneIn, CampInv, Good
<1>3. stage \notin done
  <2>1. "promote" \in Stage BY StageIs
  <2> QED BY <1>2, <2>1, NextStageFacts
<1>4. /\ stage = "label" => DoneIn(steps, Len(steps), Now, "mine")
      /\ stage = "promote" => DoneIn(steps, Len(steps), Now, "label")
  <2>1. /\ stage = "label" => "mine" \in done
        /\ stage = "promote" => "label" \in done
    BY NextStageFacts
  <2> HIDE DEF stage, done
  <2> QED BY <1>1, <2>1
<1> HIDE DEF stage
<1>5. ASSUME OpenSteps(camp, stage) = {}, NEW n \in 1 .. Len(steps), In(steps[n], Now, stage)
      PROVE  ~Live(steps[n])
  <2>1. ~Open(steps[n]) BY <1>5, OpenIs
  <2>2. steps[n].status # "done" BY <1>1, <1>3, <1>5 DEF DoneIn
  <2> QED BY <2>1, <2>2 DEF Live, Open
<1> QED BY <1>4, <1>5 DEF MayBegin, stage

\* The campaign is stopped: one step more, and the calls in flight go on.
LEMMA StoppedInv ==
  ASSUME TypeInv, CampInv, StopCampaign
  PROVE  CampInv' /\ (SpentInv => SpentInv')
<1> DEFINE N == Len(steps)
<1>1. /\ UNCHANGED <<call, jobs, reviewed>>
      /\ camp'.status = "stopped" /\ camp'.iteration = camp.iteration /\ camp'.spent = camp.spent
  BY StopFacts
<1>2. PICK s : /\ s \in Step /\ steps' = Append(steps, s) /\ s.status = "stopped"
               /\ s.stage = "promote" /\ s.iteration = camp.iteration /\ s.objects = {}
               /\ s.job = NoJob
  BY StopFacts
<1>3. Now' = Now BY <1>1 DEF Now
<1>4. N \in Nat /\ Now \in Nat /\ \A n \in 1 .. N : steps[n].iteration \in Nat
  BY TypeFacts, NowFacts
<1>5. /\ Len(steps') = N + 1 /\ steps'[N + 1] = s /\ \A n \in 1 .. N : steps'[n] = steps[n]
  BY <1>2, AppendFacts, TypeFacts DEF NoJob
<1>6. Good(steps, N, Now, reviewed) BY DEF CampInv
<1>7. s.objects = {} /\ s.iteration \in Nat /\ s.iteration <= Now BY <1>2, NowFacts
<1> HIDE DEF N
<1>8. Good(steps', N + 1, Now, reviewed) /\ Counted(steps', N + 1) = Counted(steps, N)
  <2>1. \/ s.status = "stopped" /\ s.stage = "promote"
        \/ /\ Open(s) /\ \A n \in 1 .. N : In(steps[n], s.iteration, s.stage) => ~Live(steps[n])
           /\ s.stage = "label" => DoneIn(steps, N, s.iteration, "mine")
           /\ s.stage = "promote" => DoneIn(steps, N, s.iteration, "label")
    BY <1>2
  <2> DEFINE T == steps'
  <2>2. T[N + 1] = s /\ \A n \in 1 .. N : T[n] = steps[n] BY <1>5
  <2> HIDE DEF T
  <2>3. Good(T, N + 1, Now, reviewed) /\ Counted(T, N + 1) = Counted(steps, N)
    BY <1>4, <1>6, <1>7, <2>1, <2>2, AppendGood
  <2> QED BY <2>3 DEF T
<1>9. ASSUME NEW e \in Driver, call'[e].at # "off" PROVE InFlight(e)'
  <2>1. call[e].at # "off" /\ call'[e] = call[e] BY <1>1, <1>9
  <2>2. InFlight(e) /\ call[e].step \in 1 .. N BY <2>1, HeldFacts DEF CampInv, N
  <2> QED BY <1>1, <1>3, <1>5, <2>1, <2>2 DEF InFlight
<1>10. CampInv' BY <1>1, <1>3, <1>5, <1>8, <1>9 DEF CampInv
<1>11. SpentInv => SpentInv' BY <1>1, <1>5, <1>8 DEF SpentInv, N
<1> QED BY <1>10, <1>11

\* The retrain is enqueued; the call goes on to write its number down.
LEMMA EnqueueInv ==
  ASSUME OneDriver, TypeInv, CampInv, NEW d \in Driver, Enqueue(d)
  PROVE  CampInv' /\ (SpentInv => SpentInv')
<1>1. /\ UNCHANGED <<camp, steps, reviewed>>
      /\ call[d].at = "run" /\ call[d].seen.stage = "train" /\ call[d].seen.job = NoJob
      /\ call'[d].seen = call[d].seen /\ call'[d].step = call[d].step
      /\ call'[d].was = call[d].was /\ call'[d].now = call[d].now
  BY EnqueueFacts
<1>2. Now' = Now /\ InFlight(d) BY <1>1 DEF Now, CampInv
<1>3. InFlight(d)' BY <1>1, <1>2 DEF InFlight
<1>4. \A e \in Driver : e = d BY DEF OneDriver
<1>5. CampInv' BY <1>1, <1>2, <1>3, <1>4 DEF CampInv
<1> QED BY <1>1, <1>5 DEF SpentInv

\* Every action keeps the invariant, and the count.
LEMMA CampStep ==
  ASSUME OneDriver, Careful, TypeInv, CampInv, [Next]_vars
  PROVE  CampInv' /\ (SpentInv => SpentInv')
<1>1. CASE UNCHANGED vars BY <1>1 DEF vars, CampInv, SpentInv, Now, InFlight
<1>2. ASSUME NEW d \in Driver, Tick(d) PROVE CampInv' /\ (SpentInv => SpentInv')
  <2>1. call[d].at = "off" /\ camp.status \notin Terminal BY <1>2, TickFacts
  <2>2. CASE /\ camp' \in Row /\ camp'.status \in Terminal /\ camp'.iteration = camp.iteration
             /\ camp'.spent = camp.spent /\ UNCHANGED <<steps, call, jobs, reviewed, history>>
    <3>1. Now' = Now BY <2>2 DEF Now
    <3>2. \A e \in Driver : call'[e].at = "off" BY <2>1, <2>2 DEF OneDriver
    <3>3. camp'.status \notin {"running", "blocked"} BY <2>2 DEF Terminal
    <3>4. CampInv' BY <2>2, <3>1, <3>2, <3>3 DEF CampInv
    <3> QED BY <2>2, <3>4 DEF SpentInv
  <2>3. CASE AskApproval(NextStage(camp)) BY <2>1, <2>3, AskInv, NextMayBegin, NextStageFacts
  <2>4. CASE RunStage(d, NextStage(camp)) BY <2>1, <2>4, RunStageInv, NextMayBegin, NextStageFacts
  <2> QED BY <1>2, <2>2, <2>3, <2>4, TickFacts
<1>3. ASSUME NEW d \in Driver, NEW stage \in Stage, Approve(d, stage)
      PROVE  CampInv' /\ (SpentInv => SpentInv')
  <2>1. camp.status \notin Terminal /\ RunStage(d, stage) BY <1>3 DEF Approve
  <2>2. PICK n \in StepsOf(camp.iteration) : steps[n].stage = stage /\ steps[n].status = "waiting"
    BY <1>3 DEF Approve
  <2>3. n \in OpenSteps(camp, stage) BY <2>2 DEF OpenSteps
  <2>4. MayBegin(stage) BY <2>3 DEF MayBegin
  <2> QED BY <2>1, <2>4, RunStageInv
<1>4. ASSUME NEW d \in Driver, Handler(d) PROVE CampInv' /\ (SpentInv => SpentInv')
  <2>1. CASE Mine(d) BY <2>1, MineInv
  <2>2. CASE Judge(d) BY <2>2, JudgeFacts, QuietLeaves
  <2>3. CASE Label(d) BY <2>3, LabelInv
  <2>4. CASE TrainPoll(d) \/ TrainWaitsGpu(d)
    <3>1. PICK step, c : /\ Leaves(d, step, c) /\ c = call[d].now /\ step.status \in {"waiting", "done"}
                         /\ step.objects = call[d].seen.objects /\ call[d].seen.stage = "train"
      BY <2>4, TrainFacts
    <3> QED BY <3>1, QuietLeaves
  <2>5. CASE Enqueue(d) BY <2>5, EnqueueInv
  <2>6. CASE RecordJob(d) BY <2>6, RecordJobFacts, QuietLeaves
  <2>7. CASE Evaluate(d) BY <2>7, EvaluateFacts, QuietLeaves
  <2>8. CASE Promote(d) BY <2>8, PromoteInv
  <2> QED BY <1>4, <2>1, <2>2, <2>3, <2>4, <2>5, <2>6, <2>7, <2>8 DEF Handler
<1>5. ASSUME NEW d \in Driver, StageFails(d) PROVE CampInv' /\ (SpentInv => SpentInv')
  BY <1>5, StageFailsFacts, QuietLeaves
<1>6. ASSUME NEW d \in Driver, Crash(d) PROVE CampInv' /\ (SpentInv => SpentInv')
  <2>1. UNCHANGED <<camp, steps, jobs, reviewed>> /\ call'[d] = Idle BY <1>6, CrashFacts
  <2>2. \A e \in Driver : call'[e].at = "off" BY <2>1, IdleFacts DEF OneDriver
  <2>3. CampInv' BY <2>1, <2>2 DEF CampInv, Now
  <2> QED BY <2>1, <2>3 DEF SpentInv
<1>7. CASE StopCampaign BY <1>7, StoppedInv
<1>8. ASSUME NEW o \in Object, Review(o) PROVE CampInv' /\ (SpentInv => SpentInv')
  <2>1. reviewed \subseteq reviewed' /\ UNCHANGED <<camp, steps, call, jobs, history>>
    BY <1>8 DEF Review
  <2>2. Good(steps, Len(steps), Now, reviewed') BY <2>1, ReviewGood DEF CampInv
  <2>3. CampInv' BY <2>1, <2>2 DEF CampInv, Now, InFlight
  <2> QED BY <2>1, <2>3 DEF SpentInv
<1>9. ASSUME NEW k \in DOMAIN jobs, JobRuns(k) \/ JobEnds(k) PROVE CampInv' /\ (SpentInv => SpentInv')
  <2>1. UNCHANGED <<camp, steps, call, reviewed>> BY <1>9, JobFacts
  <2>2. CampInv' BY <2>1 DEF CampInv, Now, InFlight
  <2> QED BY <2>1, <2>2 DEF SpentInv
<1> QED BY <1>1, <1>2, <1>3, <1>4, <1>5, <1>6, <1>7, <1>8, <1>9 DEF Next

LEMMA CampInit == Init => CampInv /\ SpentInv
<1> SUFFICES ASSUME Init PROVE CampInv /\ SpentInv OBVIOUS
<1>1. Len(steps) = 0 /\ camp.status = "pending" /\ camp.spent = 0 BY DEF Init
<1>2. \A d \in Driver : call[d].at = "off" BY TypeInit, IdleFacts DEF Init
<1>3. 1 .. Len(steps) = {} BY <1>1
<1>4. Good(steps, Len(steps), Now, reviewed) BY <1>3 DEF Good
<1>5. Counted(steps, Len(steps)) = {} BY <1>3 DEF Counted
<1>6. CampInv BY <1>1, <1>2, <1>4 DEF CampInv
<1> QED BY <1>1, <1>5, <1>6, FS_EmptySet DEF SpentInv

(* labels_spent says the batches people finished, each object once: over   *)
(* any number of iterations, crashes, failed stages, stops and approvals,  *)
(* when one call runs at a time and people approve what waits for them.    *)
THEOREM LabelsCountedOnceAlways ==
  ASSUME OneDriver, Careful
  PROVE  Spec => []LabelsCountedOnce
<1> DEFINE Inv == TypeInv /\ CampInv /\ SpentInv
<1>1. Init => Inv BY TypeInit, CampInit
<1>2. Inv /\ [Next]_vars => Inv' BY TypeStep, CampStep
<1>3. Inv => LabelsCountedOnce BY CountedIs DEF LabelsCountedOnce, SpentInv
<1> HIDE DEF Inv
<1> QED BY <1>1, <1>2, <1>3, PTL DEF Spec

-------------------------------------------------------------------------------
(* The retrains of an iteration. *)

Trains(i) == {k \in 1 .. Len(jobs) : jobs[k].iteration = i}
Faults == history.crashes + history.fails

\* A retrain that is not lost: a live step names it, or a call is about to write it down.
Named(S, N, i) == \E n \in 1 .. N : Live(S[n]) /\ In(S[n], i, "train") /\ S[n].job # NoJob
InHand(i) == \E d \in Driver : call[d].at = "queued" /\ call[d].seen.iteration = i
Accounted(i) == Named(steps, Len(steps), i) \/ InHand(i)

\* An iteration has one retrain for each fault, and one more only if it still holds it.
JobInv ==
  /\ \A d \in Driver : call[d].at = "queued" => call[d].job # NoJob
  /\ \A i \in Nat : /\ Cardinality(Trains(i)) <= Faults + 1
                    /\ ~Accounted(i) => Cardinality(Trains(i)) <= Faults

LEMMA TrainsFinite ==
  ASSUME TypeInv, NEW i
  PROVE  IsFiniteSet(Trains(i)) /\ Cardinality(Trains(i)) \in Nat /\ Trains(i) \subseteq 1 .. Len(jobs)
<1>1. Len(jobs) \in Nat /\ Trains(i) \subseteq 1 .. Len(jobs) BY TypeFacts DEF Trains
<1>2. IsFiniteSet(1 .. Len(jobs)) BY <1>1, FS_Interval
<1> QED BY <1>1, <1>2, FS_Subset, FS_CardinalityType

LEMMA FaultsNat == TypeInv => Faults \in Nat
BY DEF TypeInv, AroundOK, HistoryType, Faults

\* No retrain more: it is enough that those that are held stay so, or that there is a fault more.
LEMMA SameTrains ==
  ASSUME TypeInv, TypeInv', JobInv,
         Len(jobs') = Len(jobs), \A k \in 1 .. Len(jobs) : jobs'[k].iteration = jobs[k].iteration,
         \A d \in Driver : call'[d].at = "queued" => call'[d].job # NoJob,
         \/ Faults' = Faults /\ \A i \in Nat : Accounted(i) => Accounted(i)'
         \/ Faults' = Faults + 1
  PROVE  JobInv'
<1>1. \A i \in Nat : Trains(i)' = Trains(i) BY DEF Trains
<1>2. Faults \in Nat /\ \A i \in Nat : Cardinality(Trains(i)) \in Nat BY FaultsNat, TrainsFinite
<1>3. ASSUME NEW i \in Nat
      PROVE  /\ Cardinality(Trains(i)') <= Faults' + 1
             /\ ~Accounted(i)' => Cardinality(Trains(i)') <= Faults'
  <2>1. /\ Cardinality(Trains(i)) <= Faults + 1
        /\ ~Accounted(i) => Cardinality(Trains(i)) <= Faults
    BY DEF JobInv
  <2>2. Trains(i)' = Trains(i) BY <1>1
  <2>3. CASE Faults' = Faults + 1 BY <1>2, <2>1, <2>2, <2>3
  <2>4. CASE Faults' = Faults /\ \A j \in Nat : Accounted(j) => Accounted(j)' BY <2>1, <2>2, <2>4
  <2> QED BY <2>3, <2>4
<1> QED BY <1>3 DEF JobInv

\* A call that ends well leaves the retrain on its step.
LEMMA LeavesJobs ==
  ASSUME OneDriver, TypeInv, TypeInv', CampInv, JobInv,
         NEW d \in Driver, NEW step, NEW c, Leaves(d, step, c), history' = history,
         step.status \in {"waiting", "done"},
         \/ call[d].at = "run" /\ step.job = call[d].seen.job
         \/ call[d].at = "queued" /\ step.job # NoJob
  PROVE  JobInv'
<1> DEFINE n == call[d].step
           N == Len(steps)
<1>1. /\ call'[d] = Idle /\ n \in 1 .. N /\ Len(steps') = N
      /\ steps'[n] = Flush(steps[n], call[d].seen, step)
      /\ \A m \in 1 .. N : m # n => steps'[m] = steps[m]
  BY LeavesFacts
<1>2. /\ step \in Step /\ Kept(call[d].seen, step) /\ UNCHANGED <<jobs, reviewed>>
      /\ call[d].at # "off"
  BY DEF Leaves
<1>3. InFlight(d) BY <1>2 DEF CampInv
<1>4. call[d].seen \in Step BY <1>2, HeldFacts
<1>5. steps'[n] = step BY <1>1, <1>2, <1>3, <1>4, FlushFresh DEF InFlight
<1>6. \A e \in Driver : e = d BY DEF OneDriver
<1>7. Live(step) BY DEF Live
<1>8. steps[n] = call[d].seen BY <1>3 DEF InFlight
<1> HIDE DEF n, N
<1>9. ASSUME NEW i \in Nat, Accounted(i) PROVE Named(steps', N, i)
  <2>1. CASE Named(steps, N, i)
    <3>1. PICK m \in 1 .. N : Live(steps[m]) /\ In(steps[m], i, "train") /\ steps[m].job # NoJob
      BY <2>1 DEF Named
    <3>2. CASE m # n BY <1>1, <3>1, <3>2 DEF Named
    <3>3. CASE m = n
      <4>1. In(step, i, "train") BY <1>2, <1>8, <3>1, <3>3 DEF Kept, In
      <4>2. step.job # NoJob BY <1>8, <3>1, <3>3
      <4> QED BY <1>1, <1>5, <1>7, <4>1, <4>2 DEF Named
    <3> QED BY <3>2, <3>3
  <2>2. CASE InHand(i)
    <3>1. call[d].at = "queued" /\ call[d].seen.iteration = i BY <1>6, <2>2 DEF InHand
    <3>2. call[d].seen.stage = "train" BY <1>3, <3>1 DEF InFlight
    <3>3. In(step, i, "train") BY <1>2, <3>1, <3>2 DEF Kept, In
    <3>4. step.job # NoJob BY <3>1
    <3> QED BY <1>1, <1>5, <1>7, <3>3, <3>4 DEF Named
  <2> QED BY <1>9, <2>1, <2>2 DEF Accounted, N
<1>10. \A i \in Nat : Accounted(i) => Accounted(i)' BY <1>1, <1>9 DEF Accounted
<1>11. \A e \in Driver : call'[e].at = "off" BY <1>1, <1>6, IdleFacts
<1>12. Faults' = Faults BY DEF Faults
<1> QED BY <1>2, <1>10, <1>11, <1>12, SameTrains

\* The steps that were stay as they are, and nothing is in hand that was not.
LEMMA MoreSteps ==
  ASSUME TypeInv, TypeInv', JobInv, UNCHANGED <<jobs>>, Faults' = Faults,
         Len(steps') >= Len(steps), \A n \in 1 .. Len(steps) : steps'[n] = steps[n],
         \A d \in Driver : /\ call[d].at = "queued" => call'[d] = call[d]
                           /\ call'[d].at = "queued" => call'[d] = call[d]
  PROVE  JobInv'
<1>1. Len(steps) \in Nat /\ Len(steps') \in Nat BY TypeFacts DEF TypeInv, RowsOK
<1>2. \A i : Named(steps, Len(steps), i) => Named(steps', Len(steps'), i)
  BY <1>1 DEF Named
<1>3. \A i : InHand(i) => InHand(i)' BY DEF InHand
<1>4. \A i \in Nat : Accounted(i) => Accounted(i)' BY <1>2, <1>3 DEF Accounted
<1>5. \A d \in Driver : call'[d].at = "queued" => call'[d].job # NoJob BY DEF JobInv
<1> QED BY <1>4, <1>5, SameTrains

\* A person is asked: the step keeps its retrain, if it has one.
LEMMA AskJobs ==
  ASSUME TypeInv, TypeInv', JobInv, NEW stage \in Stage, AskApproval(stage)
  PROVE  JobInv'
<1> DEFINE open == OpenSteps(camp, stage)
           n == Latest(open)
           N == Len(steps)
<1>1. /\ UNCHANGED <<camp, call, jobs, reviewed, history>>
      /\ \/ \E s \in Step : steps' = Append(steps, s) /\ s.job = NoJob
         \/ /\ open # {} /\ n \in 1 .. N
            /\ \E s \in Step : /\ steps' = [steps EXCEPT ![n] = s] /\ s.status = "waiting"
                               /\ s.iteration = steps[n].iteration /\ s.stage = steps[n].stage
                               /\ s.job = steps[n].job
  BY AskFacts
<1>2. Faults' = Faults BY <1>1 DEF Faults
<1>3. N \in Nat BY TypeFacts
<1>4. CASE \E s \in Step : steps' = Append(steps, s) /\ s.job = NoJob
  <2>1. PICK s \in Step : steps' = Append(steps, s) /\ s.job = NoJob BY <1>4
  <2>2. s.job \in 0 .. Len(jobs) BY <2>1, TypeFacts DEF NoJob
  <2>3. Len(steps') = N + 1 /\ \A m \in 1 .. N : steps'[m] = steps[m] BY <2>1, <2>2, AppendFacts
  <2>4. Len(steps') >= Len(steps) BY <1>3, <2>3
  <2> QED BY <1>1, <1>2, <2>3, <2>4, MoreSteps
<1>5. CASE /\ open # {} /\ n \in 1 .. N
           /\ \E s \in Step : /\ steps' = [steps EXCEPT ![n] = s] /\ s.status = "waiting"
                              /\ s.iteration = steps[n].iteration /\ s.stage = steps[n].stage
                              /\ s.job = steps[n].job
  <2>1. PICK s \in Step : /\ steps' = [steps EXCEPT ![n] = s] /\ s.status = "waiting"
                          /\ s.iteration = steps[n].iteration /\ s.stage = steps[n].stage
                          /\ s.job = steps[n].job
    BY <1>5
  <2> HIDE DEF n
  <2>2. /\ Len(steps') = N /\ steps'[n] = s /\ \A m \in 1 .. N : m # n => steps'[m] = steps[m]
    <3>1. s.job \in 0 .. Len(jobs) BY <1>5, <2>1, TypeFacts
    <3> QED BY <1>5, <2>1, <3>1, RewriteFacts
  <2>3. Live(s) BY <2>1 DEF Live
  <2>4. \A m \in 1 .. N : /\ steps'[m].iteration = steps[m].iteration
                          /\ steps'[m].stage = steps[m].stage /\ steps'[m].job = steps[m].job
                          /\ Live(steps[m]) => Live(steps'[m])
    BY <2>1, <2>2, <2>3
  <2>5. \A i : Named(steps, N, i) => Named(steps', N, i) BY <2>4 DEF Named, In
  <2>6. \A i : InHand(i) => InHand(i)' BY <1>1 DEF InHand
  <2>7. \A i \in Nat : Accounted(i) => Accounted(i)' BY <2>2, <2>5, <2>6 DEF Accounted
  <2>8. \A d \in Driver : call'[d].at = "queued" => call'[d].job # NoJob BY <1>1 DEF JobInv
  <2> QED BY <1>1, <1>2, <2>7, <2>8, SameTrains
<1> QED BY <1>1, <1>4, <1>5

\* A retrain more: this iteration had none that it still held.
LEMMA EnqueueJobs ==
  ASSUME OneDriver, TypeInv, TypeInv', CampInv, JobInv, NEW d \in Driver, Enqueue(d)
  PROVE  JobInv'
<1> DEFINE N == Len(steps)
           L == Len(jobs)
<1>1. /\ UNCHANGED <<camp, steps, reviewed, history>>
      /\ call[d].at = "run" /\ call[d].seen.stage = "train" /\ call[d].seen.job = NoJob
      /\ call'[d].at = "queued" /\ call'[d].seen = call[d].seen
      /\ call'[d].job = L + 1 /\ Len(jobs') = L + 1
      /\ \A k \in 1 .. L : jobs'[k] = jobs[k]
      /\ jobs'[L + 1].iteration = call[d].now.iteration
  BY EnqueueFacts
<1>2. InFlight(d) /\ call[d].step \in 1 .. N BY <1>1, HeldFacts DEF CampInv
<1>3. \A e \in Driver : e = d BY DEF OneDriver
<1>4. L \in Nat /\ N \in Nat /\ Faults \in Nat /\ Now \in Nat BY TypeFacts, FaultsNat, NowFacts
<1>5. Faults' = Faults BY <1>1 DEF Faults
<1>6. jobs'[L + 1].iteration = Now BY <1>1, <1>2 DEF InFlight
<1>7. ~Accounted(Now)
  <2>1. ~InHand(Now) BY <1>1, <1>3 DEF InHand
  <2>2. ASSUME NEW n \in 1 .. N, Live(steps[n]), In(steps[n], Now, "train") PROVE steps[n].job = NoJob
    <3>1. steps[call[d].step] = call[d].seen /\ Live(call[d].seen) /\ call[d].seen.iteration = Now
      BY <1>2 DEF InFlight, Live, Open
    <3>2. In(steps[n], steps[call[d].step].iteration, steps[call[d].step].stage)
      BY <1>1, <2>2, <3>1 DEF In
    <3>3. Good(steps, N, Now, reviewed) BY DEF CampInv
    <3> HIDE DEF N
    <3>4. n = call[d].step BY <1>2, <1>4, <2>2, <3>1, <3>2, <3>3, OneLive
    <3> QED BY <1>1, <3>1, <3>4
  <2> QED BY <2>1, <2>2 DEF Accounted, Named
<1>8. call'[d].at = "queued" /\ call'[d].seen.iteration = Now BY <1>1, <1>2 DEF InFlight
<1> HIDE DEF L, N
<1>9. ASSUME NEW i \in Nat
      PROVE  /\ Cardinality(Trains(i)') <= Faults + 1
             /\ ~Accounted(i)' => Cardinality(Trains(i)') <= Faults
  <2>1. /\ Cardinality(Trains(i)) <= Faults + 1
        /\ ~Accounted(i) => Cardinality(Trains(i)) <= Faults
    BY DEF JobInv
  <2>2. IsFiniteSet(Trains(i)) /\ Cardinality(Trains(i)) \in Nat /\ Trains(i) \subseteq 1 .. L
    BY TrainsFinite DEF L
  <2>3. 1 .. L + 1 = (1 .. L) \cup {L + 1} BY <1>4
  <2>4. CASE i = Now
    <3>1. Trains(i)' = Trains(i) \cup {L + 1} BY <1>1, <1>4, <1>6, <2>3, <2>4 DEF Trains, L
    <3>2. L + 1 \notin Trains(i) BY <1>4, <2>2
    <3>3. Cardinality(Trains(i)') = Cardinality(Trains(i)) + 1
      BY <2>2, <3>1, <3>2, FS_AddElement
    <3>4. Cardinality(Trains(i)) <= Faults BY <1>7, <2>1, <2>4
    <3>5. Accounted(i)' BY <1>8, <2>4 DEF Accounted, InHand
    <3>6. Cardinality(Trains(i)') <= Faults + 1 BY <1>4, <2>2, <3>3, <3>4
    <3> QED BY <3>5, <3>6
  <2>5. CASE i # Now
    <3>1. Trains(i)' = Trains(i) BY <1>1, <1>4, <1>6, <2>3, <2>5 DEF Trains, L
    <3>2. Accounted(i) => Accounted(i)'
      <4>1. ~InHand(i) BY <1>1, <1>3 DEF InHand
      <4> QED BY <1>1, <4>1 DEF Accounted
    <3> QED BY <2>1, <3>1, <3>2
  <2> QED BY <2>4, <2>5
<1>10. \A e \in Driver : call'[e].at = "queued" => call'[e].job # NoJob
  <2>1. L + 1 # NoJob BY <1>4 DEF NoJob
  <2> QED BY <1>1, <1>3, <2>1
<1> QED BY <1>5, <1>9, <1>10 DEF JobInv

LEMMA JobStep ==
  ASSUME OneDriver, Careful, TypeInv, CampInv, JobInv, [Next]_vars
  PROVE  JobInv'
<1>0. TypeInv' BY TypeStep
<1>1. CASE UNCHANGED vars
  <2>1. UNCHANGED <<steps, call, jobs, history>> BY <1>1 DEF vars
  <2> QED BY <2>1 DEF JobInv, Accounted, Named, InHand, Trains, Faults
<1>2. ASSUME NEW d \in Driver, NEW stage \in Stage, RunStage(d, stage), call[d].at = "off" PROVE JobInv'
  <2>1. /\ UNCHANGED <<jobs, reviewed, history>> /\ Alone(d) /\ call'[d].at = "run"
        /\ \/ \E c : c = Started(camp) /\ steps' = Append(steps, NewStep(c.iteration, stage))
           \/ steps' = steps
    BY <1>2, RunStageFacts
  <2>2. Len(steps') >= Len(steps) /\ \A n \in 1 .. Len(steps) : steps'[n] = steps[n]
    <3>1. Len(steps) \in Nat BY TypeFacts
    <3>2. CASE steps' = steps BY <3>1, <3>2
    <3>3. CASE steps' # steps
      <4>1. steps' = Append(steps, NewStep(Started(camp).iteration, stage)) BY <2>1, <3>3
      <4> DEFINE s == NewStep(Started(camp).iteration, stage)
      <4>2. Started(camp).iteration \in Nat BY StartedFacts, TypeFacts DEF Row
      <4>3. s \in Step /\ s.job \in 0 .. Len(jobs)
        BY <4>2, NewStepFacts, TypeFacts DEF NoJob
      <4>4. steps' = Append(steps, s) BY <4>1
      <4> HIDE DEF s
      <4>5. Len(steps') = Len(steps) + 1 /\ \A n \in 1 .. Len(steps) : steps'[n] = steps[n]
        BY <4>3, <4>4, AppendFacts
      <4> QED BY <3>1, <4>5
    <3> QED BY <3>2, <3>3
  <2>3. \A e \in Driver : e = d BY DEF OneDriver
  <2>4. Faults' = Faults BY <2>1 DEF Faults
  <2> QED BY <1>0, <1>2, <2>1, <2>2, <2>3, <2>4, MoreSteps
<1>3. ASSUME NEW d \in Driver, Tick(d) PROVE JobInv'
  <2>1. CASE UNCHANGED <<steps, call, jobs, reviewed, history>>
    BY <2>1 DEF JobInv, Accounted, Named, InHand, Trains, Faults
  <2>2. CASE AskApproval(NextStage(camp)) BY <1>0, <2>2, AskJobs, NextStageFacts
  <2>3. CASE RunStage(d, NextStage(camp)) BY <1>2, <1>3, <2>3, TickFacts, NextStageFacts
  <2> QED BY <1>3, <2>1, <2>2, <2>3, TickFacts
<1>4. ASSUME NEW d \in Driver, NEW stage \in Stage, Approve(d, stage) PROVE JobInv'
  BY <1>2, <1>4 DEF Approve
<1>5. ASSUME NEW d \in Driver, Handler(d) PROVE JobInv'
  <2>1. CASE Mine(d) BY <1>0, <2>1, MineFacts, LeavesJobs
  <2>2. CASE Judge(d) BY <1>0, <2>2, JudgeFacts, LeavesJobs
  <2>3. CASE Label(d)
    <3>1. PICK step, c : /\ Leaves(d, step, c) /\ step.job = call[d].seen.job /\ call[d].at = "run"
                         /\ history' = history /\ step.status \in {"waiting", "done"}
      BY <2>3, LabelFacts
    <3> QED BY <1>0, <3>1, LeavesJobs
  <2>4. CASE TrainPoll(d) \/ TrainWaitsGpu(d)
    <3>1. PICK step, c : /\ Leaves(d, step, c) /\ step.job = call[d].seen.job /\ call[d].at = "run"
                         /\ history' = history /\ step.status \in {"waiting", "done"}
      BY <2>4, TrainFacts
    <3> QED BY <1>0, <3>1, LeavesJobs
  <2>5. CASE Enqueue(d) BY <1>0, <2>5, EnqueueJobs
  <2>6. CASE RecordJob(d)
    <3>1. PICK step, c : /\ Leaves(d, step, c) /\ step.status = "waiting" /\ step.job = call[d].job
                         /\ call[d].at = "queued" /\ history' = history
      BY <2>6, RecordJobFacts
    <3>2. step.job # NoJob BY <3>1 DEF JobInv
    <3> QED BY <1>0, <3>1, <3>2, LeavesJobs
  <2>7. CASE Evaluate(d) BY <1>0, <2>7, EvaluateFacts, LeavesJobs
  <2>8. CASE Promote(d) BY <1>0, <2>8, PromoteFacts, LeavesJobs
  <2> QED BY <1>5, <2>1, <2>2, <2>3, <2>4, <2>5, <2>6, <2>7, <2>8 DEF Handler
\* A fault more, and no retrain more.
<1>6. ASSUME NEW d \in Driver, StageFails(d) \/ Crash(d) PROVE JobInv'
  <2>1. call'[d] = Idle /\ jobs' = jobs
    <3>1. CASE StageFails(d) BY <3>1, StageFailsFacts, LeavesFacts DEF Leaves
    <3>2. CASE Crash(d) BY <3>2, CrashFacts
    <3> QED BY <1>6, <3>1, <3>2
  <2>2. Faults' = Faults + 1
    <3>1. history.crashes \in Nat /\ history.fails \in Nat BY DEF TypeInv, AroundOK, HistoryType
    <3>2. CASE StageFails(d) BY <3>1, <3>2, StageFailsFacts DEF Faults
    <3>3. CASE Crash(d) BY <3>1, <3>3, CrashFacts DEF Faults
    <3> QED BY <1>6, <3>2, <3>3
  <2>3. \A e \in Driver : call'[e].at = "off" BY <2>1, IdleFacts DEF OneDriver
  <2> QED BY <1>0, <2>1, <2>2, <2>3, SameTrains
<1>7. CASE StopCampaign
  <2>1. UNCHANGED <<call, jobs>> /\ Faults' = Faults BY <1>7, StopFacts DEF Faults
  <2>2. PICK s : s \in Step /\ steps' = Append(steps, s) /\ s.job = NoJob BY <1>7, StopFacts
  <2>3. s.job \in 0 .. Len(jobs) /\ Len(steps) \in Nat BY <2>2, TypeFacts DEF NoJob
  <2>4. Len(steps') = Len(steps) + 1 /\ \A n \in 1 .. Len(steps) : steps'[n] = steps[n]
    BY <2>2, <2>3, AppendFacts
  <2>5. Len(steps') >= Len(steps) BY <2>3, <2>4
  <2> QED BY <1>0, <2>1, <2>4, <2>5, MoreSteps
<1>8. ASSUME NEW o \in Object, Review(o) PROVE JobInv'
  <2>1. UNCHANGED <<steps, call, jobs, history>> BY <1>8 DEF Review
  <2> QED BY <2>1 DEF JobInv, Accounted, Named, InHand, Trains, Faults
<1>9. ASSUME NEW k \in DOMAIN jobs, JobRuns(k) \/ JobEnds(k) PROVE JobInv'
  <2>1. /\ UNCHANGED <<steps, call, history>> /\ Len(jobs') = Len(jobs)
        /\ \A j \in 1 .. Len(jobs) : jobs'[j].iteration = jobs[j].iteration
    BY <1>9, JobFacts
  <2>2. /\ Faults' = Faults /\ \A i \in Nat : Accounted(i) => Accounted(i)'
        /\ \A e \in Driver : call'[e].at = "queued" => call'[e].job # NoJob
    BY <2>1 DEF Faults, Accounted, Named, InHand, JobInv
  <2> QED BY <1>0, <2>1, <2>2, SameTrains
<1> QED BY <1>1, <1>3, <1>4, <1>5, <1>6, <1>7, <1>8, <1>9 DEF Next

LEMMA JobInit == Init => JobInv
<1> SUFFICES ASSUME Init PROVE JobInv OBVIOUS
<1>1. Len(jobs) = 0 /\ history.crashes = 0 /\ history.fails = 0 BY DEF Init
<1>2. \A d \in Driver : call[d].at = "off" BY TypeInit, IdleFacts DEF Init
<1>3. 1 .. Len(jobs) = {} BY <1>1
<1>4. \A i : Trains(i) = {} BY <1>3 DEF Trains
<1>5. \A i : Cardinality(Trains(i)) = 0 BY <1>4, FS_EmptySet
<1>6. Faults = 0 BY <1>1 DEF Faults
<1>7. \A i \in Nat : Cardinality(Trains(i)) <= Faults + 1 /\ Cardinality(Trains(i)) <= Faults
  BY <1>5, <1>6
<1>8. \A d \in Driver : call[d].at = "queued" => call[d].job # NoJob BY <1>2
<1> QED BY <1>7, <1>8 DEF JobInv

(* An iteration trains once, and once more for each crash or failed stage: *)
(* the step that enqueued a retrain keeps its number, and no later step of *)
(* the stage begins while that one is live.                                *)
THEOREM RetrainsPerIterationAlways ==
  ASSUME OneDriver, Careful
  PROVE  Spec => []RetrainsPerIteration
<1> DEFINE Inv == TypeInv /\ CampInv /\ JobInv
<1>1. Init => Inv BY TypeInit, CampInit, JobInit
<1>2. Inv /\ [Next]_vars => Inv' BY TypeStep, CampStep, JobStep
<1>3. Inv => RetrainsPerIteration
  <2> SUFFICES ASSUME Inv, NEW i \in 1 .. MaxIterations
               PROVE  Cardinality({k \in DOMAIN jobs : jobs[k].iteration = i})
                        <= 1 + history.crashes + history.fails
    BY DEF RetrainsPerIteration
  <2>1. i \in Nat BY CampaignAssumption
  <2>2. Cardinality(Trains(i)) <= Faults + 1 BY <2>1 DEF JobInv
  <2>3. {k \in DOMAIN jobs : jobs[k].iteration = i} = Trains(i) BY TypeFacts DEF Trains
  <2>4. Faults + 1 = 1 + history.crashes + history.fails
    BY DEF Faults, TypeInv, AroundOK, HistoryType
  <2> QED BY <2>2, <2>3, <2>4
<1> HIDE DEF Inv
<1> QED BY <1>1, <1>2, <1>3, PTL DEF Spec
===============================================================================
