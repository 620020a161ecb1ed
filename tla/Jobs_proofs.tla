----------------------------- MODULE Jobs_proofs -----------------------------
(* Theorems of Jobs, for any jobs, workers and frames, whichever process   *)
(* runs the jobs, and through any crashes and stops.                       *)
EXTENDS Jobs, WellFoundedInduction, TLAPS

-------------------------------------------------------------------------------
(* The operators. *)

RowType == [status : Status, why : Why, attempts : Nat, resume : BOOLEAN, asked : BOOLEAN,
            fresh : BOOLEAN]
TaskType == [at : Stage, job : Job \cup {NoJob}, next : Nat, told : BOOLEAN]

\* There is an oldest job among any that wait.
LEMMA OldestMember ==
  ASSUME NEW S, S \subseteq Job, S # {}
  PROVE  Oldest(S) \in S
<1>1. S \subseteq Nat BY ShapeAssumption DEF Job
<1>2. PICK j \in S : \A k \in S : ~(<<k, j>> \in OpToRel(<, Nat))
  BY <1>1, NatLessThanWellFounded, WFMin
<1>3. \A k \in S : ~(k < j) BY <1>1, <1>2 DEF OpToRel
<1>4. \A k \in S : j <= k BY <1>1, <1>3
<1> QED BY <1>4 DEF Oldest

\* A _bump writes the status of one row and makes it fresh; what it says of a resume, a cancel
\* request or the attempts stays.
LEMMA BumpFacts ==
  ASSUME row \in [Job -> RowType], NEW j \in Job, NEW status \in Status, NEW why \in Why,
         Bump(j, status, why)
  PROVE  /\ row' \in [Job -> RowType]
         /\ row'[j].status = status /\ row'[j].fresh = TRUE
         /\ \A k \in Job : /\ k # j => row'[k] = row[k]
                           /\ row'[k].resume = row[k].resume /\ row'[k].asked = row[k].asked
<1> DEFINE new == [row[j] EXCEPT !.status = status, !.why = why, !.fresh = TRUE]
<1>1. row[j] \in RowType OBVIOUS
<1>2. /\ new \in RowType /\ new.status = status /\ new.fresh = TRUE
      /\ new.resume = row[j].resume /\ new.asked = row[j].asked
  BY <1>1 DEF RowType
<1>3. row' = [row EXCEPT ![j] = new] BY DEF Bump
<1> HIDE DEF new
<1> QED BY <1>2, <1>3

\* A task that goes on or ends leaves the other tasks alone.
LEMMA AtFacts ==
  ASSUME task \in [Proc -> TaskType], NEW p \in Proc, NEW stage \in Stage, At(p, stage)
  PROVE  /\ task' \in [Proc -> TaskType]
         /\ task'[p].at = stage /\ task'[p].job = task[p].job
         /\ task'[p].next = task[p].next /\ task'[p].told = task[p].told
         /\ \A q \in Proc : q # p => task'[q] = task[q]
<1> DEFINE new == [task[p] EXCEPT !.at = stage]
<1>1. task[p] \in TaskType OBVIOUS
<1>2. /\ new \in TaskType /\ new.at = stage /\ new.job = task[p].job
      /\ new.next = task[p].next /\ new.told = task[p].told
  BY <1>1 DEF TaskType
<1>3. task' = [task EXCEPT ![p] = new] BY DEF At
<1> HIDE DEF new
<1> QED BY <1>2, <1>3

LEMMA LeaveFacts ==
  ASSUME task \in [Proc -> TaskType], NEW p \in Proc, Leave(p)
  PROVE  /\ task' \in [Proc -> TaskType]
         /\ task'[p].at = "off" /\ task'[p].job = NoJob
         /\ \A q \in Proc : q # p => task'[q] = task[q]
<1>1. NoTask \in TaskType /\ NoTask.at = "off" /\ NoTask.job = NoJob
  BY DEF NoTask, TaskType, Stage
<1>2. task' = [task EXCEPT ![p] = NoTask] BY DEF Leave
<1> HIDE DEF NoTask
<1> QED BY <1>1, <1>2

-------------------------------------------------------------------------------
(* Type correctness, with what a stage says of the job. *)

StagesOK ==
  \A p \in Proc : LET t == task[p] IN
    /\ t.at # "off" => t.job \in Job
    /\ t.at \in {"wait", "label", "saved", "requeue"} => t.job \in AutoLabel
    /\ t.at \in {"ask", "train", "score", "ghost"} => t.job \in Train
    /\ t.at \in {"claimed", "requeue", "ghost"} => p \in Worker

TypeInv == TypeOK /\ StagesOK

\* The job that a stage names.
LEMMA StageFacts ==
  ASSUME TypeInv, NEW p \in Proc
  PROVE  /\ row \in [Job -> RowType] /\ task \in [Proc -> TaskType] /\ task[p] \in TaskType
         /\ task[p].at # "off" => task[p].job \in Job /\ row[task[p].job] \in RowType
         /\ task[p].at \in {"wait", "label", "saved", "requeue"} => task[p].job \in AutoLabel
         /\ task[p].at \in {"ask", "train", "score", "ghost"} => task[p].job \in Train
         /\ task[p].at \in {"claimed", "requeue", "ghost"} => p \in Worker
         /\ task[p].next \in Nat /\ task[p].told \in BOOLEAN
BY DEF TypeInv, TypeOK, StagesOK, RowType, TaskType

LEMMA InitType == Init => TypeInv
<1> SUFFICES ASSUME Init PROVE TypeInv OBVIOUS
<1>1. row \in [Job -> RowType] BY DEF Init, RowType, Status, Why
<1>2. NoTask \in TaskType /\ NoTask.at = "off" BY DEF NoTask, TaskType, Stage
<1>3. task = [p \in Proc |-> NoTask] BY DEF Init
<1>4. task \in [Proc -> TaskType] /\ StagesOK
  <2> HIDE DEF NoTask
  <2> QED BY <1>2, <1>3 DEF StagesOK
<1> QED BY <1>1, <1>4 DEF Init, TypeInv, TypeOK, RowType, TaskType

\* Steps that touch no task: the pages, the sweep, time, and the rest of the card's users.
LEMMA ApiType ==
  ASSUME TypeInv,
         \/ \E j \in Train : Enqueue(j)
         \/ \E j \in Job : CancelRead(j) \/ CancelWrite(j) \/ Age(j)
         \/ Sweep \/ OtherTakesSlot \/ OtherFreesSlot
  PROVE  TypeInv' /\ UNCHANGED <<task, labelled, worker, orphans, lock>>
<1> USE DEF TypeInv
<1>0. row \in [Job -> RowType] BY DEF TypeOK, RowType
<1>1. ASSUME NEW j \in Train, Enqueue(j) PROVE TypeInv'
  <2>1. row' \in [Job -> RowType]
    BY <1>0, <1>1, BumpFacts DEF Enqueue, Job, Status, Why
  <2> QED BY <1>1, <2>1 DEF Enqueue, TypeOK, StagesOK, RowType
<1>2. ASSUME NEW j \in Job, CancelRead(j) PROVE TypeInv'
  <2>1. asking' \in [Job -> {"no", "pending", "running"}] BY <1>2 DEF CancelRead, TypeOK
  <2> QED BY <1>2, <2>1 DEF CancelRead, TypeOK, StagesOK
<1>3. ASSUME NEW j \in Job, CancelWrite(j) PROVE TypeInv'
  <2>1. asking' \in [Job -> {"no", "pending", "running"}] BY <1>3 DEF CancelWrite, TypeOK
  <2>2. row' \in [Job -> RowType]
    <3>1. CASE j \in AutoLabel \/ asking[j] = "pending"
      <4> DEFINE why == IF j \in AutoLabel THEN "canceled" ELSE ""
      <4>1. why \in Why /\ "canceled" \in Status BY DEF Why, Status
      <4>2. Bump(j, "canceled", why) BY <1>3, <3>1 DEF CancelWrite, Bump
      <4> HIDE DEF why
      <4> QED BY <1>0, <4>1, <4>2, BumpFacts
    <3>2. CASE ~(j \in AutoLabel \/ asking[j] = "pending")
      <4>1. [row[j] EXCEPT !.asked = TRUE, !.fresh = TRUE] \in RowType BY <1>0 DEF RowType
      <4>2. row' = [row EXCEPT ![j] = [row[j] EXCEPT !.asked = TRUE, !.fresh = TRUE]]
        BY <1>3, <3>2 DEF CancelWrite, Bump
      <4> QED BY <1>0, <4>1, <4>2
    <3> QED BY <3>1, <3>2
  <2> QED BY <1>3, <2>1, <2>2 DEF CancelWrite, TypeOK, StagesOK, RowType
<1>4. ASSUME NEW j \in Job, Age(j) PROVE TypeInv'
  <2>1. [row[j] EXCEPT !.fresh = FALSE] \in RowType BY <1>0 DEF RowType
  <2>2. row' = [row EXCEPT ![j] = [row[j] EXCEPT !.fresh = FALSE]] BY <1>4 DEF Age
  <2>3. row' \in [Job -> RowType] BY <1>0, <2>1, <2>2
  <2> QED BY <1>4, <2>3 DEF Age, TypeOK, StagesOK, RowType
<1>5. CASE ReapRead BY <1>5 DEF ReapRead, Stale, TypeOK, StagesOK
<1>6. CASE ReapWrite
  <2> DEFINE new(j) == [row[j] EXCEPT !.status = "error", !.fresh = TRUE,
                                      !.why = IF @ = "" THEN "interrupted" ELSE @]
  <2>1. ASSUME NEW j \in Job PROVE new(j) \in RowType
    <3> DEFINE why == IF row[j].why = "" THEN "interrupted" ELSE row[j].why
    <3>1. why \in Why /\ row[j] \in RowType BY <1>0 DEF RowType, Why
    <3>2. new(j) = [row[j] EXCEPT !.status = "error", !.fresh = TRUE, !.why = why] OBVIOUS
    <3> HIDE DEF why
    <3>3. [row[j] EXCEPT !.status = "error", !.fresh = TRUE, !.why = why] \in RowType
      BY <3>1 DEF RowType, Status
    <3> QED BY <3>2, <3>3
  <2>2. row' = [j \in Job |-> IF j \in reaping THEN new(j) ELSE row[j]] BY <1>6 DEF ReapWrite
  <2> HIDE DEF new
  <2>3. row' \in [Job -> RowType] BY <1>0, <2>1, <2>2
  <2> DEFINE live == {j \in reaping : Live(j)}
             slain == history.slain \cup live
  <2>4. history' = [history EXCEPT !.slain = slain] /\ slain \in SUBSET AutoLabel
    <3>1. history' = [history EXCEPT !.slain = slain] BY <1>6 DEF ReapWrite
    <3>2. live \subseteq reaping OBVIOUS
    <3> HIDE DEF live
    <3> QED BY <3>1, <3>2 DEF TypeOK
  <2> HIDE DEF slain
  <2>5. history' \in [crashes : Nat, stops : Nat, losses : Nat,
                      twice : SUBSET AutoLabel, slain : SUBSET AutoLabel]
    BY <2>4 DEF TypeOK
  <2> QED BY <1>6, <2>3, <2>5 DEF ReapWrite, TypeOK, StagesOK, RowType
<1>7. CASE OtherTakesSlot BY <1>7 DEF OtherTakesSlot, TypeOK, StagesOK
<1>8. CASE OtherFreesSlot BY <1>8 DEF OtherFreesSlot, TypeOK, StagesOK
<1>9. UNCHANGED <<task, labelled, worker, orphans, lock>>
  BY DEF Enqueue, CancelRead, CancelWrite, Age, Sweep, ReapRead, ReapWrite, OtherTakesSlot,
         OtherFreesSlot
<1> QED BY <1>1, <1>2, <1>3, <1>4, <1>5, <1>6, <1>7, <1>8, <1>9 DEF Sweep

\* What follows from the shape of a step: p goes on with its job, or leaves it in an end state.
Goes(p) ==
  /\ \A q \in Proc : q # p => task'[q] = task[q]
  /\ \A k \in Job : /\ k # task[p].job => row'[k] = row[k]
                    /\ row'[k].resume = row[k].resume /\ row'[k].asked = row[k].asked
                    /\ row'[k].fresh \in {row[k].fresh, TRUE}
  /\ \/ /\ task'[p].at \notin {"off", "claimed", "requeue", "ghost"}
        /\ task'[p].job = task[p].job
        /\ row'[task[p].job].status \in {row[task[p].job].status, "running"}
     \/ task'[p].at = "off" /\ row'[task[p].job].status \in Terminal

\* A step that bumps the row and changes the stage.
LEMMA BumpAt ==
  ASSUME TypeInv, NEW p \in Proc, task[p].at # "off", NEW status \in {"running"}, NEW why \in Why,
         NEW stage \in Stage \ {"off", "claimed", "requeue", "ghost"},
         Bump(task[p].job, status, why), At(p, stage)
  PROVE  Goes(p) /\ row' \in [Job -> RowType] /\ task' \in [Proc -> TaskType]
<1>1. /\ row \in [Job -> RowType] /\ task \in [Proc -> TaskType] /\ task[p].job \in Job
  BY StageFacts
<1>2. status \in Status BY DEF Status
<1>3. row' \in [Job -> RowType]
      /\ row'[task[p].job].status = status /\ row'[task[p].job].fresh = TRUE
      /\ \A k \in Job : /\ k # task[p].job => row'[k] = row[k]
                        /\ row'[k].resume = row[k].resume /\ row'[k].asked = row[k].asked
  BY <1>1, <1>2, BumpFacts
<1>4. /\ task' \in [Proc -> TaskType] /\ task'[p].at = stage /\ task'[p].job = task[p].job
      /\ \A q \in Proc : q # p => task'[q] = task[q]
  BY <1>1, AtFacts
<1> QED BY <1>3, <1>4 DEF Goes

\* A step that bumps the row to its end and leaves.
LEMMA BumpLeave ==
  ASSUME TypeInv, NEW p \in Proc, task[p].at # "off", NEW status \in Terminal, NEW why \in Why,
         Bump(task[p].job, status, why), Leave(p)
  PROVE  /\ Goes(p) /\ row' \in [Job -> RowType] /\ task' \in [Proc -> TaskType]
         /\ row'[task[p].job].status = status
<1>1. /\ row \in [Job -> RowType] /\ task \in [Proc -> TaskType] /\ task[p].job \in Job
  BY StageFacts
<1>2. status \in Status BY DEF Status, Terminal
<1>3. row' \in [Job -> RowType]
      /\ row'[task[p].job].status = status /\ row'[task[p].job].fresh = TRUE
      /\ \A k \in Job : /\ k # task[p].job => row'[k] = row[k]
                        /\ row'[k].resume = row[k].resume /\ row'[k].asked = row[k].asked
  BY <1>1, <1>2, BumpFacts
<1>4. /\ task' \in [Proc -> TaskType] /\ task'[p].at = "off"
      /\ \A q \in Proc : q # p => task'[q] = task[q]
  BY <1>1, LeaveFacts
<1> QED BY <1>3, <1>4 DEF Goes

\* A step that only changes the stage.
LEMMA OnlyAt ==
  ASSUME TypeInv, NEW p \in Proc, task[p].at # "off",
         NEW stage \in Stage \ {"off", "claimed", "requeue", "ghost"},
         At(p, stage), UNCHANGED row
  PROVE  Goes(p) /\ row' \in [Job -> RowType] /\ task' \in [Proc -> TaskType]
<1>1. /\ row \in [Job -> RowType] /\ task \in [Proc -> TaskType] /\ task[p].job \in Job
  BY StageFacts
<1>2. /\ task' \in [Proc -> TaskType] /\ task'[p].at = stage /\ task'[p].job = task[p].job
      /\ \A q \in Proc : q # p => task'[q] = task[q]
  BY <1>1, AtFacts
<1> QED BY <1>1, <1>2 DEF Goes

\* A step that reports to the row and goes on: an epoch, or a frame.
LEMMA ReportGoes ==
  ASSUME TypeInv, NEW p \in Proc, task[p].at \in {"label", "train"}, NEW next \in Nat,
         NEW told \in BOOLEAN,
         task' = [task EXCEPT ![p] = [task[p] EXCEPT !.next = next, !.told = told]],
         UNCHANGED row \/ row' = [row EXCEPT ![task[p].job].fresh = TRUE]
  PROVE  /\ Goes(p) /\ row' \in [Job -> RowType] /\ task' \in [Proc -> TaskType]
         /\ task'[p].at = task[p].at /\ task'[p].next = next /\ task'[p].told = told
         /\ task'[p].job = task[p].job
         /\ \A k \in Job : row'[k].status = row[k].status
<1> DEFINE j == task[p].job
           new == [task[p] EXCEPT !.next = next, !.told = told]
           fresh == [row[j] EXCEPT !.fresh = TRUE]
<1>1. /\ row \in [Job -> RowType] /\ task \in [Proc -> TaskType] /\ task[p].job \in Job
      /\ row[j] \in RowType /\ task[p] \in TaskType
  BY StageFacts
<1>2. /\ new \in TaskType /\ new.at = task[p].at /\ new.next = next /\ new.told = told
      /\ new.job = j
  BY <1>1 DEF TaskType
<1>3. /\ fresh \in RowType /\ fresh.status = row[j].status /\ fresh.fresh = TRUE
      /\ fresh.resume = row[j].resume /\ fresh.asked = row[j].asked
  BY <1>1 DEF RowType
<1>4. row' = row \/ row' = [row EXCEPT ![j] = fresh] OBVIOUS
<1>5. task' = [task EXCEPT ![p] = new] OBVIOUS
<1> HIDE DEF new, fresh
<1>6. /\ row' \in [Job -> RowType]
      /\ \A k \in Job : /\ k # j => row'[k] = row[k]
                        /\ row'[k].resume = row[k].resume /\ row'[k].asked = row[k].asked
                        /\ row'[k].fresh \in {row[k].fresh, TRUE}
                        /\ row'[k].status = row[k].status
  BY <1>1, <1>3, <1>4
<1>7. /\ task' \in [Proc -> TaskType] /\ task'[p] = new
      /\ \A q \in Proc : q # p => task'[q] = task[q]
  BY <1>1, <1>2, <1>5
<1> QED BY <1>1, <1>2, <1>6, <1>7 DEF Goes

(* What every step of a running task keeps, and where it may lead. *)
RunFacts(p) ==
  /\ TypeInv' /\ Goes(p) /\ UNCHANGED <<worker, orphans, lock, asking, reaping>>
  /\ task[p].at \notin {"off", "claimed", "requeue", "ghost"}
  /\ task[p].at = "start" /\ task[p].job \in Train => task'[p].at = "ask"
  /\ task[p].at = "ask" /\ row[task[p].job].asked => task'[p].at = "off"
  /\ row'[task[p].job].status = "done" =>
       row[task[p].job].status = "done" \/ task[p].at \in {"saved", "score"}
  /\ task'[p].at # "start"
  /\ \/ Begin(p) \/ TakeSlot(p) \/ Label(p) \/ Save(p)
     \/ task'[p].at \notin {"wait", "label"} /\ UNCHANGED <<labelled, history>>

\* TypeInv after a step that leaves the workers alone.
LEMMA GoesType ==
  ASSUME TypeInv, NEW p \in Proc, task[p].at # "off", Goes(p),
         row' \in [Job -> RowType], task' \in [Proc -> TaskType],
         UNCHANGED <<worker, orphans, lock, asking, reaping>>,
         slot' \in Proc \cup {Nobody, Other}, labelled' \in [AutoLabel -> Nat],
         UNCHANGED history \/ (\E S \in SUBSET AutoLabel : history' = [history EXCEPT !.twice = S]),
         task'[p].at \in {"wait", "label", "saved"} => task[p].job \in AutoLabel,
         task'[p].at \in {"ask", "train", "score"} => task[p].job \in Train
  PROVE  TypeInv'
<1>1. history' \in [crashes : Nat, stops : Nat, losses : Nat,
                    twice : SUBSET AutoLabel, slain : SUBSET AutoLabel]
  BY DEF TypeInv, TypeOK
<1>2. StagesOK'
  <2> SUFFICES ASSUME NEW q \in Proc
               PROVE  LET t == task'[q] IN
                        /\ t.at # "off" => t.job \in Job
                        /\ t.at \in {"wait", "label", "saved", "requeue"} => t.job \in AutoLabel
                        /\ t.at \in {"ask", "train", "score", "ghost"} => t.job \in Train
                        /\ t.at \in {"claimed", "requeue", "ghost"} => q \in Worker
    BY DEF StagesOK
  <2>1. CASE q = p BY <2>1, StageFacts DEF Goes
  <2>2. CASE q # p BY <2>2 DEF Goes, TypeInv, StagesOK
  <2> QED BY <2>1, <2>2
<1> QED BY <1>1, <1>2 DEF TypeInv, TypeOK, RowType, TaskType

\* A running task's steps are of this kind, one by one.
LEMMA RunStep == ASSUME TypeInv, NEW p \in Proc, Run(p) PROVE RunFacts(p)
<1> DEFINE j == task[p].job
<1>1. /\ row \in [Job -> RowType] /\ task \in [Proc -> TaskType] /\ task[p] \in TaskType
      /\ slot \in Proc \cup {Nobody, Other} /\ labelled \in [AutoLabel -> Nat]
      /\ task[p].next \in Nat /\ task[p].told \in BOOLEAN /\ Frames \in Nat
  BY StageFacts, ShapeAssumption DEF TypeInv, TypeOK
<1>2. task[p].at # "off" => j \in Job /\ row[j] \in RowType /\ row[j].why \in Why
                            /\ row[j].resume \in BOOLEAN /\ row[j].asked \in BOOLEAN
  BY StageFacts DEF RowType
<1>3. Freed(p) \in Proc \cup {Nobody, Other} BY <1>1 DEF Freed
<1>4. CASE Begin(p)
  <2> DEFINE told == row[j].resume
             new == [task[p] EXCEPT !.at = "wait", !.told = told]
  <2>1. task[p].at = "start" /\ j \in AutoLabel /\ Bump(j, "running", row[j].why) BY <1>4 DEF Begin
  <2>2. new \in TaskType /\ new.at = "wait" /\ new.job = j BY <1>1, <1>2, <2>1 DEF TaskType, Stage
  <2>3. task' = [task EXCEPT ![p] = new] BY <1>4 DEF Begin
  <2>4. /\ row' \in [Job -> RowType] /\ row'[j].status = "running" /\ row'[j].fresh = TRUE
        /\ \A k \in Job : /\ k # j => row'[k] = row[k]
                          /\ row'[k].resume = row[k].resume /\ row'[k].asked = row[k].asked
    BY <1>1, <1>2, <2>1, BumpFacts DEF Status
  <2> HIDE DEF new
  <2>5. /\ task' \in [Proc -> TaskType] /\ task'[p] = new
        /\ \A q \in Proc : q # p => task'[q] = task[q]
    BY <1>1, <2>2, <2>3
  <2>6. Goes(p) BY <1>2, <2>1, <2>2, <2>4, <2>5 DEF Goes
  <2>7. TypeInv' BY <1>1, <1>4, <2>1, <2>2, <2>4, <2>5, <2>6, GoesType DEF Begin
  <2>8. j \notin Train BY <2>1, ShapeAssumption
  <2> QED BY <1>4, <2>1, <2>2, <2>4, <2>5, <2>6, <2>7, <2>8 DEF Begin, RunFacts
<1>5. CASE TakeSlot(p)
  <2> DEFINE first == IF task[p].told THEN labelled[j] + 1 ELSE 1
             new == [task[p] EXCEPT !.at = "label", !.next = first]
  <2>1. task[p].at = "wait" /\ j \in AutoLabel /\ UNCHANGED row BY <1>5, StageFacts DEF TakeSlot
  <2>2. first \in Nat BY <1>1, <2>1
  <2>3. CASE first > Frames
    <3>1. At(p, "failing") /\ UNCHANGED slot BY <1>5, <2>3 DEF TakeSlot
    <3>2. /\ Goes(p) /\ row' \in [Job -> RowType] /\ task' \in [Proc -> TaskType]
          /\ task'[p].at = "failing"
      BY <1>1, <2>1, <3>1, OnlyAt, AtFacts DEF Stage
    <3>3. TypeInv' BY <1>1, <1>5, <2>1, <3>1, <3>2, GoesType DEF TakeSlot
    <3> QED BY <1>5, <2>1, <3>2, <3>3 DEF TakeSlot, RunFacts
  <2>4. CASE ~(first > Frames)
    <3>1. task' = [task EXCEPT ![p] = new] /\ slot' = p BY <1>5, <2>4 DEF TakeSlot
    <3>2. new \in TaskType /\ new.at = "label" /\ new.job = j
      <4> HIDE DEF first
      <4> QED BY <1>1, <2>2 DEF TaskType, Stage
    <3> HIDE DEF new
    <3>3. /\ task' \in [Proc -> TaskType] /\ task'[p] = new
          /\ \A q \in Proc : q # p => task'[q] = task[q]
      BY <1>1, <3>1, <3>2
    <3>4. Goes(p) BY <1>1, <1>2, <2>1, <3>2, <3>3 DEF Goes
    <3>5. TypeInv' BY <1>1, <1>5, <2>1, <3>1, <3>2, <3>3, <3>4, GoesType DEF TakeSlot
    <3> QED BY <1>5, <2>1, <3>2, <3>3, <3>4, <3>5 DEF TakeSlot, RunFacts
  <2> QED BY <2>3, <2>4
<1>6. CASE Label(p)
  <2> DEFINE f == task[p].next
             twice == IF f <= labelled[j] THEN history.twice \cup {j} ELSE history.twice
  <2>1. /\ task[p].at = "label" /\ j \in AutoLabel /\ j \notin Train
        /\ UNCHANGED <<worker, orphans, lock, asking, reaping>>
    BY <1>6, StageFacts, ShapeAssumption DEF Label
  <2>2. labelled' \in [AutoLabel -> Nat]
    <3>1. PICK now \in Commits :
            labelled' = [labelled EXCEPT ![j] = IF now /\ f > labelled[j] THEN f ELSE labelled[j]]
      BY <1>6 DEF Label
    <3>2. (IF now /\ f > labelled[j] THEN f ELSE labelled[j]) \in Nat BY <1>1, <2>1
    <3> QED BY <1>1, <3>1, <3>2
  <2>3. \E S \in SUBSET AutoLabel : history' = [history EXCEPT !.twice = S]
    <3>1. history' = [history EXCEPT !.twice = twice] BY <1>6 DEF Label
    <3>2. twice \in SUBSET AutoLabel BY <2>1 DEF TypeInv, TypeOK
    <3> QED BY <3>1, <3>2
  <2>4. CASE row[j].status \in Terminal /\ Leave(p) /\ slot' = Freed(p) /\ UNCHANGED row
    <3>1. /\ task' \in [Proc -> TaskType] /\ task'[p].at = "off"
          /\ \A q \in Proc : q # p => task'[q] = task[q]
      BY <1>1, <2>4, LeaveFacts
    <3>2. Goes(p) BY <1>1, <2>4, <3>1 DEF Goes
    <3>3. TypeInv' BY <1>1, <1>3, <2>1, <2>2, <2>3, <2>4, <3>1, <3>2, GoesType
    <3> QED BY <1>6, <2>1, <2>4, <3>1, <3>2, <3>3 DEF RunFacts
  <2>5. CASE /\ task' = [task EXCEPT ![p].next = f + 1] /\ UNCHANGED slot
             /\ UNCHANGED row \/ row' = [row EXCEPT ![j].fresh = TRUE]
    <3> DEFINE next == f + 1
               told == task[p].told
    <3>1. next \in Nat /\ told \in BOOLEAN BY <1>1
    <3>2. task' = [task EXCEPT ![p] = [task[p] EXCEPT !.next = next]] BY <2>5
    <3> HIDE DEF next
    <3>3. task' = [task EXCEPT ![p] = [task[p] EXCEPT !.next = next, !.told = told]]
      BY <1>1, <3>2 DEF TaskType
    <3> HIDE DEF told
    <3>4. /\ Goes(p) /\ row' \in [Job -> RowType] /\ task' \in [Proc -> TaskType]
          /\ task'[p].at = "label" /\ row'[j].status = row[j].status
      <4>1. UNCHANGED row \/ row' = [row EXCEPT ![task[p].job].fresh = TRUE] BY <2>5
      <4>2. task[p].at \in {"label", "train"} /\ j \in Job BY <1>2, <2>1
      <4> QED BY <2>1, <3>1, <3>3, <4>1, <4>2, ReportGoes
    <3>5. TypeInv' BY <1>1, <2>1, <2>2, <2>3, <2>5, <3>4, GoesType
    <3> QED BY <1>6, <2>1, <3>4, <3>5 DEF RunFacts
  <2> QED BY <1>6, <2>4, <2>5 DEF Label
<1>7. CASE Save(p)
  <2>1. /\ task[p].at = "label" /\ j \in AutoLabel /\ j \notin Train
        /\ At(p, "saved") /\ UNCHANGED row
    BY <1>7, StageFacts, ShapeAssumption DEF Save
  <2>2. labelled' \in [AutoLabel -> Nat] BY <1>1, <1>7, <2>1 DEF Save
  <2>3. /\ Goes(p) /\ row' \in [Job -> RowType] /\ task' \in [Proc -> TaskType]
        /\ task'[p].at = "saved"
    BY <1>1, <2>1, OnlyAt, AtFacts DEF Stage
  <2>4. TypeInv' BY <1>1, <1>3, <1>7, <2>1, <2>2, <2>3, GoesType DEF Save
  <2> QED BY <1>7, <2>1, <2>3, <2>4 DEF Save, RunFacts
<1>8. CASE Finish(p)
  <2>1. task[p].at = "saved" /\ Bump(j, "done", row[j].why) /\ Leave(p) BY <1>8 DEF Finish
  <2>2. /\ Goes(p) /\ row' \in [Job -> RowType] /\ task' \in [Proc -> TaskType]
        /\ task'[p].at = "off"
    BY <1>1, <1>2, <2>1, BumpLeave, LeaveFacts DEF Terminal
  <2>3. TypeInv' BY <1>1, <1>8, <2>1, <2>2, GoesType DEF Finish
  <2> QED BY <1>8, <2>1, <2>2, <2>3 DEF Finish, RunFacts
<1>9. CASE RecordFailure(p)
  <2>1. task[p].at = "failing" /\ Bump(j, "error", "failed") /\ Leave(p)
    BY <1>9 DEF RecordFailure
  <2>2. /\ Goes(p) /\ row' \in [Job -> RowType] /\ task' \in [Proc -> TaskType]
        /\ task'[p].at = "off" /\ row'[j].status = "error"
    BY <1>1, <1>2, <2>1, BumpLeave, LeaveFacts DEF Terminal, Why
  <2>3. TypeInv' BY <1>1, <1>9, <2>1, <2>2, GoesType DEF RecordFailure
  <2> QED BY <1>9, <2>1, <2>2, <2>3 DEF RecordFailure, RunFacts
<1>10. CASE BeginTrain(p)
  <2>1. task[p].at = "start" /\ j \in Train /\ Bump(j, "running", row[j].why) /\ At(p, "ask")
    BY <1>10 DEF BeginTrain
  <2>2. /\ Goes(p) /\ row' \in [Job -> RowType] /\ task' \in [Proc -> TaskType]
        /\ task'[p].at = "ask"
    BY <1>1, <1>2, <2>1, BumpAt, AtFacts DEF Stage
  <2>3. row'[j].status = "running" BY <1>1, <1>2, <2>1, BumpFacts DEF Status
  <2>4. TypeInv' BY <1>1, <1>10, <2>1, <2>2, GoesType DEF BeginTrain
  <2> QED BY <1>10, <2>1, <2>2, <2>3, <2>4 DEF BeginTrain, RunFacts
<1>11. CASE AskCanceled(p)
  <2>1. task[p].at = "ask" /\ j \in Train BY <1>11, StageFacts DEF AskCanceled
  <2>2. CASE row[j].asked
    <3>1. Bump(j, "canceled", row[j].why) /\ Leave(p) BY <1>11, <2>2 DEF AskCanceled
    <3>2. /\ Goes(p) /\ row' \in [Job -> RowType] /\ task' \in [Proc -> TaskType]
          /\ task'[p].at = "off" /\ row'[j].status = "canceled"
      BY <1>1, <1>2, <2>1, <3>1, BumpLeave, LeaveFacts DEF Terminal
    <3>3. TypeInv' BY <1>1, <1>11, <2>1, <3>2, GoesType DEF AskCanceled
    <3> QED BY <1>11, <2>1, <3>2, <3>3 DEF AskCanceled, RunFacts
  <2>3. CASE ~row[j].asked
    <3>1. At(p, "train") /\ UNCHANGED row BY <1>11, <2>3 DEF AskCanceled
    <3>2. /\ Goes(p) /\ row' \in [Job -> RowType] /\ task' \in [Proc -> TaskType]
          /\ task'[p].at = "train"
      BY <1>1, <2>1, <3>1, OnlyAt, AtFacts DEF Stage
    <3>3. TypeInv' BY <1>1, <1>11, <2>1, <3>2, GoesType DEF AskCanceled
    <3> QED BY <1>11, <2>1, <2>3, <3>1, <3>2, <3>3 DEF AskCanceled, RunFacts
  <2> QED BY <2>2, <2>3
<1>12. CASE Epoch(p)
  <2>1. /\ task[p].at = "train" /\ j \in Train
        /\ row' = [row EXCEPT ![j].fresh = TRUE]
        /\ task' = [task EXCEPT ![p].next = task[p].next + 1, ![p].told = row[j].asked]
    BY <1>12, StageFacts DEF Epoch
  <2>2. task[p].next + 1 \in Nat /\ row[j].asked \in BOOLEAN BY <1>1, <1>2, <2>1
  <2>3. /\ Goes(p) /\ row' \in [Job -> RowType] /\ task' \in [Proc -> TaskType]
        /\ task'[p].at = "train" /\ row'[j].status = row[j].status
    BY <1>2, <2>1, <2>2, ReportGoes
  <2>4. TypeInv' BY <1>1, <1>12, <2>1, <2>3, GoesType DEF Epoch
  <2> QED BY <1>12, <2>1, <2>3, <2>4 DEF Epoch, RunFacts
<1>13. CASE EndTrain(p)
  <2>1. task[p].at = "train" /\ j \in Train BY <1>13, StageFacts DEF EndTrain
  <2>2. CASE task[p].told
    <3>1. Bump(j, "canceled", row[j].why) /\ Leave(p) BY <1>13, <2>2 DEF EndTrain
    <3>2. /\ Goes(p) /\ row' \in [Job -> RowType] /\ task' \in [Proc -> TaskType]
          /\ task'[p].at = "off" /\ row'[j].status = "canceled"
      BY <1>1, <1>2, <2>1, <3>1, BumpLeave, LeaveFacts DEF Terminal
    <3>3. TypeInv' BY <1>1, <1>13, <2>1, <3>2, GoesType DEF EndTrain
    <3> QED BY <1>13, <2>1, <3>2, <3>3 DEF EndTrain, RunFacts
  <2>3. CASE ~task[p].told
    <3> DEFINE fresh == [row[j] EXCEPT !.fresh = TRUE]
    <3>1. At(p, "score") /\ row' = [row EXCEPT ![j] = fresh] BY <1>13, <2>3 DEF EndTrain
    <3>2. /\ fresh \in RowType /\ fresh.status = row[j].status /\ fresh.fresh = TRUE
          /\ fresh.resume = row[j].resume /\ fresh.asked = row[j].asked
      BY <1>2, <2>1 DEF RowType
    <3> HIDE DEF fresh
    <3>3. /\ task' \in [Proc -> TaskType] /\ task'[p].at = "score" /\ task'[p].job = j
          /\ \A q \in Proc : q # p => task'[q] = task[q]
      BY <1>1, <3>1, AtFacts DEF Stage
    <3>4. /\ row' \in [Job -> RowType] /\ row'[j] = fresh
          /\ \A k \in Job : k # j => row'[k] = row[k]
      BY <1>1, <1>2, <2>1, <3>1, <3>2
    <3>5. Goes(p) BY <1>2, <2>1, <3>2, <3>3, <3>4 DEF Goes
    <3>6. TypeInv' BY <1>1, <1>13, <2>1, <3>3, <3>4, <3>5, GoesType DEF EndTrain
    <3> QED BY <1>13, <2>1, <3>2, <3>3, <3>4, <3>5, <3>6 DEF EndTrain, RunFacts
  <2> QED BY <2>2, <2>3
<1>14. CASE Score(p)
  <2>1. task[p].at = "score" /\ Bump(j, "done", row[j].why) /\ Leave(p) BY <1>14 DEF Score
  <2>2. /\ Goes(p) /\ row' \in [Job -> RowType] /\ task' \in [Proc -> TaskType]
        /\ task'[p].at = "off"
    BY <1>1, <1>2, <2>1, BumpLeave, LeaveFacts DEF Terminal
  <2>3. TypeInv' BY <1>1, <1>14, <2>1, <2>2, GoesType DEF Score
  <2> QED BY <1>14, <2>1, <2>2, <2>3 DEF Score, RunFacts
<1> QED BY <1>4, <1>5, <1>6, <1>7, <1>8, <1>9, <1>10, <1>11, <1>12, <1>13, <1>14 DEF Run

HistoryType == [crashes : Nat, stops : Nat, losses : Nat,
                twice : SUBSET AutoLabel, slain : SUBSET AutoLabel]

\* What recovery does to one auto-label row.
LEMMA RequeuedFacts ==
  ASSUME NEW r \in RowType
  PROVE  /\ Requeued(r) \in RowType /\ Requeued(r).status \in {"error", "pending"}
         /\ Requeued(r).status = "pending" => Requeued(r).resume
         /\ Requeued(r).asked = r.asked /\ Requeued(r).fresh = TRUE
         /\ r.resume => Requeued(r).resume
<1> DEFINE n == r.attempts + 1
           up == [r EXCEPT !.attempts = n, !.status = "error", !.why = "gave up", !.fresh = TRUE]
           back == [r EXCEPT !.attempts = n, !.status = "pending", !.resume = TRUE, !.fresh = TRUE]
<1>1. n \in Nat BY DEF RowType
<1>2. Requeued(r) = up \/ Requeued(r) = back BY DEF Requeued
<1> HIDE DEF n
<1>3. /\ up \in RowType /\ up.status = "error" /\ up.asked = r.asked /\ up.fresh = TRUE
      /\ up.resume = r.resume
  BY <1>1 DEF RowType, Status, Why
<1>4. /\ back \in RowType /\ back.status = "pending" /\ back.asked = r.asked
      /\ back.fresh = TRUE /\ back.resume = TRUE
  BY <1>1 DEF RowType, Status, Why
<1> HIDE DEF up, back
<1> QED BY <1>2, <1>3, <1>4

\* What a worker that starts or stops does to the training rows.
LEMMA ResetFacts ==
  ASSUME row \in [Job -> RowType], TrainingReset
  PROVE  /\ row' \in [Job -> RowType]
         /\ \A k \in AutoLabel : row'[k] = row[k]
         /\ \A k \in Job :
              /\ row'[k].asked = row[k].asked /\ row'[k].fresh \in {row[k].fresh, TRUE}
              /\ k \in Train /\ row[k].status = "running" =>
                   row'[k].status = "pending" /\ row'[k].resume
              /\ k \notin Train \/ row[k].status # "running" => row'[k] = row[k]
<1> DEFINE back(k) == [row[k] EXCEPT !.status = "pending", !.resume = TRUE, !.fresh = TRUE]
<1>1. ASSUME NEW k \in Job
      PROVE  /\ back(k) \in RowType /\ back(k).status = "pending" /\ back(k).asked = row[k].asked
             /\ back(k).fresh = TRUE /\ back(k).resume = TRUE
  BY DEF RowType, Status
<1>2. row' = [k \in Job |-> IF k \in Train /\ row[k].status = "running" THEN back(k) ELSE row[k]]
  BY DEF TrainingReset
<1> HIDE DEF back
<1> QED BY <1>1, <1>2, ShapeAssumption DEF Job

\* A job's row is put back in the queue to resume.
LEMMA ResumeFacts ==
  ASSUME row \in [Job -> RowType], NEW j \in Job,
         row' = [row EXCEPT ![j].status = "pending", ![j].resume = TRUE, ![j].fresh = TRUE]
  PROVE  /\ row' \in [Job -> RowType] /\ \A k \in Job : k # j => row'[k] = row[k]
         /\ row'[j].status = "pending" /\ row'[j].resume = TRUE /\ row'[j].fresh = TRUE
         /\ row'[j].asked = row[j].asked
<1> DEFINE back == [row[j] EXCEPT !.status = "pending", !.resume = TRUE, !.fresh = TRUE]
<1>1. /\ back \in RowType /\ back.status = "pending" /\ back.asked = row[j].asked
      /\ back.fresh = TRUE /\ back.resume = TRUE
  BY DEF RowType, Status
<1>2. row' = [row EXCEPT ![j] = back] OBVIOUS
<1> HIDE DEF back
<1> QED BY <1>1, <1>2

\* The bounds of the model count up; the properties' memory stays.
LEMMA HistoryFacts ==
  ASSUME history \in HistoryType,
         \/ UNCHANGED history
         \/ history' = [history EXCEPT !.crashes = @ + 1]
         \/ history' = [history EXCEPT !.stops = @ + 1]
         \/ history' = [history EXCEPT !.losses = @ + 1]
  PROVE  /\ history' \in HistoryType
         /\ history'.twice = history.twice /\ history'.slain = history.slain
<1> DEFINE c == history.crashes + 1
           s == history.stops + 1
           l == history.losses + 1
<1>1. c \in Nat /\ s \in Nat /\ l \in Nat BY DEF HistoryType
<1>2. \/ UNCHANGED history
      \/ history' = [history EXCEPT !.crashes = c]
      \/ history' = [history EXCEPT !.stops = s]
      \/ history' = [history EXCEPT !.losses = l]
  OBVIOUS
<1> HIDE DEF c, s, l
<1> QED BY <1>1, <1>2 DEF HistoryType

\* Type correctness after a step of a worker that is given by its parts.
LEMMA PartsType ==
  ASSUME TypeInv, NEW p \in Proc,
         row' \in [Job -> RowType], task' \in [Proc -> TaskType],
         \A q \in Proc : q # p => task'[q] = task[q],
         \/ task'[p].at = "off"
         \/ /\ task'[p].job \in Job
            /\ task'[p].at \in {"wait", "label", "saved", "requeue"} => task'[p].job \in AutoLabel
            /\ task'[p].at \in {"ask", "train", "score", "ghost"} => task'[p].job \in Train
            /\ task'[p].at \in {"claimed", "requeue", "ghost"} => p \in Worker,
         UNCHANGED worker \/ \E w \in Worker, at \in {"down", "boot", "reset", "up", "exiting"} :
                               worker' = [worker EXCEPT ![w] = at],
         UNCHANGED orphans \/ \E w \in Worker, S \in SUBSET AutoLabel :
                               orphans' = [orphans EXCEPT ![w] = S],
         lock' \in Worker \cup {Nobody}, slot' \in Proc \cup {Nobody, Other},
         UNCHANGED <<asking, reaping, labelled>>,
         \/ UNCHANGED history
         \/ history' = [history EXCEPT !.crashes = @ + 1]
         \/ history' = [history EXCEPT !.stops = @ + 1]
         \/ history' = [history EXCEPT !.losses = @ + 1]
  PROVE  TypeInv'
<1>1. history' \in HistoryType BY HistoryFacts DEF TypeInv, TypeOK, HistoryType
<1>2. worker' \in [Worker -> {"down", "boot", "reset", "up", "exiting"}] BY DEF TypeInv, TypeOK
<1>3. orphans' \in [Worker -> SUBSET AutoLabel] BY DEF TypeInv, TypeOK
<1>4. StagesOK'
  <2> SUFFICES ASSUME NEW q \in Proc
               PROVE  LET t == task'[q] IN
                        /\ t.at # "off" => t.job \in Job
                        /\ t.at \in {"wait", "label", "saved", "requeue"} => t.job \in AutoLabel
                        /\ t.at \in {"ask", "train", "score", "ghost"} => t.job \in Train
                        /\ t.at \in {"claimed", "requeue", "ghost"} => q \in Worker
    BY DEF StagesOK
  <2>1. CASE q = p BY <2>1
  <2>2. CASE q # p BY <2>2 DEF TypeInv, StagesOK
  <2> QED BY <2>1, <2>2
<1> QED BY <1>1, <1>2, <1>3, <1>4 DEF TypeInv, TypeOK, RowType, TaskType, HistoryType

\* An auto-label job is submitted, and in-process mode starts a task for it.
LEMMA StartStep ==
  ASSUME TypeInv, NEW j \in AutoLabel, Start(j)
  PROVE  /\ TypeInv' /\ j \in Job /\ row[j].status = "absent" /\ row'[j].status = "pending"
         /\ row'[j].fresh = TRUE
         /\ \A k \in Job : /\ k # j => row'[k] = row[k]
                           /\ row'[k].resume = row[k].resume /\ row'[k].asked = row[k].asked
         /\ \/ UNCHANGED task
            \/ /\ Executor = "api" /\ task'[j].at = "start" /\ task'[j].job = j
               /\ \A q \in Proc : q # j => task'[q] = task[q]
<1>1. row \in [Job -> RowType] /\ task \in [Proc -> TaskType] /\ j \in Job /\ j \in Proc
  BY DEF TypeInv, TypeOK, RowType, TaskType, Job, Proc
<1>2. /\ row' \in [Job -> RowType] /\ row'[j].status = "pending" /\ row'[j].fresh = TRUE
      /\ \A k \in Job : /\ k # j => row'[k] = row[k]
                        /\ row'[k].resume = row[k].resume /\ row'[k].asked = row[k].asked
  BY <1>1, BumpFacts DEF Start, Status, Why
<1> DEFINE new == [NoTask EXCEPT !.at = "start", !.job = j]
<1>3. new \in TaskType /\ new.at = "start" /\ new.job = j
  BY <1>1 DEF NoTask, TaskType, Stage
<1>4. UNCHANGED task \/ (Executor = "api" /\ task' = [task EXCEPT ![j] = new]) BY DEF Start
<1> HIDE DEF new
<1>5. /\ task' \in [Proc -> TaskType]
      /\ \/ UNCHANGED task
         \/ /\ Executor = "api" /\ task'[j] = new
            /\ \A q \in Proc : q # j => task'[q] = task[q]
  BY <1>1, <1>3, <1>4
<1>6. TypeInv'
  <2>1. StagesOK'
    <3> SUFFICES ASSUME NEW q \in Proc
                 PROVE  LET t == task'[q] IN
                          /\ t.at # "off" => t.job \in Job
                          /\ t.at \in {"wait", "label", "saved", "requeue"} => t.job \in AutoLabel
                          /\ t.at \in {"ask", "train", "score", "ghost"} => t.job \in Train
                          /\ t.at \in {"claimed", "requeue", "ghost"} => q \in Worker
      BY DEF StagesOK
    <3>1. CASE task'[q] = task[q] BY <3>1 DEF TypeInv, StagesOK
    <3>2. CASE task'[q] = new BY <1>1, <1>3, <3>2
    <3> QED BY <1>5, <3>1, <3>2
  <2> QED BY <1>2, <1>5, <2>1 DEF Start, TypeInv, TypeOK, RowType, TaskType
<1> QED BY <1>1, <1>2, <1>3, <1>5, <1>6 DEF Start

\* The API process dies.
LEMMA ApiDiesStep ==
  ASSUME TypeInv, ApiDies
  PROVE  /\ TypeInv' /\ history'.twice = history.twice /\ history'.slain = history.slain
         /\ \A p \in Proc : IF p \in AutoLabel THEN task'[p].at = "off" /\ task'[p].job = NoJob
                                               ELSE task'[p] = task[p]
<1>1. task \in [Proc -> TaskType] /\ NoTask \in TaskType /\ NoTask.at = "off" /\ NoTask.job = NoJob
  BY DEF TypeInv, TypeOK, TaskType, NoTask, Stage
<1>2. /\ task' = [p \in Proc |-> IF p \in AutoLabel THEN NoTask ELSE task[p]]
      /\ history' = [history EXCEPT !.crashes = @ + 1]
      /\ UNCHANGED <<row, worker, orphans, lock, labelled>>
      /\ asking' = [j \in Job |-> "no"] /\ reaping' = {}
      /\ slot' \in {slot, Nobody}
  BY DEF ApiDies
<1> HIDE DEF NoTask
<1>3. /\ history' \in HistoryType
      /\ history'.twice = history.twice /\ history'.slain = history.slain
  BY <1>2, HistoryFacts DEF TypeInv, TypeOK, HistoryType
<1>4. /\ task' \in [Proc -> TaskType]
      /\ \A p \in Proc : task'[p] = IF p \in AutoLabel THEN NoTask ELSE task[p]
  BY <1>1, <1>2
<1>5. StagesOK' BY <1>1, <1>4 DEF TypeInv, StagesOK
<1>6. asking' \in [Job -> {"no", "pending", "running"}] BY <1>2
<1>7. TypeInv' BY <1>2, <1>3, <1>4, <1>5, <1>6 DEF TypeInv, TypeOK, TaskType, HistoryType
<1> QED BY <1>1, <1>3, <1>4, <1>7

\* The database ends every session.
LEMMA LoseStep ==
  ASSUME TypeInv, LoseConnections
  PROVE  /\ TypeInv' /\ history'.twice = history.twice /\ history'.slain = history.slain
         /\ \A p \in Proc : /\ task'[p].job = task[p].job
                            /\ IF task[p].at \in {"wait", "label"} THEN task'[p].at = "failing"
                                                                   ELSE task'[p] = task[p]
<1>1. task \in [Proc -> TaskType] BY DEF TypeInv, TypeOK, TaskType
<1> DEFINE new(p) == [task[p] EXCEPT !.at = "failing"]
<1>2. ASSUME NEW p \in Proc
      PROVE  new(p) \in TaskType /\ new(p).at = "failing" /\ new(p).job = task[p].job
  BY <1>1 DEF TaskType, Stage
<1>3. /\ task' = [p \in Proc |-> IF task[p].at \in {"wait", "label"} THEN new(p) ELSE task[p]]
      /\ history' = [history EXCEPT !.losses = @ + 1]
      /\ UNCHANGED <<row, worker, orphans, asking, reaping, labelled>>
      /\ slot' = Nobody /\ lock' = Nobody
  BY DEF LoseConnections
<1> HIDE DEF new
<1>4. /\ history' \in HistoryType
      /\ history'.twice = history.twice /\ history'.slain = history.slain
  BY <1>3, HistoryFacts DEF TypeInv, TypeOK, HistoryType
<1>5. /\ task' \in [Proc -> TaskType]
      /\ \A p \in Proc : task'[p] = IF task[p].at \in {"wait", "label"} THEN new(p) ELSE task[p]
  BY <1>1, <1>2, <1>3
<1>6. StagesOK' BY <1>2, <1>5 DEF TypeInv, StagesOK
<1>7. TypeInv' BY <1>3, <1>4, <1>5, <1>6 DEF TypeInv, TypeOK, TaskType, HistoryType
<1> QED BY <1>2, <1>4, <1>5, <1>7

\* An exception in the work.
LEMMA RaiseStep ==
  ASSUME TypeInv, NEW p \in Proc, Raise(p)
  PROVE  /\ TypeInv' /\ Goes(p) /\ task'[p].at = "failing" /\ task[p].at \in {"label", "train", "score"}
         /\ UNCHANGED <<row, worker, orphans, lock, asking, reaping, labelled, history>>
<1>1. /\ task[p].at \in {"label", "train", "score"} /\ At(p, "failing") /\ slot' = Freed(p)
      /\ UNCHANGED <<row, worker, orphans, lock, asking, reaping, labelled, history>>
  BY DEF Raise
<1>2. /\ Goes(p) /\ row' \in [Job -> RowType] /\ task' \in [Proc -> TaskType]
      /\ task'[p].at = "failing"
  BY <1>1, OnlyAt, AtFacts, StageFacts DEF Stage
<1>3. slot' \in Proc \cup {Nobody, Other} /\ labelled \in [AutoLabel -> Nat]
  BY <1>1 DEF Freed, TypeInv, TypeOK
<1>4. TypeInv' BY <1>1, <1>2, <1>3, GoesType
<1> QED BY <1>1, <1>2, <1>4

\* A worker takes the oldest queued job; the row is still waiting, and an auto-label job
\* is taken only where the worker runs those.
LEMMA ClaimStep ==
  ASSUME TypeInv, NEW w \in Worker, Claim(w)
  PROVE  /\ TypeInv' /\ worker[w] = "up" /\ task[w].at = "off" /\ lock = w
         /\ UNCHANGED <<worker, orphans, lock, slot, asking, reaping, labelled, history>>
         /\ \E j \in Job :
              /\ row[j].status = "pending" /\ row'[j].status = "running"
              /\ row'[j].fresh = TRUE /\ (j \in AutoLabel => Executor = "worker")
              /\ \A k \in Job : /\ k # j => row'[k] = row[k]
                                /\ row'[k].resume = row[k].resume /\ row'[k].asked = row[k].asked
              /\ task'[w].at = "claimed" /\ task'[w].job = j
              /\ \A q \in Proc : q # w => task'[q] = task[q]
<1> DEFINE j == Oldest(Queued)
<1>1. row \in [Job -> RowType] /\ task \in [Proc -> TaskType] /\ w \in Proc
  BY DEF TypeInv, TypeOK, RowType, TaskType, Proc
<1>2. Queued \subseteq Job /\ Queued # {} BY DEF Claim, Queued, Waiting, Job
<1>3. j \in Queued BY <1>2, OldestMember
<1>4. /\ j \in Job /\ row[j].status = "pending" /\ (j \in AutoLabel => Executor = "worker")
  BY <1>2, <1>3, ShapeAssumption DEF Queued, Waiting
<1> DEFINE new == [NoTask EXCEPT !.at = "claimed", !.job = j]
<1>5. Bump(j, "running", row[j].why) /\ task' = [task EXCEPT ![w] = new] BY DEF Claim
<1> HIDE DEF j
<1>6. new \in TaskType /\ new.at = "claimed" /\ new.job = j
  BY <1>4 DEF NoTask, TaskType, Stage
<1> HIDE DEF new
<1>7. /\ row' \in [Job -> RowType] /\ row'[j].status = "running" /\ row'[j].fresh = TRUE
      /\ \A k \in Job : /\ k # j => row'[k] = row[k]
                        /\ row'[k].resume = row[k].resume /\ row'[k].asked = row[k].asked
  <2>1. row[j].why \in Why BY <1>1, <1>4 DEF RowType
  <2> QED BY <1>1, <1>4, <1>5, <2>1, BumpFacts DEF Status
<1>8. /\ task' \in [Proc -> TaskType] /\ task'[w] = new
      /\ \A q \in Proc : q # w => task'[q] = task[q]
  BY <1>1, <1>5, <1>6
<1>9. /\ worker[w] = "up" /\ task[w].at = "off" /\ lock = w
      /\ UNCHANGED <<worker, orphans, lock, slot, asking, reaping, labelled, history>>
  BY DEF Claim
<1>10. TypeInv'
  <2>1. lock' \in Worker \cup {Nobody} /\ slot' \in Proc \cup {Nobody, Other}
    BY <1>9 DEF TypeInv, TypeOK
  <2> QED BY <1>1, <1>4, <1>6, <1>7, <1>8, <1>9, <2>1, PartsType
<1> QED BY <1>4, <1>6, <1>7, <1>8, <1>9, <1>10

\* The preflight passes, or a training job ends before it began.
LEMMA LaunchStep ==
  ASSUME TypeInv, NEW w \in Worker, Launch(w)
  PROVE  /\ TypeInv' /\ Goes(w) /\ task[w].at = "claimed"
         /\ UNCHANGED <<worker, orphans, lock, slot, asking, reaping, labelled, history>>
         /\ \/ UNCHANGED row /\ task'[w].at = "start"
            \/ /\ task[w].job \in Train /\ row'[task[w].job].status = "error"
               /\ task'[w].at = "off"
<1>1. row \in [Job -> RowType] /\ task \in [Proc -> TaskType] /\ w \in Proc
      /\ task[w].at = "claimed" /\ slot \in Proc \cup {Nobody, Other}
      /\ labelled \in [AutoLabel -> Nat]
      /\ UNCHANGED <<worker, orphans, lock, slot, asking, reaping, labelled, history>>
  BY DEF Launch, TypeInv, TypeOK, RowType, TaskType, Proc
<1>2. CASE At(w, "start") /\ UNCHANGED row
  <2>1. /\ Goes(w) /\ row' \in [Job -> RowType] /\ task' \in [Proc -> TaskType]
        /\ task'[w].at = "start"
    BY <1>1, <1>2, OnlyAt, AtFacts DEF Stage
  <2>2. TypeInv' BY <1>1, <2>1, GoesType
  <2> QED BY <1>1, <1>2, <2>1, <2>2
<1>3. CASE task[w].job \in Train /\ Bump(task[w].job, "error", "failed") /\ Leave(w)
  <2>1. /\ Goes(w) /\ row' \in [Job -> RowType] /\ task' \in [Proc -> TaskType]
        /\ task'[w].at = "off" /\ row'[task[w].job].status = "error"
    BY <1>1, <1>3, BumpLeave, LeaveFacts DEF Terminal, Why
  <2>2. TypeInv' BY <1>1, <2>1, GoesType
  <2> QED BY <1>1, <1>3, <2>1, <2>2
<1> QED BY <1>2, <1>3 DEF Launch

\* A worker that dies, stops between jobs, or ends with its thread.
LEMMA WorkerEndsStep ==
  ASSUME TypeInv, NEW w \in Worker,
         Stop(w) \/ ThreadEnds(w) \/ Crash(w) \/ PoisonCrash(w) \/ ExitUnlocked(w)
  PROVE  /\ TypeInv' /\ UNCHANGED <<row, asking, reaping, labelled>>
         /\ history'.twice = history.twice /\ history'.slain = history.slain
         /\ worker' = [worker EXCEPT ![w] = "down"] /\ lock' \in {lock, Unlocked(w)}
         /\ UNCHANGED orphans \/ orphans' = [orphans EXCEPT ![w] = {}]
         /\ task'[w].at = "off" /\ \A q \in Proc : q # w => task'[q] = task[q]
<1>1. row \in [Job -> RowType] /\ task \in [Proc -> TaskType] /\ w \in Proc
      /\ lock \in Worker \cup {Nobody} /\ slot \in Proc \cup {Nobody, Other}
  BY DEF TypeInv, TypeOK, RowType, TaskType, Proc
<1>2. /\ Leave(w) \/ (task[w].at = "off" /\ UNCHANGED task)
      /\ worker' = [worker EXCEPT ![w] = "down"] /\ lock' \in {lock, Unlocked(w)}
      /\ UNCHANGED orphans \/ orphans' = [orphans EXCEPT ![w] = {}]
      /\ UNCHANGED <<row, asking, reaping, labelled>> /\ slot' \in {slot, Freed(w)}
      /\ \/ UNCHANGED history
         \/ history' = [history EXCEPT !.crashes = @ + 1]
         \/ history' = [history EXCEPT !.stops = @ + 1]
         \/ history' = [history EXCEPT !.losses = @ + 1]
  BY DEF Stop, ThreadEnds, Crash, PoisonCrash, ExitUnlocked, Dead
<1>3. /\ task' \in [Proc -> TaskType] /\ task'[w].at = "off"
      /\ \A q \in Proc : q # w => task'[q] = task[q]
  BY <1>1, <1>2, LeaveFacts
<1>4. lock' \in Worker \cup {Nobody} /\ slot' \in Proc \cup {Nobody, Other}
  BY <1>1, <1>2 DEF Unlocked, Freed
<1>5. TypeInv' BY <1>1, <1>2, <1>3, <1>4, PartsType
<1>6. history'.twice = history.twice /\ history'.slain = history.slain
  BY <1>2, HistoryFacts DEF TypeInv, TypeOK, HistoryType
<1> QED BY <1>2, <1>3, <1>5, <1>6

\* A worker starts: the lock, the orphans, the training rows.
LEMMA BootStep ==
  ASSUME TypeInv, NEW w \in Worker, Boot(w) \/ RequeueOrphans(w) \/ ResetTraining(w)
  PROVE  /\ TypeInv' /\ UNCHANGED <<task, slot, asking, reaping, labelled, history>>
         /\ \A j \in Job : row'[j].asked = row[j].asked
<1>1. /\ row \in [Job -> RowType] /\ task \in [Proc -> TaskType] /\ w \in Proc
      /\ lock \in Worker \cup {Nobody} /\ slot \in Proc \cup {Nobody, Other}
      /\ UNCHANGED <<task, slot, asking, reaping, labelled, history>>
      /\ task[w].at # "off" => task[w].job \in Job
  BY DEF TypeInv, TypeOK, StagesOK, RowType, TaskType, Proc, Boot, RequeueOrphans, ResetTraining
<1>2. /\ \E at \in {"boot", "reset", "up"} : worker' = [worker EXCEPT ![w] = at]
      /\ lock' \in {lock, w}
      /\ UNCHANGED orphans \/ \E S \in SUBSET AutoLabel : orphans' = [orphans EXCEPT ![w] = S]
  BY DEF Boot, RequeueOrphans, ResetTraining
<1>3. row' \in [Job -> RowType] /\ \A j \in Job : row'[j].asked = row[j].asked
  <2>1. CASE Boot(w) BY <1>1, <2>1 DEF Boot
  <2>2. CASE RequeueOrphans(w)
    <3>1. row' = [j \in Job |-> IF j \in orphans[w] THEN Requeued(row[j]) ELSE row[j]]
      BY <2>2 DEF RequeueOrphans
    <3> QED BY <1>1, <3>1, RequeuedFacts
  <2>3. CASE ResetTraining(w) BY <1>1, <2>3, ResetFacts DEF ResetTraining
  <2> QED BY <2>1, <2>2, <2>3
<1>4. TypeInv'
  <2>1. StagesOK' BY <1>1 DEF TypeInv, StagesOK
  <2>2. worker' \in [Worker -> {"down", "boot", "reset", "up", "exiting"}]
        /\ orphans' \in [Worker -> SUBSET AutoLabel]
    BY <1>2 DEF TypeInv, TypeOK
  <2> QED BY <1>1, <1>2, <1>3, <2>1, <2>2 DEF TypeInv, TypeOK, RowType
<1> QED BY <1>1, <1>3, <1>4

\* A stop with an auto-label job, and the row that goes back.
LEMMA StopAutolabelStep ==
  ASSUME TypeInv, NEW w \in Worker, StopAutolabel(w) \/ RequeueInterrupted(w)
  PROVE  /\ TypeInv' /\ UNCHANGED <<orphans, asking, reaping, labelled>>
         /\ history'.twice = history.twice /\ history'.slain = history.slain
         /\ task[w].at \in {"start", "wait", "label", "saved", "failing", "requeue"}
         /\ task[w].job \in AutoLabel
         /\ \A q \in Proc : q # w => task'[q] = task[q]
         /\ \/ /\ task[w].at # "requeue" /\ row[task[w].job].status = "running"
               /\ task'[w].at = "requeue"
               /\ task'[w].job = task[w].job /\ UNCHANGED <<row, worker, lock>>
            \/ /\ task[w].at # "requeue" /\ row[task[w].job].status # "running"
               /\ task'[w].at = "off" /\ UNCHANGED row /\ lock' = Unlocked(w)
               /\ worker' = [worker EXCEPT ![w] = "down"]
            \/ /\ task[w].at = "requeue" /\ task'[w].at = "off"
               /\ worker' = [worker EXCEPT ![w] = "down"] /\ lock' = Unlocked(w)
               /\ \A k \in Job : k # task[w].job => row'[k] = row[k]
               /\ row'[task[w].job].status = "pending" /\ row'[task[w].job].resume = TRUE
               /\ row'[task[w].job].fresh = TRUE
               /\ row'[task[w].job].asked = row[task[w].job].asked
<1> DEFINE j == task[w].job
<1>1. /\ row \in [Job -> RowType] /\ task \in [Proc -> TaskType] /\ w \in Proc
      /\ lock \in Worker \cup {Nobody} /\ slot \in Proc \cup {Nobody, Other}
      /\ task[w].at = "requeue" => j \in AutoLabel
  BY DEF TypeInv, TypeOK, StagesOK, RowType, TaskType, Proc
<1>2. CASE StopAutolabel(w)
  <2>1. /\ j \in AutoLabel /\ j \in Job
        /\ task[w].at \in {"start", "wait", "label", "saved", "failing"}
        /\ slot' = Freed(w) /\ UNCHANGED <<row, orphans, asking, reaping, labelled>>
        /\ history' = [history EXCEPT !.stops = @ + 1]
    BY <1>2 DEF StopAutolabel, Job
  <2>2. history'.twice = history.twice /\ history'.slain = history.slain
    BY <2>1, HistoryFacts DEF TypeInv, TypeOK, HistoryType
  <2>3. slot' \in Proc \cup {Nobody, Other} BY <1>1, <2>1 DEF Freed
  <2>4. CASE row[j].status = "running"
    <3>1. At(w, "requeue") /\ UNCHANGED <<worker, lock>> BY <1>2, <2>4 DEF StopAutolabel
    <3>2. /\ task' \in [Proc -> TaskType] /\ task'[w].at = "requeue" /\ task'[w].job = j
          /\ \A q \in Proc : q # w => task'[q] = task[q]
      BY <1>1, <3>1, AtFacts DEF Stage
    <3>3. TypeInv' BY <1>1, <2>1, <2>3, <3>1, <3>2, PartsType
    <3> QED BY <2>1, <2>2, <2>4, <3>1, <3>2, <3>3
  <2>5. CASE row[j].status # "running"
    <3>1. Leave(w) /\ lock' = Unlocked(w) /\ worker' = [worker EXCEPT ![w] = "down"]
      BY <1>2, <2>5 DEF StopAutolabel
    <3>2. /\ task' \in [Proc -> TaskType] /\ task'[w].at = "off"
          /\ \A q \in Proc : q # w => task'[q] = task[q]
      BY <1>1, <3>1, LeaveFacts
    <3>3. lock' \in Worker \cup {Nobody} BY <1>1, <3>1 DEF Unlocked
    <3>4. TypeInv' BY <1>1, <2>1, <2>3, <3>1, <3>2, <3>3, PartsType
    <3> QED BY <2>1, <2>2, <2>5, <3>1, <3>2, <3>4
  <2> QED BY <2>4, <2>5
<1>3. CASE RequeueInterrupted(w)
  <2>1. /\ task[w].at = "requeue" /\ j \in AutoLabel /\ j \in Job /\ Leave(w)
        /\ row' = [row EXCEPT ![j].status = "pending", ![j].resume = TRUE, ![j].fresh = TRUE]
        /\ worker' = [worker EXCEPT ![w] = "down"] /\ lock' = Unlocked(w)
        /\ UNCHANGED <<orphans, slot, asking, reaping, labelled, history>>
    BY <1>1, <1>3 DEF RequeueInterrupted, Job
  <2>2. /\ task' \in [Proc -> TaskType] /\ task'[w].at = "off"
        /\ \A q \in Proc : q # w => task'[q] = task[q]
    BY <1>1, <2>1, LeaveFacts
  <2>3. /\ row' \in [Job -> RowType] /\ \A k \in Job : k # j => row'[k] = row[k]
        /\ row'[j].status = "pending" /\ row'[j].resume = TRUE /\ row'[j].fresh = TRUE
        /\ row'[j].asked = row[j].asked
    BY <1>1, <2>1, ResumeFacts
  <2>4. lock' \in Worker \cup {Nobody} /\ slot' \in Proc \cup {Nobody, Other}
    BY <1>1, <2>1 DEF Unlocked
  <2>5. TypeInv' BY <1>1, <2>1, <2>2, <2>3, <2>4, PartsType
  <2> QED BY <2>1, <2>2, <2>3, <2>5
<1> QED BY <1>2, <1>3

\* A stop with a training job.
LEMMA StopTrainingStep ==
  ASSUME TypeInv, NEW w \in Worker, StopTraining(w)
  PROVE  /\ TypeInv' /\ UNCHANGED <<orphans, asking, reaping, labelled, slot>> /\ TrainingReset
         /\ history'.twice = history.twice /\ history'.slain = history.slain
         /\ task[w].job \in Train /\ worker[w] = "up"
         /\ task[w].at \in {"start", "ask", "train", "score", "failing"}
         /\ task'[w].at \in {"off", "ghost"}
         /\ worker' = [worker EXCEPT ![w] = "exiting"] /\ lock' = Unlocked(w)
         /\ \A q \in Proc : q # w => task'[q] = task[q]
<1>1. /\ row \in [Job -> RowType] /\ task \in [Proc -> TaskType] /\ w \in Proc
      /\ lock \in Worker \cup {Nobody} /\ slot \in Proc \cup {Nobody, Other}
  BY DEF TypeInv, TypeOK, RowType, TaskType, Proc
<1> DEFINE stage == IF task[w].at \in {"train", "score"} THEN "ghost" ELSE "off"
<1>2. /\ task[w].job \in Train /\ task[w].job \in Job /\ worker[w] = "up" /\ TrainingReset
      /\ task[w].at \in {"start", "ask", "train", "score", "failing"} /\ At(w, stage)
      /\ worker' = [worker EXCEPT ![w] = "exiting"] /\ lock' = Unlocked(w)
      /\ history' = [history EXCEPT !.stops = @ + 1]
      /\ UNCHANGED <<orphans, slot, asking, reaping, labelled>>
  BY DEF StopTraining, Job
<1>3. stage \in Stage /\ stage \in {"off", "ghost"} BY DEF Stage
<1> HIDE DEF stage
<1>4. /\ task' \in [Proc -> TaskType] /\ task'[w].at = stage /\ task'[w].job = task[w].job
      /\ \A q \in Proc : q # w => task'[q] = task[q]
  BY <1>1, <1>2, <1>3, AtFacts
<1>5. row' \in [Job -> RowType] BY <1>1, <1>2, ResetFacts
<1>6. lock' \in Worker \cup {Nobody} BY <1>1, <1>2 DEF Unlocked
<1>7. TypeInv' BY <1>1, <1>2, <1>3, <1>4, <1>5, <1>6, PartsType
<1>8. history'.twice = history.twice /\ history'.slain = history.slain
  BY <1>2, HistoryFacts DEF TypeInv, TypeOK, HistoryType
<1> QED BY <1>2, <1>3, <1>4, <1>7, <1>8

LEMMA TypeStep == TypeInv /\ [Next]_vars => TypeInv'
<1> SUFFICES ASSUME TypeInv, [Next]_vars PROVE TypeInv' OBVIOUS
<1>1. CASE UNCHANGED vars BY <1>1 DEF vars, TypeInv, TypeOK, StagesOK
<1>2. ASSUME NEW p \in Proc, Run(p) PROVE TypeInv' BY <1>2, RunStep DEF RunFacts
<1>3. ASSUME NEW p \in Proc, Raise(p) PROVE TypeInv' BY <1>3, RaiseStep
<1>4. ASSUME NEW w \in Worker, Serve(w) \/ Stop(w) \/ StopAutolabel(w) \/ StopTraining(w) \/ Crash(w)
      PROVE  TypeInv'
  BY <1>4, BootStep, ClaimStep, LaunchStep, WorkerEndsStep, StopAutolabelStep, StopTrainingStep
  DEF Serve
<1>5. ASSUME NEW j \in AutoLabel, Start(j) PROVE TypeInv' BY <1>5, StartStep
<1> QED BY <1>1, <1>2, <1>3, <1>4, <1>5, ApiType, ApiDiesStep, LoseStep DEF Next

\* Every state has the type of a job's life, and a task is only in a stage of its job's kind.
LEMMA TypeAlways == Spec => []TypeInv
BY InitType, TypeStep, PTL DEF Spec

\* The rows, the tasks, the locks and the cursors keep their types.
THEOREM TypeCorrect == Spec => []TypeOK
BY TypeAlways, PTL DEF TypeInv

-------------------------------------------------------------------------------
(* Who runs what.  A task of the API runs its own job and only there; a     *)
(* worker's task needs the worker up, or is the thread it waits for; a      *)
(* worker that lost no connection holds the lock as long as it serves.      *)

HostInv ==
  /\ \A w \in Worker : task[w].at # "off" =>
       /\ worker[w] = "up" \/ (worker[w] = "exiting" /\ task[w].at = "ghost")
       /\ task[w].job \in Train \/ Executor = "worker"
  /\ \A j \in AutoLabel : task[j].at # "off" => task[j].job = j /\ Executor = "api"
  /\ \A w \in Worker : orphans[w] # {} => worker[w] = "boot" /\ Executor = "worker"

LockHeld == \A w \in Worker : worker[w] \in {"boot", "reset", "up"} => lock = w

LEMMA InitHost == Init => HostInv /\ LockHeld
<1> SUFFICES ASSUME Init PROVE HostInv /\ LockHeld OBVIOUS
<1>1. NoTask.at = "off" BY DEF NoTask
<1>2. \A p \in Proc : task[p] = NoTask BY DEF Init
<1>3. \A p \in Proc : task[p].at = "off" BY <1>1, <1>2
<1> QED BY <1>3 DEF Init, HostInv, LockHeld, Proc

LEMMA HostStep == TypeInv /\ HostInv /\ [Next]_vars => HostInv'
<1> SUFFICES ASSUME TypeInv, HostInv, [Next]_vars PROVE HostInv' OBVIOUS
<1>0. /\ worker \in [Worker -> {"down", "boot", "reset", "up", "exiting"}]
      /\ orphans \in [Worker -> SUBSET AutoLabel]
      /\ AutoLabel \subseteq Proc /\ Worker \subseteq Proc /\ AutoLabel \cap Worker = {}
  BY ShapeAssumption DEF TypeInv, TypeOK, Proc
<1>1. CASE UNCHANGED vars BY <1>1 DEF vars, HostInv
<1>2. CASE UNCHANGED <<task, worker, orphans>> BY <1>2 DEF HostInv
<1>3. ASSUME NEW p \in Proc, Goes(p), UNCHANGED <<worker, orphans>>, task[p].at \notin {"off", "ghost"}
      PROVE  HostInv'
  BY <1>0, <1>3 DEF Goes, HostInv
<1>4. ASSUME NEW j \in AutoLabel, Start(j) PROVE HostInv'
  <2>1. UNCHANGED <<worker, orphans>> BY <1>4 DEF Start
  <2>2. CASE UNCHANGED task BY <1>2, <2>1, <2>2
  <2>3. CASE /\ Executor = "api" /\ task'[j].at = "start" /\ task'[j].job = j
             /\ \A q \in Proc : q # j => task'[q] = task[q]
    BY <1>0, <2>1, <2>3 DEF HostInv
  <2> QED BY <1>4, <2>2, <2>3, StartStep
<1>5. CASE ApiDies BY <1>0, <1>5, ApiDiesStep DEF HostInv, ApiDies
<1>6. CASE LoseConnections
  <2>1. UNCHANGED <<worker, orphans>> BY <1>6 DEF LoseConnections
  <2>2. \A p \in Proc : /\ task'[p].job = task[p].job /\ (task'[p].at = "off" <=> task[p].at = "off")
                        /\ task'[p].at = "ghost" <=> task[p].at = "ghost"
    BY <1>6, LoseStep
  <2>3. \A w \in Worker : task'[w].at # "off" =>
          /\ worker'[w] = "up" \/ (worker'[w] = "exiting" /\ task'[w].at = "ghost")
          /\ task'[w].job \in Train \/ Executor = "worker"
    <3> TAKE w \in Worker
    <3>1. w \in Proc BY <1>0
    <3> QED BY <2>1, <2>2, <3>1 DEF HostInv
  <2>4. \A j \in AutoLabel : task'[j].at # "off" => task'[j].job = j /\ Executor = "api"
    <3> TAKE j \in AutoLabel
    <3>1. j \in Proc BY <1>0
    <3> QED BY <2>2, <3>1 DEF HostInv
  <2> QED BY <2>1, <2>3, <2>4 DEF HostInv
<1>7. ASSUME NEW w \in Worker, Boot(w) \/ RequeueOrphans(w) \/ ResetTraining(w) PROVE HostInv'
  <2>1. /\ UNCHANGED task /\ worker[w] \in {"down", "boot", "reset"}
        /\ worker'[w] \in {"boot", "reset", "up"}
        /\ \A v \in Worker : v # w => worker'[v] = worker[v] /\ orphans'[v] = orphans[v]
        /\ orphans'[w] # {} => worker'[w] = "boot" /\ Executor = "worker"
    BY <1>0, <1>7 DEF Boot, RequeueOrphans, ResetTraining, HostInv
  <2>2. task[w].at = "off" BY <2>1 DEF HostInv
  <2> QED BY <1>0, <2>1, <2>2 DEF HostInv
<1>8. ASSUME NEW w \in Worker, Claim(w) PROVE HostInv'
  <2>1. /\ worker[w] = "up" /\ UNCHANGED <<worker, orphans>>
        /\ \A q \in Proc : q # w => task'[q] = task[q]
        /\ task'[w].job \in Job /\ (task'[w].job \in AutoLabel => Executor = "worker")
    BY <1>8, ClaimStep
  <2> QED BY <1>0, <2>1 DEF HostInv, Job
<1>9. ASSUME NEW w \in Worker,
             Stop(w) \/ ThreadEnds(w) \/ Crash(w) \/ PoisonCrash(w) \/ ExitUnlocked(w)
      PROVE  HostInv'
  <2>1. /\ worker' = [worker EXCEPT ![w] = "down"] /\ task'[w].at = "off"
        /\ \A q \in Proc : q # w => task'[q] = task[q]
        /\ \A v \in Worker : v # w => orphans'[v] = orphans[v]
    BY <1>0, <1>9, WorkerEndsStep
  <2>2. orphans'[w] = {}
    <3>1. CASE Crash(w) \/ PoisonCrash(w) BY <1>0, <3>1 DEF Crash, PoisonCrash, Dead
    <3>2. CASE Stop(w) \/ ThreadEnds(w) \/ ExitUnlocked(w)
      BY <1>0, <3>2 DEF Stop, ThreadEnds, ExitUnlocked, HostInv
    <3> QED BY <1>9, <3>1, <3>2
  <2> QED BY <1>0, <2>1, <2>2 DEF HostInv
<1>10. ASSUME NEW w \in Worker, StopAutolabel(w) \/ RequeueInterrupted(w) PROVE HostInv'
  <2>1. /\ UNCHANGED orphans /\ task[w].at # "off" /\ task[w].at # "ghost"
        /\ \A q \in Proc : q # w => task'[q] = task[q]
        /\ \/ task'[w].job = task[w].job /\ UNCHANGED worker
           \/ task'[w].at = "off" /\ worker' = [worker EXCEPT ![w] = "down"]
    BY <1>10, StopAutolabelStep
  <2>2. worker[w] = "up" BY <2>1 DEF HostInv
  <2> QED BY <1>0, <2>1, <2>2 DEF HostInv
<1>11. ASSUME NEW w \in Worker, StopTraining(w) PROVE HostInv'
  <2>1. /\ UNCHANGED orphans /\ worker[w] = "up" /\ worker' = [worker EXCEPT ![w] = "exiting"]
        /\ task'[w].at \in {"off", "ghost"} /\ task'[w].job \in Train
        /\ \A q \in Proc : q # w => task'[q] = task[q]
    <3>1. task'[w].job = task[w].job
      <4>1. task \in [Proc -> TaskType] /\ w \in Proc BY <1>0 DEF TypeInv, TypeOK, TaskType
      <4>2. PICK stage \in Stage : At(w, stage) BY <1>11 DEF StopTraining, Stage
      <4> QED BY <4>1, <4>2, AtFacts
    <3> QED BY <1>11, <3>1, StopTrainingStep
  <2> QED BY <1>0, <2>1 DEF HostInv
<1>12. ASSUME NEW p \in Proc, Run(p) PROVE HostInv' BY <1>3, <1>12, RunStep DEF RunFacts
<1>13. ASSUME NEW p \in Proc, Raise(p) PROVE HostInv' BY <1>3, <1>13, RaiseStep
<1>14. ASSUME NEW w \in Worker, Launch(w) PROVE HostInv' BY <1>0, <1>3, <1>14, LaunchStep
<1> QED BY <1>1, <1>2, <1>4, <1>5, <1>6, <1>7, <1>8, <1>9, <1>10, <1>11, <1>12, <1>13, <1>14,
           ApiType DEF Next, Serve

LEMMA LockStep == MaxLosses = 0 /\ TypeInv /\ LockHeld /\ [Next]_vars => LockHeld'
<1> SUFFICES ASSUME MaxLosses = 0, TypeInv, LockHeld, [Next]_vars PROVE LockHeld' OBVIOUS
<1>0. /\ worker \in [Worker -> {"down", "boot", "reset", "up", "exiting"}]
      /\ Nobody \notin Worker /\ history.losses \in Nat
  BY ShapeAssumption DEF TypeInv, TypeOK, Proc
<1>1. CASE UNCHANGED <<worker, lock>> BY <1>1 DEF LockHeld
<1>2. ASSUME NEW w \in Worker, worker' = [worker EXCEPT ![w] = "down"] \/ worker' = [worker EXCEPT ![w] = "exiting"],
             lock' \in {lock, Unlocked(w)}
      PROVE  LockHeld'
  BY <1>0, <1>2 DEF LockHeld, Unlocked
<1>3. ASSUME NEW w \in Worker, Boot(w) PROVE LockHeld' BY <1>0, <1>3 DEF Boot, LockHeld
<1>4. ASSUME NEW w \in Worker, RequeueOrphans(w) \/ ResetTraining(w) PROVE LockHeld'
  BY <1>0, <1>4 DEF RequeueOrphans, ResetTraining, LockHeld
<1>5. ~LoseConnections BY <1>0 DEF LoseConnections
<1>6. ASSUME NEW w \in Worker, Stop(w) \/ ThreadEnds(w) \/ Crash(w) \/ PoisonCrash(w) \/ ExitUnlocked(w)
      PROVE  LockHeld'
  BY <1>2, <1>6, WorkerEndsStep
<1>7. ASSUME NEW w \in Worker, StopAutolabel(w) \/ RequeueInterrupted(w) PROVE LockHeld'
  BY <1>1, <1>2, <1>7, StopAutolabelStep
<1>8. ASSUME NEW w \in Worker, StopTraining(w) PROVE LockHeld' BY <1>2, <1>8, StopTrainingStep
<1>9. ASSUME NEW w \in Worker, Claim(w) \/ Launch(w) PROVE LockHeld'
  BY <1>1, <1>9 DEF Claim, Launch
<1>10. ASSUME NEW p \in Proc, Run(p) \/ Raise(p) PROVE LockHeld'
  BY <1>1, <1>10, RunStep, RaiseStep DEF RunFacts
<1>11. ASSUME NEW j \in AutoLabel, Start(j) PROVE LockHeld' BY <1>1, <1>11 DEF Start
<1>12. CASE ApiDies BY <1>1, <1>12 DEF ApiDies
<1>13. CASE UNCHANGED vars BY <1>1, <1>13 DEF vars
<1> QED BY <1>1, <1>3, <1>4, <1>5, <1>6, <1>7, <1>8, <1>9, <1>10, <1>11, <1>12, <1>13, ApiType
        DEF Next, Serve

\* Two tasks of one job are one task, where no lock is lost under a worker.
LEMMA OneRunner ==
  ASSUME TypeInv, HostInv, NEW p \in Proc, NEW q \in Proc, NEW j \in Job,
         Works(p, j), Works(q, j), LockHeld \/ (Executor = "api" /\ j \in AutoLabel)
  PROVE  p = q
<1>1. /\ task[p].job = j /\ task[p].at # "off" /\ task[p].at # "ghost"
      /\ task[q].job = j /\ task[q].at # "off" /\ task[q].at # "ghost"
  BY DEF Works
<1>2. AutoLabel \cap Train = {} BY ShapeAssumption
<1>3. CASE p \in AutoLabel /\ q \in AutoLabel BY <1>1, <1>3 DEF HostInv
<1>4. CASE p \in Worker /\ q \in Worker
  BY <1>1, <1>2, <1>4 DEF HostInv, LockHeld
<1>5. CASE (p \in Worker /\ q \in AutoLabel) \/ (q \in Worker /\ p \in AutoLabel)
  BY <1>1, <1>2, <1>5 DEF HostInv
<1> QED BY <1>3, <1>4, <1>5 DEF Proc

\* While a worker's lock does not go without it (no connection is lost), no job is run by two
\* processes at once, through any crash, stop, recovery or restart: the lock is held from
\* before recovery reads the rows until the worker is down or its thread is all that is left.
THEOREM NotRunTwiceAlways == MaxLosses = 0 => (Spec => []NotRunTwice)
<1> DEFINE Inv == TypeInv /\ HostInv /\ LockHeld
<1> SUFFICES ASSUME MaxLosses = 0 PROVE Spec => []NotRunTwice OBVIOUS
<1>1. Init => Inv BY InitType, InitHost
<1>2. Inv /\ [Next]_vars => Inv' BY TypeStep, HostStep, LockStep
<1>3. Inv => NotRunTwice BY OneRunner DEF NotRunTwice
<1> HIDE DEF Inv
<1> QED BY <1>1, <1>2, <1>3, PTL DEF Spec

-------------------------------------------------------------------------------
(* Frames.  A row that a run may still begin from has no committed frame or *)
(* says that it resumes; a run that has begun starts behind the last        *)
(* committed frame, and its row cannot be queued again without saying so.   *)

Resumes(j) == labelled[j] = 0 \/ row[j].resume
Begun(j) == row[j].status \notin {"absent", "pending"} \/ row[j].resume

FrameInv ==
  /\ history.twice = {}
  /\ \A j \in AutoLabel : row[j].status \in {"absent", "pending"} => Resumes(j)
  /\ \A p \in Proc, j \in Job : task[p].job = j =>
       /\ task[p].at \in {"claimed", "start"} /\ j \in AutoLabel => Resumes(j)
       /\ task[p].at = "wait" => (task[p].told \/ labelled[j] = 0) /\ Begun(j)
       /\ task[p].at = "label" => labelled[j] < task[p].next /\ Begun(j)

LEMMA InitFrame == Init => FrameInv
<1> SUFFICES ASSUME Init PROVE FrameInv OBVIOUS
<1>1. \A p \in Proc : task[p].at = "off"
  <2>1. NoTask.at = "off" BY DEF NoTask
  <2>2. \A p \in Proc : task[p] = NoTask BY DEF Init
  <2> QED BY <2>1, <2>2
<1>2. \A j \in AutoLabel : labelled[j] = 0 BY DEF Init
<1>3. history.twice = {} BY DEF Init
<1> QED BY <1>1, <1>2, <1>3 DEF FrameInv, Resumes

\* A row is put back in the queue only to resume.
RowsGo == \A k \in Job :
  /\ row[k].resume => row'[k].resume
  /\ row'[k].status \in {"absent", "pending"} =>
       row[k].status \in {"absent", "pending"} \/ row'[k].resume

LEMMA RowsGoMeans ==
  ASSUME FrameInv, RowsGo, UNCHANGED labelled
  PROVE  /\ \A j \in AutoLabel : row'[j].status \in {"absent", "pending"} => Resumes(j)'
         /\ \A j \in Job : (Resumes(j) => Resumes(j)') /\ (Begun(j) => Begun(j)')
BY DEF FrameInv, RowsGo, Resumes, Begun, Job

\* Steps that label nothing: a task goes on, or begins with a row that waited.
LEMMA FrameQuiet ==
  ASSUME TypeInv, TypeInv', FrameInv, RowsGo, UNCHANGED labelled, history'.twice = history.twice,
         \A p \in Proc :
           \/ task'[p] = task[p]
           \/ task'[p].at \notin {"claimed", "start", "wait", "label"}
           \/ task'[p].at = "start" /\ task[p].at = "claimed" /\ task'[p].job = task[p].job
           \/ /\ task'[p].at \in {"claimed", "start"} /\ task'[p].job \in Job
              /\ row[task'[p].job].status \in {"absent", "pending"}
  PROVE  FrameInv'
<1>1. ASSUME NEW p \in Proc, NEW j \in Job, task'[p].job = j
      PROVE  /\ task'[p].at \in {"claimed", "start"} /\ j \in AutoLabel => Resumes(j)'
             /\ task'[p].at = "wait" => (task'[p].told \/ labelled'[j] = 0) /\ Begun(j)'
             /\ task'[p].at = "label" => labelled'[j] < task'[p].next /\ Begun(j)'
  <2>1. CASE task'[p] = task[p] BY <1>1, <2>1, RowsGoMeans DEF FrameInv
  <2>2. CASE task'[p].at \notin {"claimed", "start", "wait", "label"} BY <2>2
  <2>3. CASE task'[p].at = "start" /\ task[p].at = "claimed" /\ task'[p].job = task[p].job
    BY <1>1, <2>3, RowsGoMeans DEF FrameInv
  <2>4. CASE /\ task'[p].at \in {"claimed", "start"}
             /\ row[task'[p].job].status \in {"absent", "pending"}
    BY <1>1, <2>4, RowsGoMeans DEF FrameInv
  <2> QED BY <2>1, <2>2, <2>3, <2>4
<1>2. history'.twice = {} BY DEF FrameInv
<1>3. (\A j \in AutoLabel : row[j].status \in {"absent", "pending"} => Resumes(j))'
  BY RowsGoMeans
<1> QED BY <1>1, <1>2, <1>3 DEF FrameInv

\* A task that goes on with its job, or leaves it, queues no row.
LEMMA GoesRows ==
  ASSUME TypeInv, NEW p \in Proc, Goes(p), task[p].at # "off"
  PROVE  RowsGo
<1>1. task[p].job \in Job BY StageFacts
<1> QED BY <1>1 DEF Goes, RowsGo, Terminal

\* Steps that commit labels: no other task has the job, and its row is not queued to begin anew.
LEMMA FrameLabels ==
  ASSUME TypeInv, TypeInv', FrameInv, NEW p \in Proc, Goes(p), task[p].at = "label",
         \A q \in Proc, j \in AutoLabel : Works(p, j) /\ Works(q, j) => p = q,
         \A k \in AutoLabel : k # task[p].job => labelled'[k] = labelled[k],
         history'.twice = {},
         \/ task'[p].at \notin {"claimed", "start", "wait", "label"}
         \/ /\ task'[p].at = "label" /\ task'[p].job = task[p].job
            /\ labelled'[task[p].job] < task'[p].next
  PROVE  FrameInv'
<1> DEFINE j == task[p].job
<1>1. j \in AutoLabel /\ j \in Job /\ Works(p, j) BY StageFacts DEF Works, Job
<1>2. Begun(j) BY <1>1 DEF FrameInv
<1>3. RowsGo BY GoesRows
<1>4. \A k \in Job : Begun(k) => Begun(k)' BY <1>3 DEF RowsGo, Begun
<1>5. \A k \in AutoLabel : k # j /\ Resumes(k) => Resumes(k)'
  BY <1>3 DEF RowsGo, Resumes, Job
<1>6. ASSUME NEW k \in AutoLabel, row'[k].status \in {"absent", "pending"} PROVE Resumes(k)'
  <2>1. CASE k = j BY <1>1, <1>2, <1>4, <1>6, <2>1 DEF Begun, Resumes
  <2>2. CASE k # j BY <1>3, <1>5, <1>6, <2>2 DEF FrameInv, RowsGo, Resumes, Job
  <2> QED BY <2>1, <2>2
<1>7. ASSUME NEW q \in Proc, NEW k \in Job, task'[q].job = k
      PROVE  /\ task'[q].at \in {"claimed", "start"} /\ k \in AutoLabel => Resumes(k)'
             /\ task'[q].at = "wait" => (task'[q].told \/ labelled'[k] = 0) /\ Begun(k)'
             /\ task'[q].at = "label" => labelled'[k] < task'[q].next /\ Begun(k)'
  <2>1. CASE q = p BY <1>1, <1>2, <1>4, <1>7, <2>1
  <2>2. CASE q # p
    <3>1. task'[q] = task[q] BY <2>2 DEF Goes
    <3>2. CASE k \in AutoLabel /\ task[q].at \notin {"off", "ghost"}
      <4>1. k # j BY <1>1, <1>7, <2>2, <3>1, <3>2 DEF Works
      <4> QED BY <1>4, <1>5, <1>7, <3>1, <3>2, <4>1 DEF FrameInv
    <3>3. CASE k \notin AutoLabel BY <1>7, <3>1, <3>3, StageFacts
    <3>4. CASE task[q].at \in {"off", "ghost"} BY <3>1, <3>4
    <3> QED BY <3>2, <3>3, <3>4
  <2> QED BY <2>1, <2>2
<1>8. (\A k \in AutoLabel : row[k].status \in {"absent", "pending"} => Resumes(k))' BY <1>6
<1> QED BY <1>7, <1>8 DEF FrameInv

LEMMA FrameRun ==
  ASSUME TypeInv, FrameInv, NEW p \in Proc, Run(p),
         \A q \in Proc, j \in AutoLabel : Works(p, j) /\ Works(q, j) => p = q
  PROVE  FrameInv'
<1> DEFINE j == task[p].job
<1>1. /\ TypeInv' /\ Goes(p) /\ task[p].at \notin {"off", "claimed", "requeue", "ghost"}
      /\ task'[p].at # "start"
      /\ \/ Begin(p) \/ TakeSlot(p) \/ Label(p) \/ Save(p)
         \/ task'[p].at \notin {"wait", "label"} /\ UNCHANGED <<labelled, history>>
  BY RunStep DEF RunFacts
<1>2. /\ \A q \in Proc : q # p => task'[q] = task[q]
      /\ task'[p].at \notin {"claimed", "start"}
  BY <1>1 DEF Goes
<1>3. RowsGo BY <1>1, GoesRows
<1>4. CASE task'[p].at \notin {"wait", "label"} /\ UNCHANGED <<labelled, history>>
  BY <1>1, <1>2, <1>3, <1>4, FrameQuiet
<1>5. /\ task \in [Proc -> TaskType] /\ task[p] \in TaskType /\ j \in Job
      /\ labelled \in [AutoLabel -> Nat] /\ task[p].next \in Nat
  BY <1>1, StageFacts DEF TypeInv, TypeOK
<1>6. CASE Begin(p)
  <2> DEFINE told == row[j].resume
             new == [task[p] EXCEPT !.at = "wait", !.told = told]
  <2>1. /\ task[p].at = "start" /\ j \in AutoLabel /\ Bump(j, "running", row[j].why)
        /\ UNCHANGED <<labelled, history>> /\ task' = [task EXCEPT ![p] = new]
    BY <1>6 DEF Begin
  <2>2. new.at = "wait" /\ new.job = j /\ new.told = row[j].resume BY <1>5 DEF TaskType
  <2> HIDE DEF new
  <2>3. task'[p] = new BY <1>5, <2>1
  <2>4. row'[j].status = "running"
    <3>1. row[j].why \in Why BY <1>5, StageFacts, <2>1 DEF RowType
    <3>2. row \in [Job -> RowType] BY StageFacts
    <3> QED BY <1>5, <2>1, <3>1, <3>2, BumpFacts DEF Status
  <2>5. Resumes(j) BY <1>5, <2>1 DEF FrameInv
  <2>6. (\A k \in AutoLabel : row[k].status \in {"absent", "pending"} => Resumes(k))'
        /\ \A k \in Job : (Resumes(k) => Resumes(k)') /\ (Begun(k) => Begun(k)')
    BY <1>3, <2>1, RowsGoMeans
  <2>7. ASSUME NEW q \in Proc, NEW k \in Job, task'[q].job = k
        PROVE  /\ task'[q].at \in {"claimed", "start"} /\ k \in AutoLabel => Resumes(k)'
               /\ task'[q].at = "wait" => (task'[q].told \/ labelled'[k] = 0) /\ Begun(k)'
               /\ task'[q].at = "label" => labelled'[k] < task'[q].next /\ Begun(k)'
    <3>1. CASE q = p
      <4>1. Begun(k)' BY <2>2, <2>3, <2>4, <2>7, <3>1 DEF Begun
      <4>2. task'[q].told \/ labelled'[k] = 0 BY <2>1, <2>2, <2>3, <2>5, <2>7, <3>1 DEF Resumes
      <4> QED BY <2>2, <2>3, <3>1, <4>1, <4>2
    <3>2. CASE q # p BY <1>2, <2>1, <2>6, <2>7, <3>2 DEF FrameInv
    <3> QED BY <3>1, <3>2
  <2> QED BY <2>1, <2>6, <2>7 DEF FrameInv
<1>7. CASE TakeSlot(p)
  <2> DEFINE first == IF task[p].told THEN labelled[j] + 1 ELSE 1
             new == [task[p] EXCEPT !.at = "label", !.next = first]
  <2>1. task[p].at = "wait" /\ j \in AutoLabel /\ UNCHANGED <<row, labelled, history>>
    BY <1>7, StageFacts DEF TakeSlot
  <2>2. labelled[j] < first /\ Begun(j) BY <1>5, <2>1 DEF FrameInv
  <2>3. CASE At(p, "failing")
    <3>1. task'[p].at = "failing" BY <1>5, <2>3, AtFacts DEF Stage
    <3> QED BY <1>1, <1>2, <1>3, <2>1, <3>1, FrameQuiet
  <2>4. CASE ~At(p, "failing")
    <3>1. task' = [task EXCEPT ![p] = new] BY <1>7, <2>4 DEF TakeSlot
    <3> HIDE DEF first
    <3>2. new.at = "label" /\ new.job = j /\ new.next = first BY <1>5 DEF TaskType
    <3> HIDE DEF new
    <3>3. task'[p] = new BY <1>5, <3>1
    <3>4. (\A k \in AutoLabel : row[k].status \in {"absent", "pending"} => Resumes(k))'
          /\ \A k \in Job : (Resumes(k) => Resumes(k)') /\ (Begun(k) => Begun(k)')
      BY <1>3, <2>1, RowsGoMeans
    <3>5. ASSUME NEW q \in Proc, NEW k \in Job, task'[q].job = k
          PROVE  /\ task'[q].at \in {"claimed", "start"} /\ k \in AutoLabel => Resumes(k)'
                 /\ task'[q].at = "wait" => (task'[q].told \/ labelled'[k] = 0) /\ Begun(k)'
                 /\ task'[q].at = "label" => labelled'[k] < task'[q].next /\ Begun(k)'
      <4>1. CASE q = p BY <2>1, <2>2, <3>2, <3>3, <3>4, <3>5, <4>1
      <4>2. CASE q # p BY <1>2, <2>1, <3>4, <3>5, <4>2 DEF FrameInv
      <4> QED BY <4>1, <4>2
    <3> QED BY <2>1, <3>4, <3>5 DEF FrameInv
  <2> QED BY <2>3, <2>4
<1>8. CASE Label(p)
  <2> DEFINE f == task[p].next
  <2>1. task[p].at = "label" /\ j \in AutoLabel BY <1>8, StageFacts DEF Label
  <2>2. labelled[j] < f BY <1>5, <2>1 DEF FrameInv
  <2>3. history'.twice = {}
    <3>1. ~(f <= labelled[j]) BY <1>5, <2>1, <2>2
    <3>2. history' = [history EXCEPT !.twice = history.twice] BY <1>8, <3>1 DEF Label
    <3> QED BY <3>2 DEF FrameInv, TypeInv, TypeOK
  <2>4. /\ \A k \in AutoLabel : k # j => labelled'[k] = labelled[k]
        /\ labelled'[j] \in {labelled[j], f}
    <3>1. PICK now \in Commits :
            labelled' = [labelled EXCEPT ![j] = IF now /\ f > labelled[j] THEN f ELSE labelled[j]]
      BY <1>8 DEF Label
    <3> QED BY <1>5, <2>1, <3>1
  <2>5. CASE Leave(p) BY <1>1, <1>5, <2>1, <2>3, <2>4, <2>5, FrameLabels, LeaveFacts
  <2>6. CASE task' = [task EXCEPT ![p].next = f + 1]
    <3> DEFINE next == f + 1
               new == [task[p] EXCEPT !.next = next]
    <3>1. labelled'[j] < next BY <1>5, <2>1, <2>2, <2>4
    <3>2. task' = [task EXCEPT ![p] = new] BY <2>6
    <3> HIDE DEF next
    <3>3. new.at = "label" /\ new.job = j /\ new.next = next BY <1>5, <2>1 DEF TaskType
    <3> HIDE DEF new
    <3>4. task'[p] = new BY <1>5, <3>2
    <3> QED BY <1>1, <2>1, <2>3, <2>4, <3>1, <3>3, <3>4, FrameLabels
  <2> QED BY <1>8, <2>5, <2>6 DEF Label
<1>9. CASE Save(p)
  <2>1. /\ task[p].at = "label" /\ j \in AutoLabel /\ At(p, "saved") /\ UNCHANGED history
        /\ labelled' = [labelled EXCEPT ![j] = Frames]
    BY <1>9, StageFacts DEF Save
  <2>2. task'[p].at = "saved" BY <1>5, <2>1, AtFacts DEF Stage
  <2>3. \A k \in AutoLabel : k # j => labelled'[k] = labelled[k] BY <1>5, <2>1
  <2>4. history'.twice = {} BY <2>1 DEF FrameInv
  <2> QED BY <1>1, <2>1, <2>2, <2>3, <2>4, FrameLabels
<1> QED BY <1>1, <1>4, <1>6, <1>7, <1>8, <1>9

\* The rows in a step of the pages, the sweep, time and the other users of the card.
LEMMA ApiRows ==
  ASSUME TypeInv,
         \/ \E j \in Train : Enqueue(j)
         \/ \E j \in Job : CancelRead(j) \/ CancelWrite(j) \/ Age(j)
         \/ Sweep \/ OtherTakesSlot \/ OtherFreesSlot
  PROVE  \A k \in Job :
           /\ row'[k].resume = row[k].resume /\ (row[k].asked => row'[k].asked)
           /\ k \in AutoLabel => row'[k].status \in {row[k].status, "canceled", "error"}
           /\ k \in Train => \/ row'[k].status \in {row[k].status, "canceled"}
                             \/ row[k].status = "absent" /\ row'[k].status = "pending"
           /\ ~(\E j \in Job : Age(j)) => row'[k].fresh \in {row[k].fresh, TRUE}
<1>0. row \in [Job -> RowType] /\ AutoLabel \cap Train = {} /\ Train \subseteq Job /\ AutoLabel \subseteq Job
      /\ reaping \subseteq AutoLabel
  BY ShapeAssumption DEF TypeInv, TypeOK, RowType, Job
<1> DEFINE Facts(k) ==
             /\ row'[k].resume = row[k].resume /\ (row[k].asked => row'[k].asked)
             /\ k \in AutoLabel => row'[k].status \in {row[k].status, "canceled", "error"}
             /\ k \in Train => \/ row'[k].status \in {row[k].status, "canceled"}
                               \/ row[k].status = "absent" /\ row'[k].status = "pending"
             /\ ~(\E j \in Job : Age(j)) => row'[k].fresh \in {row[k].fresh, TRUE}
<1>1. ASSUME UNCHANGED row PROVE \A k \in Job : Facts(k) BY <1>0, <1>1
<1>2. ASSUME NEW j \in Train, Enqueue(j) PROVE \A k \in Job : Facts(k)
  <2>1. Bump(j, "pending", "") /\ j \in Job /\ row[j].status = "absent" BY <1>0, <1>2 DEF Enqueue
  <2> QED BY <1>0, <2>1, BumpFacts DEF Status, Why
<1>3. ASSUME NEW j \in Job, CancelWrite(j) PROVE \A k \in Job : Facts(k)
  <2>1. CASE j \in AutoLabel \/ asking[j] = "pending"
    <3> DEFINE why == IF j \in AutoLabel THEN "canceled" ELSE ""
    <3>1. why \in Why /\ "canceled" \in Status BY DEF Why, Status
    <3>2. Bump(j, "canceled", why) BY <1>3, <2>1 DEF CancelWrite, Bump
    <3> HIDE DEF why
    <3> QED BY <1>0, <3>1, <3>2, BumpFacts
  <2>2. CASE ~(j \in AutoLabel \/ asking[j] = "pending")
    <3> DEFINE r == [row[j] EXCEPT !.asked = TRUE, !.fresh = TRUE]
    <3>1. row' = [row EXCEPT ![j] = r] BY <1>3, <2>2 DEF CancelWrite, Bump
    <3>2. r.status = row[j].status /\ r.resume = row[j].resume /\ r.asked = TRUE /\ r.fresh = TRUE
      BY <1>0 DEF RowType
    <3> HIDE DEF r
    <3> QED BY <1>0, <3>1, <3>2
  <2> QED BY <2>1, <2>2
<1>4. ASSUME NEW j \in Job, Age(j) PROVE \A k \in Job : Facts(k)
  <2> DEFINE r == [row[j] EXCEPT !.fresh = FALSE]
  <2>1. row' = [row EXCEPT ![j] = r] BY <1>4 DEF Age
  <2>2. r.status = row[j].status /\ r.resume = row[j].resume /\ r.asked = row[j].asked
    BY <1>0 DEF RowType
  <2> HIDE DEF r
  <2> QED BY <1>0, <1>4, <2>1, <2>2
<1>5. ASSUME ReapWrite PROVE \A k \in Job : Facts(k)
  <2> DEFINE r(k) == [row[k] EXCEPT !.status = "error", !.fresh = TRUE,
                                    !.why = IF @ = "" THEN "interrupted" ELSE @]
  <2>1. row' = [k \in Job |-> IF k \in reaping THEN r(k) ELSE row[k]] BY <1>5 DEF ReapWrite
  <2>2. ASSUME NEW k \in Job
        PROVE  /\ r(k).status = "error" /\ r(k).resume = row[k].resume
               /\ r(k).asked = row[k].asked /\ r(k).fresh = TRUE
    <3> DEFINE why == IF row[k].why = "" THEN "interrupted" ELSE row[k].why
    <3>1. r(k) = [row[k] EXCEPT !.status = "error", !.fresh = TRUE, !.why = why] OBVIOUS
    <3> HIDE DEF why, r
    <3> QED BY <1>0, <3>1 DEF RowType
  <2> HIDE DEF r
  <2> QED BY <1>0, <2>1, <2>2
<1>6. UNCHANGED row \/ (\E j \in Train : Enqueue(j)) \/ (\E j \in Job : CancelWrite(j) \/ Age(j))
      \/ ReapWrite
  BY DEF CancelRead, Sweep, ReapRead, OtherTakesSlot, OtherFreesSlot
<1> HIDE DEF Facts
<1>7. \A k \in Job : Facts(k) BY <1>1, <1>2, <1>3, <1>4, <1>5, <1>6
<1> QED BY <1>7 DEF Facts

LEMMA FrameStep ==
  (MaxLosses = 0 => LockHeld) /\ (MaxLosses = 0 \/ Executor = "api")
  /\ TypeInv /\ HostInv /\ FrameInv /\ [Next]_vars => FrameInv'
<1> SUFFICES ASSUME MaxLosses = 0 => LockHeld, MaxLosses = 0 \/ Executor = "api",
                    TypeInv, HostInv, FrameInv, [Next]_vars
             PROVE  FrameInv'
  OBVIOUS
<1>0. /\ TypeInv' /\ row \in [Job -> RowType] /\ history.twice = {}
      /\ orphans \in [Worker -> SUBSET AutoLabel] /\ Worker \subseteq Proc /\ AutoLabel \subseteq Job
  BY TypeStep DEF FrameInv, TypeInv, TypeOK, RowType, Proc, Job
<1>1. \A p, q \in Proc, j \in AutoLabel : Works(p, j) /\ Works(q, j) => p = q
  BY <1>0, OneRunner
<1>2. ASSUME UNCHANGED <<row, labelled>>, history'.twice = history.twice,
             \A p \in Proc : task'[p] = task[p] \/ task'[p].at \notin {"claimed", "start", "wait", "label"}
      PROVE  FrameInv'
  <2>1. RowsGo BY <1>2 DEF RowsGo
  <2> QED BY <1>0, <1>2, <2>1, FrameQuiet
<1>3. CASE UNCHANGED vars BY <1>2, <1>3 DEF vars
<1>4. ASSUME \/ \E j \in Train : Enqueue(j)
             \/ \E j \in Job : CancelRead(j) \/ CancelWrite(j) \/ Age(j)
             \/ Sweep \/ OtherTakesSlot \/ OtherFreesSlot
      PROVE  FrameInv'
  <2>1. RowsGo BY <1>4, ApiRows DEF RowsGo, Job
  <2>2. UNCHANGED <<task, labelled>> BY <1>4, ApiType
  <2>3. history'.twice = history.twice
    <3>1. CASE ReapWrite BY <3>1 DEF ReapWrite, TypeInv, TypeOK
    <3>2. CASE ~ReapWrite
      BY <1>4, <3>2 DEF Enqueue, CancelRead, CancelWrite, Age, Sweep, ReapRead, OtherTakesSlot,
                        OtherFreesSlot
    <3> QED BY <3>1, <3>2
  <2> QED BY <1>0, <2>1, <2>2, <2>3, FrameQuiet
<1>5. ASSUME NEW j \in AutoLabel, Start(j) PROVE FrameInv'
  <2>1. UNCHANGED <<labelled, history>> BY <1>5 DEF Start
  <2>2. RowsGo BY <1>5, StartStep DEF RowsGo
  <2>3. \A p \in Proc : \/ task'[p] = task[p]
                        \/ /\ task'[p].at = "start" /\ task'[p].job = j
                           /\ row[j].status = "absent"
    BY <1>5, StartStep
  <2> QED BY <1>0, <1>5, <2>1, <2>2, <2>3, FrameQuiet
<1>6. CASE ApiDies
  <2>1. UNCHANGED <<row, labelled>> BY <1>6 DEF ApiDies
  <2> QED BY <1>2, <1>6, <2>1, ApiDiesStep
<1>7. CASE LoseConnections
  <2>1. UNCHANGED <<row, labelled>> BY <1>7 DEF LoseConnections
  <2> QED BY <1>2, <1>7, <2>1, LoseStep
<1>8. ASSUME NEW p \in Proc, Run(p) PROVE FrameInv' BY <1>1, <1>8, FrameRun
<1>9. ASSUME NEW p \in Proc, Raise(p) PROVE FrameInv'
  BY <1>2, <1>9, RaiseStep DEF Goes
<1>10. ASSUME NEW w \in Worker, Boot(w) \/ RequeueOrphans(w) \/ ResetTraining(w) PROVE FrameInv'
  <2>1. UNCHANGED <<task, labelled, history>> BY <1>10, BootStep
  <2>2. RowsGo
    <3>1. CASE Boot(w) BY <3>1 DEF Boot, RowsGo
    <3>2. CASE RequeueOrphans(w)
      <4>1. row' = [j \in Job |-> IF j \in orphans[w] THEN Requeued(row[j]) ELSE row[j]]
        BY <3>2 DEF RequeueOrphans
      <4>2. \A k \in Job : row[k] \in RowType BY <1>0
      <4>3. ASSUME NEW k \in Job
            PROVE  /\ row[k].resume => row'[k].resume
                   /\ row'[k].status \in {"absent", "pending"} =>
                        row[k].status \in {"absent", "pending"} \/ row'[k].resume
        BY <4>1, <4>2, RequeuedFacts
      <4> QED BY <4>3 DEF RowsGo
    <3>3. CASE ResetTraining(w)
      <4>1. TrainingReset BY <3>3 DEF ResetTraining
      <4>2. \A k \in Job : row'[k] = row[k] \/ row'[k].resume BY <1>0, <4>1, ResetFacts DEF Job
      <4> QED BY <4>2 DEF RowsGo
    <3> QED BY <1>10, <3>1, <3>2, <3>3
  <2> QED BY <1>0, <2>1, <2>2, FrameQuiet
<1>11. ASSUME NEW w \in Worker, Claim(w) PROVE FrameInv'
  <2>1. RowsGo BY <1>11, ClaimStep DEF RowsGo
  <2>2. \A p \in Proc : \/ task'[p] = task[p]
                        \/ /\ task'[p].at = "claimed" /\ task'[p].job \in Job
                           /\ row[task'[p].job].status = "pending"
    <3>1. PICK j \in Job : /\ row[j].status = "pending" /\ task'[w].at = "claimed"
                           /\ task'[w].job = j /\ \A q \in Proc : q # w => task'[q] = task[q]
      BY <1>11, ClaimStep
    <3> QED BY <3>1
  <2>3. UNCHANGED <<labelled, history>> BY <1>11 DEF Claim
  <2> QED BY <1>0, <2>1, <2>2, <2>3, FrameQuiet
<1>12. ASSUME NEW w \in Worker, Launch(w) PROVE FrameInv'
  <2>1. RowsGo BY <1>0, <1>12, LaunchStep, GoesRows
  <2> QED BY <1>0, <1>12, <2>1, LaunchStep, FrameQuiet DEF Goes
<1>13. ASSUME NEW w \in Worker, Stop(w) \/ ThreadEnds(w) \/ Crash(w) \/ PoisonCrash(w) \/ ExitUnlocked(w)
       PROVE  FrameInv'
  BY <1>2, <1>13, WorkerEndsStep
<1>14. ASSUME NEW w \in Worker, StopAutolabel(w) \/ RequeueInterrupted(w) PROVE FrameInv'
  <2>1. RowsGo BY <1>14, StopAutolabelStep DEF RowsGo
  <2> QED BY <1>0, <1>14, <2>1, StopAutolabelStep, FrameQuiet
<1>15. ASSUME NEW w \in Worker, StopTraining(w) PROVE FrameInv'
  <2>1. \A k \in Job : row'[k] = row[k] \/ row'[k].resume
    BY <1>0, <1>15, StopTrainingStep, ResetFacts DEF Job
  <2>2. RowsGo BY <2>1 DEF RowsGo
  <2> QED BY <1>0, <1>15, <2>2, StopTrainingStep, FrameQuiet
<1> QED BY <1>3, <1>4, <1>5, <1>6, <1>7, <1>8, <1>9, <1>10, <1>11, <1>12, <1>13, <1>14, <1>15
        DEF Next, Serve

\* No frame whose labels are committed is labelled by the same job again, through any crashes,
\* stops and requeues, for any jobs and frames, whether labels are committed frame by frame or
\* in batches: in in-process mode always, in worker mode while the worker's lock is not lost.
THEOREM FrameOnceAlways ==
  MaxLosses = 0 \/ Executor = "api" => (Spec => []FrameOnce)
<1> DEFINE Inv == TypeInv /\ HostInv /\ (MaxLosses = 0 => LockHeld) /\ FrameInv
<1> SUFFICES ASSUME MaxLosses = 0 \/ Executor = "api" PROVE Spec => []FrameOnce OBVIOUS
<1>1. Init => Inv BY InitType, InitHost, InitFrame
<1>2. Inv /\ [Next]_vars => Inv' BY TypeStep, HostStep, LockStep, FrameStep
<1>3. Inv => FrameOnce BY DEF FrameInv, FrameOnce
<1> HIDE DEF Inv
<1> QED BY <1>1, <1>2, <1>3, PTL DEF Spec

-------------------------------------------------------------------------------
(* The sweep.  Only in-process mode has one; there the row of an auto-label *)
(* job with a task is fresh, and what the sweep has read has no task and    *)
(* gets none, for a job is started once.                                    *)

SweepInv ==
  /\ history.slain = {}
  /\ reaping # {} => Executor = "api"
  /\ \A j \in reaping : row[j].status # "absent" /\ ~Live(j)
  /\ Executor = "api" => \A j \in AutoLabel : Live(j) => row[j].fresh

\* Rows are refreshed and stay submitted; no task begins an auto-label job.
RowsKeep == \A k \in Job : /\ row'[k].fresh \in {row[k].fresh, TRUE}
                           /\ row[k].status # "absent" => row'[k].status # "absent"
TasksKeep == \A p \in Proc, j \in AutoLabel :
  task'[p].at \notin {"off", "ghost"} /\ task'[p].job = j =>
    task[p].at \notin {"off", "ghost"} /\ task[p].job = j

LEMMA SweepQuiet ==
  ASSUME TypeInv, SweepInv, RowsKeep, Executor = "api" => TasksKeep,
         reaping' \subseteq reaping, history'.slain = history.slain
  PROVE  SweepInv'
<1>1. reaping \subseteq AutoLabel /\ AutoLabel \subseteq Job BY DEF TypeInv, TypeOK, Job
<1>2. Executor = "api" => \A j \in AutoLabel : Live(j)' => Live(j)
  BY DEF TasksKeep, Live, Works
<1>3. (reaping # {} => Executor = "api")' BY DEF SweepInv
<1>4. \A j \in reaping' : row'[j].status # "absent" /\ ~Live(j)'
  BY <1>1, <1>2, <1>3 DEF SweepInv, RowsKeep
<1>5. Executor = "api" => \A j \in AutoLabel : Live(j)' => row'[j].fresh
  BY <1>1, <1>2 DEF SweepInv, RowsKeep
<1> QED BY <1>3, <1>4, <1>5 DEF SweepInv

LEMMA InitSweep == Init => SweepInv
<1> SUFFICES ASSUME Init PROVE SweepInv OBVIOUS
<1>1. \A p \in Proc : task[p].at = "off"
  <2>1. NoTask.at = "off" BY DEF NoTask
  <2>2. \A p \in Proc : task[p] = NoTask BY DEF Init
  <2> QED BY <2>1, <2>2
<1> QED BY <1>1 DEF Init, SweepInv, Live, Works

\* A task that goes on with its job, or leaves it, keeps rows and tasks as the sweep needs.
LEMMA GoesKeeps ==
  ASSUME TypeInv, NEW p \in Proc, Goes(p), task[p].at \notin {"off", "ghost"}
  PROVE  RowsKeep /\ TasksKeep
<1>1. task[p].job \in Job BY StageFacts
<1> QED BY <1>1 DEF Goes, RowsKeep, TasksKeep, Terminal

LEMMA SweepStep ==
  ~LongWaits /\ TypeInv /\ SweepInv /\ [Next]_vars => SweepInv'
<1> SUFFICES ASSUME ~LongWaits, TypeInv, SweepInv, [Next]_vars PROVE SweepInv'
  OBVIOUS
<1>0. /\ row \in [Job -> RowType] /\ history \in HistoryType
      /\ orphans \in [Worker -> SUBSET AutoLabel] /\ Worker \subseteq Proc
      /\ AutoLabel \subseteq Job /\ AutoLabel \subseteq Proc /\ reaping \subseteq AutoLabel
      /\ AutoLabel \cap Train = {}
  BY ShapeAssumption DEF TypeInv, TypeOK, RowType, HistoryType, Proc, Job
<1>1. ASSUME UNCHANGED row, reaping' \subseteq reaping, history'.slain = history.slain,
             \A p \in Proc : \/ task'[p] = task[p] \/ task'[p].at \in {"off", "ghost"}
                             \/ /\ task'[p].job = task[p].job /\ task[p].at \notin {"off", "ghost"}
      PROVE  SweepInv'
  <2>1. RowsKeep /\ TasksKeep BY <1>1 DEF RowsKeep, TasksKeep
  <2> QED BY <1>1, <2>1, SweepQuiet
<1>2. CASE UNCHANGED vars BY <1>1, <1>2 DEF vars
<1>3. ASSUME NEW p \in Proc, Run(p) PROVE SweepInv'
  <2>1. /\ Goes(p) /\ task[p].at \notin {"off", "ghost"} /\ UNCHANGED reaping
    BY <1>3, RunStep DEF RunFacts
  <2>2. history'.slain = history.slain
    BY <1>0, <1>3 DEF Run, Begin, TakeSlot, Label, Save, Finish, RecordFailure, BeginTrain,
                      AskCanceled, Epoch, EndTrain, Score, HistoryType
  <2> QED BY <2>1, <2>2, GoesKeeps, SweepQuiet
<1>4. ASSUME NEW p \in Proc, Raise(p) PROVE SweepInv'
  BY <1>4, RaiseStep, GoesKeeps, SweepQuiet
<1>5. ASSUME NEW w \in Worker, Launch(w) PROVE SweepInv'
  <2>1. w \in Proc BY <1>0
  <2> QED BY <1>5, <2>1, LaunchStep, GoesKeeps, SweepQuiet
<1>6. ASSUME NEW w \in Worker, Claim(w) PROVE SweepInv'
  <2>1. PICK j \in Job :
          /\ row[j].status = "pending" /\ row'[j].status = "running"
          /\ row'[j].fresh = TRUE /\ (j \in AutoLabel => Executor = "worker")
          /\ \A k \in Job : k # j => row'[k] = row[k]
          /\ task'[w].job = j /\ \A q \in Proc : q # w => task'[q] = task[q]
    BY <1>6, ClaimStep
  <2>2. RowsKeep BY <2>1 DEF RowsKeep
  <2>3. Executor = "api" => TasksKeep BY <2>1 DEF TasksKeep
  <2> QED BY <1>6, <2>2, <2>3, ClaimStep, SweepQuiet
<1>7. ASSUME NEW w \in Worker, Boot(w) \/ RequeueOrphans(w) \/ ResetTraining(w) PROVE SweepInv'
  <2>1. UNCHANGED <<task, reaping, history>> BY <1>7, BootStep
  <2>2. RowsKeep
    <3>1. CASE Boot(w) BY <3>1 DEF Boot, RowsKeep
    <3>2. CASE RequeueOrphans(w)
      <4>1. row' = [j \in Job |-> IF j \in orphans[w] THEN Requeued(row[j]) ELSE row[j]]
        BY <3>2 DEF RequeueOrphans
      <4>2. \A k \in Job : row[k] \in RowType BY <1>0
      <4>3. ASSUME NEW k \in Job
            PROVE  /\ row'[k].fresh \in {row[k].fresh, TRUE}
                   /\ row[k].status # "absent" => row'[k].status # "absent"
        BY <4>1, <4>2, RequeuedFacts
      <4> QED BY <4>3 DEF RowsKeep
    <3>3. CASE ResetTraining(w) BY <1>0, <3>3, ResetFacts DEF ResetTraining, RowsKeep
    <3> QED BY <1>7, <3>1, <3>2, <3>3
  <2>3. TasksKeep BY <2>1 DEF TasksKeep
  <2> QED BY <2>1, <2>2, <2>3, SweepQuiet
<1>8. ASSUME NEW w \in Worker, Stop(w) \/ ThreadEnds(w) \/ Crash(w) \/ PoisonCrash(w) \/ ExitUnlocked(w)
      PROVE  SweepInv'
  BY <1>1, <1>8, WorkerEndsStep
<1>9. ASSUME NEW w \in Worker, StopAutolabel(w) \/ RequeueInterrupted(w) PROVE SweepInv'
  <2>1. RowsKeep BY <1>9, StopAutolabelStep DEF RowsKeep
  <2>2. TasksKeep BY <1>9, StopAutolabelStep DEF TasksKeep
  <2> QED BY <1>9, <2>1, <2>2, StopAutolabelStep, SweepQuiet
<1>10. ASSUME NEW w \in Worker, StopTraining(w) PROVE SweepInv'
  <2>1. RowsKeep BY <1>0, <1>10, StopTrainingStep, ResetFacts DEF RowsKeep
  <2>2. TasksKeep BY <1>10, StopTrainingStep DEF TasksKeep
  <2> QED BY <1>10, <2>1, <2>2, StopTrainingStep, SweepQuiet
<1>11. CASE ApiDies
  <2>1. UNCHANGED row /\ reaping' = {} BY <1>11 DEF ApiDies
  <2> QED BY <1>1, <1>11, <2>1, ApiDiesStep
<1>12. CASE LoseConnections
  <2>1. UNCHANGED <<row, reaping>> BY <1>12 DEF LoseConnections
  <2> QED BY <1>1, <1>12, <2>1, LoseStep
<1>13. ASSUME NEW j \in AutoLabel, Start(j) PROVE SweepInv'
  <2>1. /\ j \in Job /\ row[j].status = "absent" /\ row'[j].fresh = TRUE
        /\ \A k \in Job : k # j => row'[k] = row[k]
        /\ row'[j].status = "pending"
    BY <1>13, StartStep
  <2>2. \A p \in Proc : task'[p] = task[p] \/ task'[p].job = j BY <1>13, StartStep
  <2>3. \A k \in AutoLabel : k # j /\ Live(k)' => Live(k) BY <2>2 DEF Live, Works
  <2>4. j \notin reaping BY <2>1 DEF SweepInv
  <2>5. UNCHANGED <<reaping, history>> BY <1>13 DEF Start
  <2> QED BY <1>0, <2>1, <2>3, <2>4, <2>5 DEF SweepInv
<1>14. ASSUME NEW j \in Job, Age(j) PROVE SweepInv'
  <2>1. UNCHANGED <<task, reaping, history>> BY <1>14 DEF Age
  <2>2. ~Live(j) BY <1>14 DEF Age, Live
  <2>3. \A k \in Job : k # j => row'[k] = row[k] BY <1>0, <1>14 DEF Age
  <2>4. row'[j].status = row[j].status
    <3>1. row' = [row EXCEPT ![j] = [row[j] EXCEPT !.fresh = FALSE]] BY <1>14 DEF Age
    <3>2. [row[j] EXCEPT !.fresh = FALSE].status = row[j].status BY <1>0 DEF RowType
    <3> QED BY <1>0, <3>1, <3>2
  <2>5. \A k \in AutoLabel : Live(k)' <=> Live(k) BY <2>1 DEF Live, Works
  <2> QED BY <1>0, <2>1, <2>2, <2>3, <2>4, <2>5 DEF SweepInv
<1>15. CASE ReapRead
  <2>1. /\ UNCHANGED <<row, task, history>> /\ Executor = "api" /\ reaping' = Stale
    BY <1>15 DEF ReapRead
  <2>2. \A k \in AutoLabel : Live(k)' <=> Live(k) BY <2>1 DEF Live, Works
  <2>3. \A j \in reaping' : j \in AutoLabel /\ row[j].status # "absent" /\ ~row[j].fresh
    BY <2>1 DEF Stale
  <2> QED BY <2>1, <2>2, <2>3 DEF SweepInv
<1>16. ASSUME ReapWrite \/ (\E j \in Train : Enqueue(j)) \/ (\E j \in Job : CancelRead(j) \/ CancelWrite(j))
              \/ OtherTakesSlot \/ OtherFreesSlot,
              ~\E j \in Job : Age(j)
       PROVE  SweepInv'
  <2>1. RowsKeep BY <1>0, <1>16, ApiRows DEF RowsKeep, Sweep, Job
  <2>2. TasksKeep
    <3>1. UNCHANGED task BY <1>16, ApiType DEF Sweep
    <3> QED BY <3>1 DEF TasksKeep
  <2>3. reaping' \subseteq reaping
    BY <1>16 DEF ReapWrite, Enqueue, CancelRead, CancelWrite, OtherTakesSlot, OtherFreesSlot
  <2>4. history'.slain = history.slain
    <3>1. CASE ReapWrite
      <4> DEFINE live == {j \in reaping : Live(j)}
      <4>1. history' = [history EXCEPT !.slain = history.slain \cup live] BY <3>1 DEF ReapWrite
      <4>2. live = {} BY DEF SweepInv
      <4> HIDE DEF live
      <4> QED BY <1>0, <4>1, <4>2 DEF HistoryType
    <3>2. CASE ~ReapWrite
      BY <1>16, <3>2 DEF Enqueue, CancelRead, CancelWrite, OtherTakesSlot, OtherFreesSlot
    <3> QED BY <3>1, <3>2
  <2> QED BY <2>1, <2>2, <2>3, <2>4, SweepQuiet
<1> QED BY <1>2, <1>3, <1>4, <1>5, <1>6, <1>7, <1>8, <1>9, <1>10, <1>11, <1>12, <1>13, <1>14, <1>15,
           <1>16 DEF Next, Serve, Sweep

\* The sweep fails only rows whose process is gone, through any crash, restart, cancel and lost
\* connection, whoever runs the jobs, as long as a wait for the card ends inside the window
\* after which a row counts as stale.
THEOREM ReapsOnlyDeadAlways == ~LongWaits => (Spec => []ReapsOnlyDead)
<1> DEFINE Inv == TypeInv /\ SweepInv
<1> SUFFICES ASSUME ~LongWaits PROVE Spec => []ReapsOnlyDead OBVIOUS
<1>1. Init => Inv BY InitType, InitSweep
<1>2. Inv /\ [Next]_vars => Inv' BY TypeStep, SweepStep
<1>3. Inv => ReapsOnlyDead BY DEF SweepInv, ReapsOnlyDead
<1> HIDE DEF Inv
<1> QED BY <1>1, <1>2, <1>3, PTL DEF Spec

-------------------------------------------------------------------------------
(* Cancelling a training job whose process is gone.  Such a job is doomed:  *)
(* its row keeps the request, and a process that takes it up asks before    *)
(* the first epoch.                                                         *)

Doomed(j) == /\ row[j].asked /\ row[j].status # "done"
             /\ \A p \in Proc : Works(p, j) => task[p].at \in {"claimed", "start", "ask"}

LEMMA DoomedStep == ASSUME NEW j \in Train PROVE TypeInv /\ Doomed(j) /\ [Next]_vars => Doomed(j)'
<1> SUFFICES ASSUME TypeInv, Doomed(j), [Next]_vars PROVE Doomed(j)' OBVIOUS
<1>0. /\ row \in [Job -> RowType] /\ j \in Job /\ j \notin AutoLabel /\ Worker \subseteq Proc
      /\ orphans \in [Worker -> SUBSET AutoLabel] /\ j # NoJob
  BY ShapeAssumption DEF TypeInv, TypeOK, RowType, Proc, Job
<1>1. ASSUME row'[j].asked = TRUE, row'[j].status # "done",
             \A p \in Proc : \/ task'[p] = task[p] \/ task'[p].at \in {"off", "ghost", "claimed", "start", "ask"}
                             \/ task'[p].job # j
      PROVE  Doomed(j)'
  BY <1>1 DEF Doomed, Works
<1>2. row[j].asked = TRUE /\ row[j].status # "done" BY <1>0 DEF Doomed, RowType
<1>3. CASE UNCHANGED vars BY <1>1, <1>2, <1>3 DEF vars
<1>4. ASSUME NEW p \in Proc, Goes(p), task[p].at \notin {"off", "ghost"},
             task[p].job = j => task'[p].at \in {"off", "claimed", "start", "ask"} /\ row'[j].status # "done"
      PROVE  Doomed(j)'
  <2>1. row'[j].asked = TRUE BY <1>0, <1>2, <1>4 DEF Goes
  <2>2. row'[j].status # "done" BY <1>0, <1>2, <1>4 DEF Goes
  <2>3. \A q \in Proc : \/ task'[q] = task[q]
                        \/ task'[q].at \in {"off", "ghost", "claimed", "start", "ask"}
                        \/ task'[q].job # j
    BY <1>4 DEF Goes
  <2> QED BY <1>1, <2>1, <2>2, <2>3
<1>5. \A p \in Proc : task[p].job = j =>
        task[p].at \in {"off", "ghost", "claimed", "start", "ask"}
  BY DEF Doomed, Works
<1>6. ASSUME NEW p \in Proc, Run(p) PROVE Doomed(j)'
  <2>1. /\ Goes(p) /\ task[p].at \notin {"off", "claimed", "ghost"}
        /\ task[p].at = "start" /\ task[p].job \in Train => task'[p].at = "ask"
        /\ task[p].at = "ask" /\ row[task[p].job].asked => task'[p].at = "off"
        /\ row'[task[p].job].status = "done" =>
             row[task[p].job].status = "done" \/ task[p].at \in {"saved", "score"}
    BY <1>6, RunStep DEF RunFacts
  <2>2. task[p].job = j => task'[p].at \in {"off", "ask"} /\ row'[j].status # "done"
    BY <1>2, <1>5, <2>1
  <2> QED BY <1>4, <2>1, <2>2
<1>7. ASSUME NEW p \in Proc, Raise(p) PROVE Doomed(j)'
  <2>1. Goes(p) /\ task[p].at \in {"label", "train", "score"} BY <1>7, RaiseStep
  <2>2. task[p].job # j BY <1>5, <2>1
  <2> QED BY <1>4, <2>1, <2>2
<1>8. ASSUME NEW w \in Worker, Launch(w) PROVE Doomed(j)'
  <2>1. /\ w \in Proc /\ Goes(w) /\ task[w].at = "claimed"
        /\ \/ UNCHANGED row /\ task'[w].at = "start"
           \/ row'[task[w].job].status = "error" /\ task'[w].at = "off"
    BY <1>0, <1>8, LaunchStep
  <2>2. task[w].job = j => task'[w].at \in {"off", "start"} /\ row'[j].status # "done"
    BY <1>2, <2>1
  <2> QED BY <1>4, <2>1, <2>2
<1>9. ASSUME NEW w \in Worker, Claim(w) PROVE Doomed(j)'
  <2>1. PICK k \in Job :
          /\ row'[k].status = "running"
          /\ \A i \in Job : (i # k => row'[i] = row[i]) /\ row'[i].asked = row[i].asked
          /\ task'[w].at = "claimed" /\ \A q \in Proc : q # w => task'[q] = task[q]
    BY <1>9, ClaimStep
  <2>2. row'[j].asked = TRUE /\ row'[j].status # "done" BY <1>0, <1>2, <2>1
  <2> QED BY <1>1, <2>1, <2>2
<1>10. ASSUME NEW w \in Worker, Boot(w) \/ RequeueOrphans(w) \/ ResetTraining(w) PROVE Doomed(j)'
  <2>1. UNCHANGED task /\ row'[j].asked = TRUE BY <1>0, <1>2, <1>10, BootStep
  <2>2. row'[j].status # "done"
    <3>1. CASE Boot(w) BY <1>2, <3>1 DEF Boot
    <3>2. CASE RequeueOrphans(w) BY <1>0, <1>2, <3>2 DEF RequeueOrphans
    <3>3. CASE ResetTraining(w)
      <4>1. row'[j].status = "pending" \/ row'[j] = row[j] BY <1>0, <3>3, ResetFacts DEF ResetTraining
      <4> QED BY <1>2, <4>1
    <3> QED BY <1>10, <3>1, <3>2, <3>3
  <2> QED BY <1>1, <2>1, <2>2
<1>11. ASSUME NEW w \in Worker, Stop(w) \/ ThreadEnds(w) \/ Crash(w) \/ PoisonCrash(w) \/ ExitUnlocked(w)
      PROVE  Doomed(j)'
  <2>1. UNCHANGED row /\ task'[w].at = "off" /\ \A q \in Proc : q # w => task'[q] = task[q]
    BY <1>11, WorkerEndsStep
  <2> QED BY <1>1, <1>2, <2>1
<1>12. ASSUME NEW w \in Worker, StopAutolabel(w) \/ RequeueInterrupted(w) PROVE Doomed(j)'
  <2>1. /\ \A q \in Proc : q # w => task'[q] = task[q]
        /\ (task'[w].at = "off" \/ task'[w].job # j) /\ row'[j] = row[j]
    BY <1>0, <1>12, StopAutolabelStep
  <2> QED BY <1>1, <1>2, <2>1
<1>13. ASSUME NEW w \in Worker, StopTraining(w) PROVE Doomed(j)'
  <2>1. /\ TrainingReset /\ task'[w].at \in {"off", "ghost"}
        /\ \A q \in Proc : q # w => task'[q] = task[q]
    BY <1>13, StopTrainingStep
  <2>2. /\ row'[j].asked = row[j].asked
        /\ row'[j].status = "pending" \/ row'[j] = row[j]
    BY <1>0, <2>1, ResetFacts
  <2> QED BY <1>1, <1>2, <2>1, <2>2
<1>14. CASE ApiDies
  <2>1. UNCHANGED row BY <1>14 DEF ApiDies
  <2>2. \A p \in Proc : task'[p] = task[p] \/ task'[p].at = "off" BY <1>14, ApiDiesStep
  <2> QED BY <1>1, <1>2, <2>1, <2>2
<1>15. CASE LoseConnections
  <2>1. UNCHANGED row BY <1>15 DEF LoseConnections
  <2>2. \A p \in Proc : task'[p] = task[p] \/ task'[p].job # j
    <3> TAKE p \in Proc
    <3>1. CASE task[p].at \in {"wait", "label"} BY <1>5, <1>15, <3>1, LoseStep
    <3>2. CASE task[p].at \notin {"wait", "label"} BY <1>15, <3>2, LoseStep
    <3> QED BY <3>1, <3>2
  <2> QED BY <1>1, <1>2, <2>1, <2>2
<1>16. ASSUME NEW i \in AutoLabel, Start(i) PROVE Doomed(j)'
  <2>1. row'[j] = row[j]
    <3>1. i # j BY <1>0
    <3>2. /\ row'[i].status = "pending"
          /\ \A k \in Job : /\ k # i => row'[k] = row[k]
                            /\ row'[k].resume = row[k].resume /\ row'[k].asked = row[k].asked
      BY <1>16, StartStep
    <3> QED BY <1>0, <3>1, <3>2
  <2>2. \A p \in Proc : task'[p] = task[p] \/ task'[p].at = "start" BY <1>16, StartStep
  <2> QED BY <1>1, <1>2, <2>1, <2>2
<1>17. ASSUME \/ \E i \in Train : Enqueue(i)
              \/ \E i \in Job : CancelRead(i) \/ CancelWrite(i) \/ Age(i)
              \/ Sweep \/ OtherTakesSlot \/ OtherFreesSlot
       PROVE  Doomed(j)'
  <2>1. UNCHANGED task /\ TypeInv' BY <1>17, ApiType
  <2>2. /\ row[j].asked => row'[j].asked
        /\ row'[j].status \in {row[j].status, "canceled", "pending"}
    BY <1>0, <1>17, ApiRows
  <2>3. row'[j].asked \in BOOLEAN BY <1>0, <2>1 DEF TypeInv, TypeOK, RowType
  <2> QED BY <1>1, <1>2, <2>1, <2>2, <2>3
<1> QED BY <1>3, <1>6, <1>7, <1>8, <1>9, <1>10, <1>11, <1>12, <1>13, <1>14, <1>15, <1>16, <1>17
        DEF Next, Serve

\* A training run asked to stop, and then lost in a crash, a restart or a stop, is not finished
\* by whoever picks it up: neither recovery nor a _bump clears the request, and every run asks
\* for it before it trains.
THEOREM CancelSurvivesCrashAlways == Spec => CancelSurvivesCrash
<1>1. ASSUME NEW j \in Train
      PROVE  Spec => [](row[j].asked /\ row[j].status \in {"pending", "running"} /\ ~Live(j)
                          => [](row[j].status # "done"))
  <2> DEFINE A == row[j].asked /\ row[j].status \in {"pending", "running"} /\ ~Live(j)
             B == row[j].status # "done"
             D == Doomed(j)
  <2>1. A => D BY DEF Doomed, Live
  <2>2. TypeInv /\ D /\ [Next]_vars => D' BY DoomedStep
  <2>3. D => B BY DEF Doomed
  <2> HIDE DEF D
  <2>4. Spec => [](A => []B) BY <2>1, <2>2, <2>3, TypeAlways, PTL DEF Spec
  <2> QED BY <2>4
<1> QED BY <1>1 DEF CancelSurvivesCrash

-------------------------------------------------------------------------------
(* The queue.  Where the worker runs every job, keeps its lock and nobody   *)
(* cancels, at most one process works at all, on a row that is running, and *)
(* what recovery has read is running and has no process.                    *)

QueueMode == Executor = "worker" /\ MaxLosses = 0 /\ Cancels = {}

QueueInv ==
  /\ \A p \in Proc, j \in Job : Works(p, j) => row[j].status = "running"
  /\ \A w \in Worker : \A j \in orphans[w] : row[j].status = "running" /\ ~Live(j)
  /\ \A j \in Job : asking[j] = "no"
  /\ reaping = {}

QInv == TypeInv /\ HostInv /\ LockHeld /\ QueueInv

\* The process that works has the lock, and so no other works and no recovery is under way.
LEMMA OnlyWorking ==
  ASSUME QInv, QueueMode, NEW p \in Proc, task[p].at \notin {"off", "ghost"}
  PROVE  /\ p \in Worker /\ worker[p] = "up" /\ lock = p
         /\ Works(p, task[p].job) /\ task[p].job \in Job /\ row[task[p].job].status = "running"
         /\ \A q \in Proc : task[q].at \notin {"off", "ghost"} => q = p
         /\ \A v \in Worker : orphans[v] = {}
<1>1. \A q \in Proc : task[q].at \notin {"off", "ghost"} => q \in Worker /\ worker[q] = "up" /\ lock = q
  BY DEF QInv, HostInv, LockHeld, QueueMode, Proc
<1>2. Works(p, task[p].job) /\ task[p].job \in Job BY StageFacts DEF Works, QInv
<1>3. \A v \in Worker : orphans[v] = {} BY <1>1 DEF QInv, HostInv, LockHeld
<1> QED BY <1>1, <1>2, <1>3 DEF QInv, QueueInv

\* Nobody works while a worker recovers, while none has the lock, or while its owner is idle.
LEMMA NoneWorking ==
  ASSUME QInv, QueueMode, NEW w \in Worker,
         \/ worker[w] \in {"boot", "reset"} \/ lock = Nobody
         \/ lock = w /\ task[w].at = "off"
  PROVE  (\A p \in Proc : task[p].at \in {"off", "ghost"}) /\ \A j \in Job : ~Live(j)
<1>1. \A p \in Proc : task[p].at \in {"off", "ghost"}
  <2>1. Nobody \notin Proc BY ShapeAssumption
  <2> QED BY <2>1, OnlyWorking DEF QInv, LockHeld
<1> QED BY <1>1 DEF Live, Works

LEMMA InitQueue == Init => QueueInv
<1> SUFFICES ASSUME Init PROVE QueueInv OBVIOUS
<1>1. \A p \in Proc : task[p].at = "off"
  <2>1. NoTask.at = "off" BY DEF NoTask
  <2>2. \A p \in Proc : task[p] = NoTask BY DEF Init
  <2> QED BY <2>1, <2>2
<1> QED BY <1>1 DEF Init, QueueInv, Works

\* In this mode nobody cancels, sweeps, ages a row or loses a connection.
LEMMA QueueNext ==
  ASSUME QInv, QueueMode, [Next]_vars
  PROVE  /\ UNCHANGED <<asking, reaping>>
         /\ \/ \E j \in AutoLabel : Start(j)
            \/ \E j \in Train : Enqueue(j)
            \/ \E p \in Proc : Run(p) \/ Raise(p)
            \/ \E w \in Worker : Serve(w) \/ Stop(w) \/ StopAutolabel(w) \/ StopTraining(w) \/ Crash(w)
            \/ OtherTakesSlot \/ OtherFreesSlot \/ UNCHANGED vars
<1>1. \A j \in Job : ~CancelRead(j) /\ ~CancelWrite(j) /\ ~Age(j)
  BY DEF QInv, QueueInv, QueueMode, CancelRead, CancelWrite, Age
<1>2. ~Sweep BY DEF Sweep, ReapRead, ReapWrite, QInv, QueueInv, QueueMode
<1>3. ~ApiDies BY DEF ApiDies, QInv, HostInv, QueueMode
<1>4. ~LoseConnections BY DEF LoseConnections, QInv, TypeInv, TypeOK, QueueMode
<1>5. \/ \E j \in AutoLabel : Start(j)
      \/ \E j \in Train : Enqueue(j)
      \/ \E p \in Proc : Run(p) \/ Raise(p)
      \/ \E w \in Worker : Serve(w) \/ Stop(w) \/ StopAutolabel(w) \/ StopTraining(w) \/ Crash(w)
      \/ OtherTakesSlot \/ OtherFreesSlot \/ UNCHANGED vars
  BY <1>1, <1>2, <1>3, <1>4 DEF Next
<1>6. ASSUME NEW w \in Worker, Serve(w) \/ Stop(w) \/ StopAutolabel(w) \/ StopTraining(w) \/ Crash(w)
      PROVE  UNCHANGED <<asking, reaping>>
  BY <1>6, BootStep, ClaimStep, LaunchStep, WorkerEndsStep, StopAutolabelStep, StopTrainingStep
  DEF Serve, QInv
<1>7. ASSUME NEW p \in Proc, Run(p) \/ Raise(p) PROVE UNCHANGED <<asking, reaping>>
  BY <1>7, RunStep, RaiseStep DEF RunFacts, QInv
<1>8. UNCHANGED <<asking, reaping>>
  BY <1>5, <1>6, <1>7 DEF Start, Enqueue, OtherTakesSlot, OtherFreesSlot, vars
<1> QED BY <1>5, <1>8

\* What a step does to the queue: a job that it leaves as it was ...
Steady(k) == /\ row'[k].status = row[k].status
             /\ \A p \in Proc : Works(p, k)' <=> Works(p, k)
Left(k) == \A p \in Proc : ~Works(p, k)'

\* ... and the one, or the ones, that it moves.
Submits(j) == row[j].status = "absent" /\ row'[j].status = "pending" /\ Left(j)
Takes(j, w) == /\ row[j].status = "pending" /\ row'[j].status = "running"
               /\ \A k \in Job : ~Live(k)
               /\ \A p \in Proc : Works(p, j)' <=> p = w
Lapses(j) == /\ row[j].status = "running" /\ row'[j].status = "running"
             /\ Live(j) /\ Left(j)
Finishes(j) == row[j].status = "running" /\ row'[j].status \in Terminal /\ Live(j) /\ Left(j)
GivesBack(j) == /\ row[j].status = "running" /\ Left(j)
                /\ row'[j].status = "pending" \/ (row'[j].status = "error" /\ ~Live(j))

QStep ==
  \/ \A k \in Job : Steady(k)
  \/ \E j \in Job : /\ \A k \in Job \ {j} : Steady(k)
                    /\ Submits(j) \/ Lapses(j) \/ Finishes(j) \/ \E w \in Worker : Takes(j, w)
  \/ \E S \in SUBSET Job : /\ \A k \in Job \ S : Steady(k)
                           /\ \A j \in S : GivesBack(j)

OrphansWait == \A w \in Worker : \A j \in orphans[w] : row[j].status = "running" /\ ~Live(j)

\* A step that no task takes leaves the orphans of a recovery as they are.
LEMMA OrphansSteady ==
  ASSUME QInv, \A w \in Worker : orphans'[w] \in {orphans[w], {}},
         \A w \in Worker : \A j \in orphans[w] : Steady(j)
  PROVE  OrphansWait'
<1>1. \A w \in Worker : \A j \in orphans[w] : row'[j].status = "running" /\ ~Live(j)'
  BY DEF QInv, QueueInv, Steady, Live
<1> QED BY <1>1 DEF OrphansWait

\* A task of the queue's one working process goes on with its job, or ends it.
LEMMA GoesQueue ==
  ASSUME QInv, QueueMode, NEW p \in Proc, task[p].at \notin {"off", "ghost"}, Goes(p),
         UNCHANGED orphans
  PROVE  QStep /\ OrphansWait'
<1> DEFINE j == task[p].job
<1>1. /\ Works(p, j) /\ j \in Job /\ row[j].status = "running"
      /\ \A q \in Proc : task[q].at \notin {"off", "ghost"} => q = p
      /\ \A v \in Worker : orphans[v] = {}
  BY OnlyWorking
<1>2. OrphansWait' BY <1>1 DEF OrphansWait
<1>3. ASSUME NEW k \in Job, k # j PROVE Steady(k)
  <2>1. row'[k] = row[k] BY <1>3 DEF Goes
  <2>2. \A q \in Proc : Works(q, k)' <=> Works(q, k)
    <3> TAKE q \in Proc
    <3>1. CASE q = p BY <1>3, <3>1 DEF Goes, Works
    <3>2. CASE q # p BY <3>2 DEF Goes, Works
    <3> QED BY <3>1, <3>2
  <2> QED BY <2>1, <2>2 DEF Steady
<1>4. CASE task'[p].at = "off"
  <2>1. row'[j].status \in Terminal /\ \A q \in Proc : q # p => task'[q] = task[q] BY <1>4 DEF Goes
  <2>2. Left(j) BY <1>1, <1>4, <2>1 DEF Left, Works
  <2>3. Finishes(j) BY <1>1, <2>1, <2>2 DEF Finishes, Live
  <2> QED BY <1>1, <1>2, <1>3, <2>3 DEF QStep
<1>5. CASE task'[p].at # "off"
  <2>1. /\ task'[p].at \notin {"off", "ghost"} /\ task'[p].job = j /\ row'[j].status = "running"
        /\ \A q \in Proc : q # p => task'[q] = task[q]
    BY <1>1, <1>5 DEF Goes
  <2>2. Steady(j) BY <1>1, <2>1 DEF Steady, Works
  <2> QED BY <1>2, <1>3, <2>2 DEF QStep
<1> QED BY <1>4, <1>5

LEMMA QueueSteps ==
  ASSUME QInv, QueueMode, [Next]_vars
  PROVE  QStep /\ OrphansWait'
<1>0. /\ TypeInv /\ row \in [Job -> RowType] /\ task \in [Proc -> TaskType]
      /\ orphans \in [Worker -> SUBSET AutoLabel]
      /\ Worker \subseteq Proc /\ AutoLabel \subseteq Job /\ Train \subseteq Job
      /\ AutoLabel \cap Train = {} /\ NoJob \notin Job
      /\ \A p \in Proc, j \in Job : Works(p, j) => row[j].status = "running"
      /\ \A w \in Worker : \A j \in orphans[w] : row[j].status = "running" /\ ~Live(j)
  BY ShapeAssumption DEF QInv, QueueInv, TypeInv, TypeOK, RowType, TaskType, Proc, Job
<1>1. ASSUME UNCHANGED <<row, task>>, \A w \in Worker : orphans'[w] \in {orphans[w], {}}
      PROVE  QStep /\ OrphansWait'
  <2>1. \A k \in Job : Steady(k) BY <1>1 DEF Steady, Works
  <2> QED BY <1>0, <1>1, <2>1, OrphansSteady DEF QStep
<1>2. CASE UNCHANGED vars BY <1>1, <1>2 DEF vars
<1>3. CASE OtherTakesSlot \/ OtherFreesSlot
  BY <1>1, <1>3 DEF OtherTakesSlot, OtherFreesSlot
<1>4. ASSUME NEW j \in Job, row[j].status = "absent", row'[j].status = "pending",
             \A k \in Job : k # j => row'[k] = row[k], UNCHANGED <<task, orphans>>
      PROVE  QStep /\ OrphansWait'
  <2>1. \A k \in Job \ {j} : Steady(k) BY <1>4 DEF Steady, Works
  <2>2. Submits(j) BY <1>0, <1>4 DEF Submits, Left, Works
  <2>3. \A w \in Worker : j \notin orphans[w] BY <1>0, <1>4
  <2>4. \A w \in Worker : \A k \in orphans[w] : Steady(k) BY <1>0, <2>1, <2>3
  <2> QED BY <1>4, <2>1, <2>2, <2>4, OrphansSteady DEF QStep
<1>5. ASSUME NEW j \in AutoLabel, Start(j) PROVE QStep /\ OrphansWait'
  <2>1. UNCHANGED <<task, orphans>> BY <1>5 DEF Start, QueueMode
  <2>2. /\ j \in Job /\ row[j].status = "absent" /\ row'[j].status = "pending"
        /\ row'[j].fresh = TRUE
        /\ \A k \in Job : /\ k # j => row'[k] = row[k]
                          /\ row'[k].resume = row[k].resume /\ row'[k].asked = row[k].asked
    BY <1>0, <1>5, StartStep
  <2> QED BY <1>4, <2>1, <2>2
<1>6. ASSUME NEW j \in Train, Enqueue(j) PROVE QStep /\ OrphansWait'
  <2>1. /\ j \in Job /\ row[j].status = "absent" /\ Bump(j, "pending", "")
        /\ UNCHANGED <<task, orphans>>
    BY <1>0, <1>6 DEF Enqueue
  <2>2. row'[j].status = "pending" /\ \A k \in Job : k # j => row'[k] = row[k]
    BY <1>0, <2>1, BumpFacts DEF Status, Why
  <2> QED BY <1>4, <2>1, <2>2
<1>7. ASSUME NEW p \in Proc, Run(p) \/ Raise(p) PROVE QStep /\ OrphansWait'
  BY <1>0, <1>7, RunStep, RaiseStep, GoesQueue DEF RunFacts
<1>8. ASSUME NEW w \in Worker, Launch(w) PROVE QStep /\ OrphansWait'
  <2>1. w \in Proc BY <1>0
  <2> QED BY <1>0, <1>8, <2>1, LaunchStep, GoesQueue
<1>9. ASSUME NEW w \in Worker, Claim(w) PROVE QStep /\ OrphansWait'
  <2>1. PICK j \in Job :
          /\ row[j].status = "pending" /\ row'[j].status = "running"
          /\ row'[j].fresh = TRUE /\ (j \in AutoLabel => Executor = "worker")
          /\ \A k \in Job : /\ k # j => row'[k] = row[k]
                            /\ row'[k].resume = row[k].resume /\ row'[k].asked = row[k].asked
          /\ task'[w].at = "claimed" /\ task'[w].job = j
          /\ \A q \in Proc : q # w => task'[q] = task[q]
    BY <1>0, <1>9, ClaimStep
  <2>2. worker[w] = "up" /\ task[w].at = "off" /\ lock = w /\ UNCHANGED orphans
    BY <1>0, <1>9, ClaimStep
  <2>3. (\A p \in Proc : task[p].at \in {"off", "ghost"}) /\ \A k \in Job : ~Live(k)
    BY <2>2, NoneWorking
  <2>4. Takes(j, w) BY <2>1, <2>3 DEF Takes, Works
  <2>5. ASSUME NEW k \in Job \ {j} PROVE Steady(k) BY <2>1, <2>2, <2>5 DEF Steady, Works
  <2>6. \A v \in Worker : orphans[v] = {}
    BY <2>2 DEF QInv, HostInv, LockHeld
  <2> QED BY <2>2, <2>4, <2>5, <2>6 DEF QStep, OrphansWait
<1>10. ASSUME NEW w \in Worker, Boot(w) PROVE QStep /\ OrphansWait'
  <2>1. UNCHANGED <<row, task>> /\ lock = Nobody BY <1>10 DEF Boot
  <2>2. \A j \in Job : ~Live(j) BY <2>1, NoneWorking
  <2>3. \A j \in Job : Steady(j) /\ ~Live(j)' BY <2>1, <2>2 DEF Steady, Live, Works
  <2>4. \A v \in Worker : \A j \in orphans'[v] : j \in Job /\ row'[j].status = "running"
    BY <1>0, <1>10 DEF Boot
  <2> QED BY <2>3, <2>4 DEF QStep, OrphansWait
<1>11. ASSUME NEW w \in Worker, RequeueOrphans(w) PROVE QStep /\ OrphansWait'
  <2>1. /\ row' = [j \in Job |-> IF j \in orphans[w] THEN Requeued(row[j]) ELSE row[j]]
        /\ UNCHANGED task /\ worker[w] = "boot" /\ orphans' = [orphans EXCEPT ![w] = {}]
    BY <1>11 DEF RequeueOrphans
  <2>2. \A k \in Job \ orphans[w] : Steady(k) BY <2>1 DEF Steady, Works
  <2>3. ASSUME NEW j \in orphans[w] PROVE GivesBack(j)
    <3>1. j \in Job /\ row[j] \in RowType /\ row[j].status = "running" /\ ~Live(j) BY <1>0
    <3>2. row'[j].status \in {"error", "pending"} BY <2>1, <3>1, RequeuedFacts
    <3>3. Left(j) BY <2>1, <3>1 DEF Left, Live, Works
    <3> QED BY <3>1, <3>2, <3>3 DEF GivesBack
  <2>4. orphans[w] \in SUBSET Job BY <1>0
  <2>5. \A v \in Worker : orphans'[v] = {}
    BY <1>0, <2>1 DEF QInv, HostInv, LockHeld
  <2> QED BY <2>2, <2>3, <2>4, <2>5 DEF QStep, OrphansWait
<1>12. ASSUME NEW S \in SUBSET Train, TrainingReset, \A j \in Train : j \in S <=> row[j].status = "running",
              \A j \in Train : Left(j), \A k \in AutoLabel, p \in Proc : Works(p, k)' <=> Works(p, k),
              UNCHANGED orphans
       PROVE  QStep /\ OrphansWait'
  <2>1. ASSUME NEW k \in Job \ S PROVE Steady(k)
    <3>1. row'[k] = row[k] BY <1>0, <1>12, <2>1, ResetFacts
    <3>2. \A p \in Proc : Works(p, k)' <=> Works(p, k)
      BY <1>0, <1>12, <2>1 DEF Left, Job
    <3> QED BY <3>1, <3>2 DEF Steady
  <2>2. ASSUME NEW j \in S PROVE GivesBack(j)
    BY <1>0, <1>12, <2>2, ResetFacts DEF GivesBack
  <2>3. \A v \in Worker : \A j \in orphans[v] : Steady(j) BY <1>0, <2>1
  <2>4. OrphansWait' BY <1>12, <2>3, OrphansSteady
  <2>5. S \in SUBSET Job BY <1>0
  <2> QED BY <2>1, <2>2, <2>4, <2>5 DEF QStep
<1>13. ASSUME NEW w \in Worker, ResetTraining(w) PROVE QStep /\ OrphansWait'
  <2> DEFINE S == {j \in Train : row[j].status = "running"}
  <2>1. /\ TrainingReset /\ UNCHANGED <<task, orphans>> /\ worker[w] = "reset"
    BY <1>13 DEF ResetTraining
  <2>2. \A j \in Train : Left(j) BY <1>0, <2>1, NoneWorking DEF Left, Live, Works
  <2>3. S \in SUBSET Train /\ \A j \in Train : j \in S <=> row[j].status = "running" OBVIOUS
  <2> HIDE DEF S
  <2> QED BY <1>12, <2>1, <2>2, <2>3 DEF Works
<1>14. ASSUME NEW w \in Worker, StopTraining(w) PROVE QStep /\ OrphansWait'
  <2> DEFINE S == {j \in Train : row[j].status = "running"}
  <2>1. /\ TrainingReset /\ UNCHANGED orphans /\ task[w].job \in Train
        /\ task[w].at \in {"start", "ask", "train", "score", "failing"}
        /\ task'[w].at \in {"off", "ghost"} /\ \A q \in Proc : q # w => task'[q] = task[q]
    BY <1>0, <1>14, StopTrainingStep
  <2>2. \A q \in Proc : task[q].at \notin {"off", "ghost"} => q = w
    BY <1>0, <2>1, OnlyWorking
  <2>3. \A j \in Train : Left(j) BY <2>1, <2>2 DEF Left, Works
  <2>4. \A k \in AutoLabel, p \in Proc : Works(p, k)' <=> Works(p, k)
    BY <1>0, <2>1, <2>2 DEF Works
  <2>5. S \in SUBSET Train /\ \A j \in Train : j \in S <=> row[j].status = "running" OBVIOUS
  <2> HIDE DEF S
  <2> QED BY <1>12, <2>1, <2>3, <2>4, <2>5
<1>15. ASSUME NEW w \in Worker, Stop(w) \/ ThreadEnds(w) \/ Crash(w) \/ PoisonCrash(w) \/ ExitUnlocked(w)
       PROVE  QStep /\ OrphansWait'
  <2>1. /\ UNCHANGED row /\ task'[w].at = "off" /\ \A q \in Proc : q # w => task'[q] = task[q]
        /\ \A v \in Worker : orphans'[v] \in {orphans[v], {}}
    BY <1>0, <1>15, WorkerEndsStep
  <2>2. CASE task[w].at \in {"off", "ghost"}
    <3>1. \A k \in Job : Steady(k) BY <1>0, <2>1, <2>2 DEF Steady, Works
    <3> QED BY <1>0, <2>1, <3>1, OrphansSteady DEF QStep
  <2>3. CASE task[w].at \notin {"off", "ghost"}
    <3> DEFINE j == task[w].job
    <3>1. /\ Works(w, j) /\ j \in Job /\ row[j].status = "running"
          /\ \A q \in Proc : task[q].at \notin {"off", "ghost"} => q = w
          /\ \A v \in Worker : orphans[v] = {}
      BY <1>0, <2>3, OnlyWorking
    <3>2. Lapses(j) BY <1>0, <2>1, <3>1 DEF Lapses, Left, Live, Works
    <3>3. \A k \in Job \ {j} : Steady(k) BY <1>0, <2>1, <3>1 DEF Steady, Works
    <3> QED BY <2>1, <3>1, <3>2, <3>3 DEF QStep, OrphansWait
  <2> QED BY <2>2, <2>3
<1>16. ASSUME NEW w \in Worker, StopAutolabel(w) \/ RequeueInterrupted(w) PROVE QStep /\ OrphansWait'
  <2> DEFINE j == task[w].job
  <2>1. /\ UNCHANGED orphans /\ task[w].at \notin {"off", "ghost"} /\ j \in Job
        /\ \A q \in Proc : q # w => task'[q] = task[q]
        /\ \/ task'[w].at = "requeue" /\ task'[w].job = j /\ UNCHANGED row
           \/ row[j].status # "running"
           \/ /\ task'[w].at = "off" /\ row'[j].status = "pending"
              /\ \A k \in Job : k # j => row'[k] = row[k]
    BY <1>0, <1>16, StopAutolabelStep
  <2>2. /\ Works(w, j) /\ row[j].status = "running"
        /\ \A q \in Proc : task[q].at \notin {"off", "ghost"} => q = w
        /\ \A v \in Worker : orphans[v] = {}
    BY <1>0, <2>1, OnlyWorking
  <2>3. OrphansWait' BY <2>1, <2>2 DEF OrphansWait
  <2>4. CASE task'[w].at = "requeue" /\ task'[w].job = j /\ UNCHANGED row
    <3>1. \A k \in Job : Steady(k) BY <1>0, <2>1, <2>4 DEF Steady, Works
    <3> QED BY <2>3, <3>1 DEF QStep
  <2>5. CASE /\ task'[w].at = "off" /\ row'[j].status = "pending"
             /\ \A k \in Job : k # j => row'[k] = row[k]
    <3>1. \A k \in Job \ {j} : Steady(k) BY <1>0, <2>1, <2>2, <2>5 DEF Steady, Works
    <3>2. GivesBack(j) BY <1>0, <2>1, <2>2, <2>5 DEF GivesBack, Left, Works
    <3>3. {j} \in SUBSET Job BY <2>1
    <3> QED BY <2>3, <3>1, <3>2, <3>3 DEF QStep
  <2> QED BY <2>1, <2>2, <2>4, <2>5
<1> QED BY <1>2, <1>3, <1>5, <1>6, <1>7, <1>8, <1>9, <1>10, <1>11, <1>13, <1>14, <1>15, <1>16,
           QueueNext DEF Serve

LEMMA QueueInvStep == QueueMode /\ QInv /\ [Next]_vars => QInv'
<1> SUFFICES ASSUME QueueMode, QInv, [Next]_vars PROVE QInv' OBVIOUS
<1>1. TypeInv' /\ HostInv' /\ LockHeld' BY TypeStep, HostStep, LockStep DEF QInv, QueueMode
<1>2. QStep /\ OrphansWait' BY QueueSteps
<1>3. UNCHANGED <<asking, reaping>> BY QueueNext
<1>4. ASSUME NEW p \in Proc, NEW j \in Job, Works(p, j)' PROVE row'[j].status = "running"
  <2>1. CASE Steady(j) BY <1>4, <2>1 DEF Steady, QInv, QueueInv
  <2>2. CASE ~Steady(j)
    BY <1>2, <1>4, <2>2 DEF QStep, Submits, Takes, Lapses, Finishes, GivesBack, Left
  <2> QED BY <2>1, <2>2
<1> QED BY <1>1, <1>2, <1>3, <1>4 DEF QInv, QueueInv, OrphansWait

-------------------------------------------------------------------------------
(* Jobs implements JobQueue: each kind of step maps to a step of the queue. *)

LifeOf(j) == CASE row[j].status = "absent" -> "absent"
               [] row[j].status = "pending" -> "waiting"
               [] row[j].status = "running" -> "held"
               [] OTHER -> "ended"
HolderOf(j) == IF Lease(j) = {} THEN Nobody ELSE CHOOSE w \in Lease(j) : TRUE
lifeBar == [j \in Job |-> LifeOf(j)]
holderBar == [j \in Job |-> HolderOf(j)]

LEMMA LifeFacts ==
  ASSUME NEW j \in Job
  PROVE  /\ row[j].status = "absent" => LifeOf(j) = "absent"
         /\ row[j].status = "pending" => LifeOf(j) = "waiting"
         /\ row[j].status = "running" => LifeOf(j) = "held"
         /\ row[j].status \in Terminal => LifeOf(j) = "ended"
         /\ row'[j].status = "absent" => LifeOf(j)' = "absent"
         /\ row'[j].status = "pending" => LifeOf(j)' = "waiting"
         /\ row'[j].status = "running" => LifeOf(j)' = "held"
         /\ row'[j].status \in Terminal => LifeOf(j)' = "ended"
         /\ row'[j].status = row[j].status => LifeOf(j)' = LifeOf(j)
BY DEF LifeOf, Terminal

\* The holder of a job is the process that works on it.
LEMMA HolderFacts ==
  ASSUME QInv, QueueMode, NEW j \in Job
  PROVE  /\ \A p \in Proc : Works(p, j) => HolderOf(j) = p
         /\ ~Live(j) => HolderOf(j) = Nobody
         /\ Live(j) => HolderOf(j) # Nobody
<1>1. ASSUME NEW p \in Proc, Works(p, j) PROVE HolderOf(j) = p
  <2>1. Lease(j) = {p} BY <1>1, OneRunner DEF Lease, QInv, QueueInv
  <2>2. (CHOOSE w \in {p} : TRUE) = p OBVIOUS
  <2> QED BY <2>1, <2>2 DEF HolderOf
<1>2. ~Live(j) => HolderOf(j) = Nobody BY DEF Live, Lease, HolderOf
<1>3. Nobody \notin Proc BY ShapeAssumption
<1> QED BY <1>1, <1>2, <1>3 DEF Live

\* The same of the next state.
LEMMA HolderNext ==
  ASSUME QInv', QueueMode, NEW j \in Job
  PROVE  /\ \A p \in Proc : Works(p, j)' => HolderOf(j)' = p
         /\ Left(j) => HolderOf(j)' = Nobody
<1>1. ASSUME NEW p \in Proc, Works(p, j)' PROVE HolderOf(j)' = p
  <2>1. \A q \in Proc : Works(q, j)' => q = p
    <3>1. \A q \in Proc : task'[q].at \notin {"off", "ghost"} =>
            q \in Worker /\ lock' = q
      BY DEF QInv, HostInv, LockHeld, QueueMode, Proc
    <3> QED BY <1>1, <3>1 DEF Works
  <2>2. Lease(j)' = {p} BY <1>1, <2>1 DEF Lease, QInv, QueueInv
  <2>3. (CHOOSE w \in {p} : TRUE) = p OBVIOUS
  <2> QED BY <2>2, <2>3 DEF HolderOf
<1>2. Left(j) => HolderOf(j)' = Nobody BY DEF Left, Lease, HolderOf
<1> QED BY <1>1, <1>2

LEMMA SteadyMaps ==
  ASSUME QInv, QInv', QueueMode, NEW j \in Job, Steady(j)
  PROVE  LifeOf(j)' = LifeOf(j) /\ HolderOf(j)' = HolderOf(j)
<1>1. LifeOf(j)' = LifeOf(j) BY LifeFacts DEF Steady
<1>2. Lease(j)' = Lease(j) BY DEF Steady, Lease
<1> QED BY <1>1, <1>2 DEF HolderOf

\* One job moves, the others stay.
LEMMA OneMoves ==
  ASSUME QInv, QInv', QueueMode, NEW j \in Job, \A k \in Job \ {j} : Steady(k),
         NEW from, NEW to, NEW h, LifeOf(j) = from, LifeOf(j)' = to, HolderOf(j)' = h
  PROVE  Queue!Move(j, from, to, h)
<1>1. \A k \in Job : k # j => LifeOf(k)' = LifeOf(k) /\ HolderOf(k)' = HolderOf(k)
  BY SteadyMaps
<1>2. lifeBar' = [lifeBar EXCEPT ![j] = to] BY <1>1 DEF lifeBar
<1>3. holderBar' = [holderBar EXCEPT ![j] = h] BY <1>1 DEF holderBar
<1>4. lifeBar[j] = from BY DEF lifeBar
<1> QED BY <1>2, <1>3, <1>4 DEF Queue!Move, lifeBar, holderBar, LifeOf, HolderOf

LEMMA QueueImplements == QueueMode /\ QInv /\ QInv' /\ QStep => [Queue!Next]_(Queue!vars)
<1> SUFFICES ASSUME QueueMode, QInv, QInv', QStep PROVE [Queue!Next]_(Queue!vars) OBVIOUS
<1>1. CASE \A k \in Job : Steady(k)
  <2>1. \A k \in Job : LifeOf(k)' = LifeOf(k) /\ HolderOf(k)' = HolderOf(k)
    BY <1>1, SteadyMaps
  <2>2. lifeBar' = lifeBar /\ holderBar' = holderBar BY <2>1 DEF lifeBar, holderBar
  <2> QED BY <2>2 DEF Queue!vars, lifeBar, holderBar, LifeOf, HolderOf
<1>2. ASSUME NEW j \in Job, \A k \in Job \ {j} : Steady(k), Submits(j) PROVE Queue!Submit(j)
  <2>1. LifeOf(j) = "absent" /\ LifeOf(j)' = "waiting" /\ HolderOf(j)' = Nobody
    BY <1>2, LifeFacts, HolderNext DEF Submits
  <2> QED BY <1>2, <2>1, OneMoves DEF Queue!Submit
<1>3. ASSUME NEW j \in Job, \A k \in Job \ {j} : Steady(k), NEW w \in Worker, Takes(j, w)
      PROVE  Queue!Take(j, w)
  <2>0. w \in Proc /\ w # Nobody BY ShapeAssumption DEF Proc
  <2>1. LifeOf(j) = "waiting" /\ LifeOf(j)' = "held" /\ HolderOf(j)' = w
    BY <1>3, <2>0, LifeFacts, HolderNext DEF Takes
  <2>2. \A k \in Job : holderBar[k] # w BY <1>3, <2>0, HolderFacts DEF Takes, holderBar
  <2>3. Queue!Move(j, "waiting", "held", w) BY <1>3, <2>1, OneMoves
  <2> QED BY <2>2, <2>3 DEF Queue!Take, holderBar, HolderOf
<1>4. ASSUME NEW j \in Job, \A k \in Job \ {j} : Steady(k), Lapses(j) PROVE Queue!Lapse(j)
  <2>1. LifeOf(j) = "held" /\ LifeOf(j)' = "held" /\ HolderOf(j)' = Nobody
    BY <1>4, LifeFacts, HolderNext DEF Lapses
  <2>2. holderBar[j] # Nobody BY <1>4, HolderFacts DEF Lapses, holderBar
  <2>3. Queue!Move(j, "held", "held", Nobody) BY <1>4, <2>1, OneMoves
  <2> QED BY <2>2, <2>3 DEF Queue!Lapse, holderBar, HolderOf
<1>5. ASSUME NEW j \in Job, \A k \in Job \ {j} : Steady(k), Finishes(j) PROVE Queue!Finish(j)
  <2>1. LifeOf(j) = "held" /\ LifeOf(j)' = "ended" /\ HolderOf(j)' = Nobody
    BY <1>5, LifeFacts, HolderNext DEF Finishes
  <2>2. holderBar[j] # Nobody BY <1>5, HolderFacts DEF Finishes, holderBar
  <2>3. Queue!Move(j, "held", "ended", Nobody) BY <1>5, <2>1, OneMoves
  <2> QED BY <2>2, <2>3 DEF Queue!Finish, holderBar, HolderOf
<1>6. ASSUME NEW S \in SUBSET Job, S # {}, \A k \in Job \ S : Steady(k), \A j \in S : GivesBack(j)
      PROVE  Queue!GiveBack(S)
  <2> DEFINE over == {j \in S : row'[j].status = "error"}
  <2>1. over \in SUBSET S /\ \A j \in S : j \in over <=> row'[j].status = "error" OBVIOUS
  <2> HIDE DEF over
  <2>2. \A j \in S : lifeBar[j] = "held" BY <1>6, LifeFacts DEF GivesBack, lifeBar
  <2>3. \A j \in over : holderBar[j] = Nobody
    BY <1>6, <2>1, HolderFacts DEF GivesBack, holderBar
  <2>4. ASSUME NEW j \in Job
        PROVE  /\ LifeOf(j)' = IF j \in over THEN "ended" ELSE IF j \in S THEN "waiting" ELSE lifeBar[j]
               /\ HolderOf(j)' = IF j \in S THEN Nobody ELSE holderBar[j]
    <3>1. CASE j \in S
      BY <1>6, <2>1, <3>1, LifeFacts, HolderNext DEF GivesBack, Terminal
    <3>2. CASE j \notin S BY <1>6, <2>1, <3>2, SteadyMaps DEF lifeBar, holderBar
    <3> QED BY <3>1, <3>2
  <2>5. lifeBar' = [j \in Job |-> IF j \in over THEN "ended" ELSE IF j \in S THEN "waiting" ELSE lifeBar[j]]
    BY <2>4 DEF lifeBar
  <2>6. holderBar' = [j \in Job |-> IF j \in S THEN Nobody ELSE holderBar[j]]
    BY <2>4 DEF holderBar
  <2> QED BY <1>6, <2>1, <2>2, <2>3, <2>5, <2>6
          DEF Queue!GiveBack, lifeBar, holderBar, LifeOf, HolderOf
<1>7. CASE \E j \in Job : /\ \A k \in Job \ {j} : Steady(k)
                          /\ Submits(j) \/ Lapses(j) \/ Finishes(j) \/ \E w \in Worker : Takes(j, w)
  BY <1>2, <1>3, <1>4, <1>5, <1>7 DEF Queue!Next, Proc
<1>8. CASE \E S \in SUBSET Job : (\A k \in Job \ S : Steady(k)) /\ \A j \in S : GivesBack(j)
  BY <1>1, <1>6, <1>8 DEF Queue!Next
<1> QED BY <1>1, <1>7, <1>8 DEF QStep

LEMMA QueueStarts == Init /\ QInv /\ QueueMode => Queue!Init
<1> SUFFICES ASSUME Init, QInv, QueueMode PROVE Queue!Init OBVIOUS
<1>1. \A j \in Job : row[j].status = "absent" BY DEF Init
<1>2. \A j \in Job : ~Live(j) BY <1>1 DEF QInv, QueueInv, Live
<1>3. \A j \in Job : LifeOf(j) = "absent" /\ HolderOf(j) = Nobody
  BY <1>1, <1>2, LifeFacts, HolderFacts
<1>4. lifeBar = [j \in Job |-> "absent"] /\ holderBar = [j \in Job |-> Nobody]
  BY <1>3 DEF lifeBar, holderBar
<1> QED BY <1>4 DEF Queue!Init, lifeBar, holderBar, LifeOf, HolderOf

\* The job tables keep the promise of a queue of leases, for any jobs and any number of workers,
\* through crashes, stops, recoveries and jobs that kill their process: where the worker runs
\* every job, nobody cancels and no lock is lost, every step of Jobs is a step of JobQueue or
\* changes nothing there.
THEOREM KeepsQueueAlways == QueueMode => (Spec => KeepsQueue)
<1> SUFFICES ASSUME QueueMode PROVE Spec => KeepsQueue OBVIOUS
<1>1. Init => QInv BY InitType, InitHost, InitQueue DEF QInv
<1>2. QInv /\ [Next]_vars => QInv' BY QueueInvStep
<1>3. Init => Queue!Init BY <1>1, QueueStarts
<1>4. QInv /\ QInv' /\ [Next]_vars => [Queue!Next]_(Queue!vars) BY QueueSteps, QueueImplements
<1> QED BY <1>1, <1>2, <1>3, <1>4, PTL DEF Spec, KeepsQueue, Queue!Spec
===============================================================================
