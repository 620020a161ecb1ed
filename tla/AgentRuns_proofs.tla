-------------------------- MODULE AgentRuns_proofs --------------------------
(* Theorems of AgentRuns, for any units, window, streak and kinds of run,  *)
(* and any crashes and outages.                                            *)
EXTENDS AgentRuns, FiniteSetTheorems, WellFoundedInduction, TLAPS

-------------------------------------------------------------------------------
(* The operators. *)

\* Among the units that are left there is a first one.
LEMMA FirstUnit ==
  ASSUME NEW S \in SUBSET Units, S # {}
  PROVE  /\ (CHOOSE u \in S : \A v \in S : u <= v) \in S
         /\ \A v \in S : (CHOOSE u \in S : \A x \in S : u <= x) <= v
<1>1. S \subseteq Nat BY AgentRunsAssumption
<1>2. PICK u \in S : \A v \in S : ~(<<v, u>> \in OpToRel(<, Nat))
  BY <1>1, NatLessThanWellFounded, WFMin
<1>3. \A v \in S : ~(v < u) BY <1>1, <1>2 DEF OpToRel
<1>4. \A v \in S : u <= v BY <1>1, <1>3
<1> QED BY <1>4

\* A window over units that are there is not empty.
LEMMA WindowNotEmpty ==
  ASSUME NEW S \in SUBSET Units, First(S) = {}
  PROVE  S = {}
<1> SUFFICES ASSUME S # {} PROVE FALSE OBVIOUS
<1>1. S \subseteq Nat BY AgentRunsAssumption
<1>2. PICK u \in S : \A v \in S : u <= v BY FirstUnit
<1>3. {v \in S : v < u} = {}
  <2>1. ASSUME NEW v \in S PROVE ~(v < u) BY <1>1, <1>2
  <2> QED BY <2>1
<1>4. Cardinality({v \in S : v < u}) = 0 BY <1>3, FS_EmptySet
<1>5. 0 < Window BY AgentRunsAssumption
<1>6. u \in First(S) BY <1>4, <1>5 DEF First
<1> QED BY <1>6

\* A unit stays in the window when units before it leave.
LEMMA WindowShrinks ==
  ASSUME NEW S \in SUBSET Units, NEW T \in SUBSET S, NEW u \in T, u \in First(S)
  PROVE  u \in First(T)
<1> DEFINE before == {v \in S : v < u}
           now == {v \in T : v < u}
<1>1. IsFiniteSet(before) BY FS_Subset, AgentRunsAssumption
<1>2. now \subseteq before OBVIOUS
<1>3. IsFiniteSet(now) /\ Cardinality(now) <= Cardinality(before) BY <1>1, <1>2, FS_Subset
<1>4. Cardinality(before) \in Nat /\ Cardinality(now) \in Nat BY <1>1, <1>3, FS_CardinalityType
<1>5. Cardinality(before) < Window BY DEF First
<1>6. Window \in Nat BY AgentRunsAssumption
<1>7. Cardinality(now) < Window BY <1>3, <1>4, <1>5, <1>6
<1> QED BY <1>7 DEF First

\* One more unit counts one more.
LEMMA OneMore ==
  ASSUME NEW S \in SUBSET Units, NEW u \in Units \ S
  PROVE  /\ Cardinality(S) \in Nat /\ Cardinality(S \cup {u}) = Cardinality(S) + 1
<1>1. IsFiniteSet(S) BY FS_Subset, AgentRunsAssumption
<1> QED BY <1>1, FS_CardinalityType, FS_AddElement

-------------------------------------------------------------------------------
(* Type correctness. *)

RunType == [status : Status, done : SUBSET Units, counts : Counts, kids : SUBSET Units,
            fresh : BOOLEAN]
WorkerType == [pc : {"off", "spawned", "work", "child", "beat", "end", "fail"},
               resumed : BOOLEAN, todo : SUBSET Units, done : SUBSET Units,
               counts : Counts, kids : SUBSET Units, streak : 0..Streak]
HistoryType == [scope : SUBSET Units, times : [Units -> Nat], missed : BOOLEAN,
                crashes : 0..MaxCrashes, outages : 0..MaxOutages]

\* A worker that takes up a unit has not failed Streak times in a row.
StreakOK == \A w \in Worker : worker[w].pc \in {"spawned", "work"} => worker[w].streak < Streak
TypeInv == TypeOK /\ StreakOK

LEMMA OffFacts == /\ Off \in WorkerType /\ Off.pc = "off" /\ Off.todo = {} /\ Off.done = {}
                  /\ Off.streak = 0 /\ Off.counts = NoCounts /\ NoCounts \in Counts
                  /\ NoCounts.frames = 0 /\ NoCounts.skipped = 0
<1>1. 0 \in 0..Streak BY AgentRunsAssumption
<1>2. NoCounts \in Counts /\ NoCounts.frames = 0 /\ NoCounts.skipped = 0 BY DEF NoCounts, Counts
<1> HIDE DEF NoCounts
<1> QED BY <1>1, <1>2 DEF Off, WorkerType

\* Tasks begin and end one at a time.
LEMMA LeaveFacts ==
  ASSUME worker \in [Worker -> WorkerType], NEW w \in Worker, Leave(w)
  PROVE  /\ worker' \in [Worker -> WorkerType] /\ worker'[w] = Off
         /\ \A v \in Worker : v # w => worker'[v] = worker[v]
<1> HIDE DEF Off
<1> QED BY OffFacts DEF Leave

LEMMA SpawnFacts ==
  ASSUME worker \in [Worker -> WorkerType], NEW w \in Worker, NEW again \in BOOLEAN, Spawn(w, again)
  PROVE  /\ worker' \in [Worker -> WorkerType] /\ worker[w].pc = "off"
         /\ worker'[w].pc = "spawned" /\ worker'[w].resumed = again /\ worker'[w].todo = {}
         /\ worker'[w].done = {} /\ worker'[w].streak = 0
         /\ \A v \in Worker : v # w => worker'[v] = worker[v]
<1> DEFINE new == [Off EXCEPT !.pc = "spawned", !.resumed = again]
<1>1. /\ new \in WorkerType /\ new.pc = "spawned" /\ new.resumed = again /\ new.todo = {}
      /\ new.done = {} /\ new.streak = 0
  <2> HIDE DEF Off
  <2> QED BY OffFacts DEF WorkerType
<1>2. worker' = [worker EXCEPT ![w] = new] /\ worker[w].pc = "off" BY DEF Spawn
<1> HIDE DEF new
<1> QED BY <1>1, <1>2

\* The parts of a state that its type names.
LEMMA TypeFacts ==
  ASSUME TypeInv
  PROVE  /\ run \in RunType /\ worker \in [Worker -> WorkerType] /\ history \in HistoryType
         /\ run.done \in SUBSET Units /\ run.counts \in Counts /\ run.kids \in SUBSET Units
         /\ history.scope \in SUBSET Units /\ Selected \in SUBSET Units
         /\ \A w \in Worker :
              /\ worker[w] \in WorkerType /\ worker[w].todo \in SUBSET Units
              /\ worker[w].done \in SUBSET Units /\ worker[w].counts \in Counts
              /\ worker[w].kids \in SUBSET Units /\ worker[w].streak \in 0..Streak
         /\ Streak \in Nat /\ Streak # 0
<1>1. Selected \in SUBSET Units BY DEF Selected, First
<1> QED BY <1>1, AgentRunsAssumption DEF TypeInv, TypeOK, RunType, WorkerType, HistoryType

\* What beginning a run does: it ends at once, or works from the cursor.
Ends(w, counts) == /\ worker'[w] = Off /\ \A v \in Worker : v # w => worker'[v] = worker[v]
                   /\ run'.status = "committed" /\ run'.counts = counts /\ run'.done = run.done

LEMMA CommitFacts ==
  ASSUME TypeInv, NEW w \in Worker, NEW counts \in Counts, Commit(counts), Leave(w)
  PROVE  /\ run' \in RunType /\ worker' \in [Worker -> WorkerType] /\ Ends(w, counts)
<1>1. run \in RunType /\ worker \in [Worker -> WorkerType] BY TypeFacts
<1>2. /\ run' \in RunType /\ run'.status = "committed" /\ run'.counts = counts
      /\ run'.done = run.done
  BY <1>1 DEF Commit, RunType, Status, Terminal
<1> QED BY <1>1, <1>2, LeaveFacts DEF Ends

LEMMA BeginFacts ==
  ASSUME TypeInv, NEW w \in Worker, Begin(w)
  PROVE  /\ run' \in RunType /\ worker' \in [Worker -> WorkerType] /\ history' \in HistoryType
         /\ worker[w].pc = "spawned" /\ history'.times = history.times
         /\ history'.scope = (IF worker[w].resumed THEN history.scope ELSE Selected)
         /\ \/ /\ Selected = {} /\ kind # "error_sweep"
               /\ \E counts \in Counts : Ends(w, counts) /\ (kind = "relabel_all" \/ counts = run.counts)
            \/ /\ UNCHANGED run /\ \A v \in Worker : v # w => worker'[v] = worker[v]
               /\ worker'[w].pc = "work" /\ worker'[w].todo = Selected \ run.done
               /\ worker'[w].done = run.done /\ worker'[w].counts = run.counts
               /\ worker'[w].streak = worker[w].streak
<1>1. /\ run \in RunType /\ worker \in [Worker -> WorkerType] /\ history \in HistoryType
      /\ worker[w] \in WorkerType /\ worker[w].pc = "spawned"
      /\ run.done \in SUBSET Units /\ run.counts \in Counts /\ run.kids \in SUBSET Units
      /\ Selected \in SUBSET Units /\ history.scope \in SUBSET Units
  BY TypeFacts DEF Begin
<1> DEFINE scope == IF worker[w].resumed THEN history.scope ELSE Selected
<1>2. history' = [history EXCEPT !.scope = scope] BY DEF Begin
<1>3. scope \in SUBSET Units BY <1>1
<1>4. /\ history' \in HistoryType /\ history'.times = history.times /\ history'.scope = scope
  <2> HIDE DEF scope
  <2> QED BY <1>1, <1>2, <1>3 DEF HistoryType
<1>5. CASE Selected = {} /\ kind # "error_sweep"
  <2> DEFINE counts == IF kind = "relabel_all" THEN NoCounts ELSE CountsSoFar(run)
  <2>1. Commit(counts) /\ Leave(w) BY <1>5 DEF Begin
  <2>2. counts \in Counts /\ (kind = "relabel_all" \/ counts = run.counts)
    BY <1>1, OffFacts DEF CountsSoFar
  <2> HIDE DEF counts
  <2>3. run' \in RunType /\ worker' \in [Worker -> WorkerType] /\ Ends(w, counts)
    BY <2>1, <2>2, CommitFacts
  <2> QED BY <1>1, <1>4, <1>5, <2>2, <2>3
<1>6. CASE ~(Selected = {} /\ kind # "error_sweep")
  <2> DEFINE todo == Selected \ Cursor(run)
             done == Cursor(run)
             counts == CountsSoFar(run)
             kids == run.kids
             new == [worker[w] EXCEPT !.pc = "work", !.todo = todo, !.done = done,
                                      !.counts = counts, !.kids = kids]
  <2>1. worker' = [worker EXCEPT ![w] = new] /\ UNCHANGED run BY <1>6 DEF Begin
  <2>2. /\ todo \in SUBSET Units /\ done \in SUBSET Units /\ counts \in Counts /\ kids \in SUBSET Units
        /\ todo = Selected \ run.done /\ done = run.done /\ counts = run.counts
    BY <1>1 DEF Cursor, CountsSoFar
  <2> HIDE DEF todo, done, counts, kids
  <2>3. /\ new \in WorkerType /\ new.pc = "work" /\ new.todo = todo /\ new.done = done
        /\ new.counts = counts /\ new.streak = worker[w].streak
    BY <1>1, <2>2 DEF WorkerType
  <2> HIDE DEF new
  <2>4. /\ worker' \in [Worker -> WorkerType] /\ worker'[w] = new
        /\ \A v \in Worker : v # w => worker'[v] = worker[v]
    BY <1>1, <2>1, <2>3
  <2> QED BY <1>1, <1>4, <2>1, <2>2, <2>3, <2>4
<1> QED BY <1>5, <1>6

\* A unit that is worked on leaves what is left and joins the cursor, and counts one frame.
LEMMA WorkFacts ==
  ASSUME TypeInv, NEW w \in Worker, Work(w)
  PROVE  \E u \in worker[w].todo :
    /\ worker' \in [Worker -> WorkerType] /\ history' \in HistoryType /\ worker[w].pc = "work"
    /\ trace' = [trace EXCEPT ![u] = "committed"] /\ history'.scope = history.scope
    /\ \A v \in Units : v # u => history'.times[v] = history.times[v]
    /\ \A v \in Worker : v # w => worker'[v] = worker[v]
    /\ worker'[w].pc \in {"child", "beat"} /\ worker'[w].streak = 0
    /\ worker'[w].todo = worker[w].todo \ {u} /\ worker'[w].done = worker[w].done \cup {u}
    /\ worker'[w].counts.frames = worker[w].counts.frames + 1
    /\ worker'[w].counts.skipped = worker[w].counts.skipped
<1> DEFINE u == Next1(w)
           k == worker[w]
           pc == IF kind = "relabel_all" THEN "child" ELSE "beat"
           todo == k.todo \ {u}
           done == k.done \cup {u}
           counts == [k.counts EXCEPT !.frames = @ + 1]
           kids == IF kind = "relabel_all" THEN k.kids \cup {u} ELSE k.kids
           new == [k EXCEPT !.pc = pc, !.todo = @ \ {u}, !.done = @ \cup {u}, !.streak = 0,
                            !.counts.frames = @ + 1,
                            !.kids = IF kind = "relabel_all" THEN @ \cup {u} ELSE @]
<1>1. /\ worker \in [Worker -> WorkerType] /\ k \in WorkerType /\ k.pc = "work"
      /\ history \in HistoryType /\ k.todo \in SUBSET Units /\ k.done \in SUBSET Units
      /\ k.counts \in Counts /\ k.kids \in SUBSET Units /\ Streak \in Nat
      /\ k.todo # {}
  BY TypeFacts DEF Work
<1>2. u \in k.todo /\ u \in Units BY <1>1, FirstUnit DEF Next1
<1>3. /\ trace' = [trace EXCEPT ![u] = "committed"]
      /\ history' = [history EXCEPT !.times = [history.times EXCEPT ![u] = history.times[u] + 1]]
      /\ worker' = [worker EXCEPT ![w] = new]
  <2>1. trace' = [trace EXCEPT ![u] = "committed"] BY DEF Work
  <2>2. history' = [history EXCEPT !.times = [history.times EXCEPT ![u] = history.times[u] + 1]] BY DEF Work
  <2>3. worker' = [worker EXCEPT ![w] = new] BY DEF Work
  <2> QED BY <2>1, <2>2, <2>3
<1>4. /\ pc \in {"child", "beat"} /\ todo \in SUBSET Units /\ done \in SUBSET Units
      /\ kids \in SUBSET Units /\ 0 \in 0..Streak
  BY <1>1, <1>2
<1>5. /\ counts \in Counts /\ counts.frames = k.counts.frames + 1
      /\ counts.skipped = k.counts.skipped
  BY <1>1 DEF Counts
<1> HIDE DEF u
<1> DEFINE times == [history.times EXCEPT ![u] = history.times[u] + 1]
<1>6. /\ times \in [Units -> Nat] /\ \A v \in Units : v # u => times[v] = history.times[v]
  BY <1>1, <1>2 DEF HistoryType
<1>7. history' = [history EXCEPT !.times = times] BY <1>3
<1> HIDE DEF times
<1>8. history' \in HistoryType /\ history'.times = times /\ history'.scope = history.scope
  BY <1>1, <1>6, <1>7 DEF HistoryType
<1>9. /\ new \in WorkerType /\ new.pc = pc /\ new.todo = todo /\ new.done = done
      /\ new.counts = counts /\ new.streak = 0
  <2>1. new = [k EXCEPT !.pc = pc, !.todo = todo, !.done = done, !.streak = 0,
                        !.counts = counts, !.kids = kids]
    BY <1>1 DEF WorkerType
  <2> HIDE DEF pc, todo, done, counts, kids, new
  <2> QED BY <1>1, <1>4, <1>5, <2>1 DEF WorkerType
<1> HIDE DEF new
<1>10. /\ worker' \in [Worker -> WorkerType] /\ worker'[w] = new
       /\ \A v \in Worker : v # w => worker'[v] = worker[v]
  BY <1>1, <1>3, <1>9
<1> QED BY <1>1, <1>2, <1>3, <1>4, <1>5, <1>6, <1>8, <1>9, <1>10

\* A unit that cannot be read fails the sweep; another run records it and goes on, or stops.
LEMMA SkipFacts ==
  ASSUME TypeInv, NEW w \in Worker, Skip(w)
  PROVE  \E u \in worker[w].todo :
    /\ worker' \in [Worker -> WorkerType] /\ worker[w].pc = "work"
    /\ trace' = [trace EXCEPT ![u] = IF kind = "relabel_all" THEN "skipped" ELSE trace[u]]
    /\ Unreadable(u)
    /\ \A v \in Worker : v # w => worker'[v] = worker[v]
    /\ \/ /\ kind = "error_sweep" /\ worker'[w].pc = "fail"
          /\ worker'[w].todo = worker[w].todo /\ worker'[w].done = worker[w].done
       \/ /\ kind # "error_sweep" /\ worker'[w].pc \in {"fail", "beat"}
          /\ worker'[w].pc = "beat" /\ kind # "reanalyze_all" => worker'[w].streak < Streak
          /\ worker'[w].pc = "fail" => kind # "reanalyze_all"
          /\ worker'[w].streak = worker[w].streak + 1
          /\ worker'[w].todo = worker[w].todo \ {u} /\ worker'[w].done = worker[w].done \cup {u}
          /\ worker'[w].counts.skipped = worker[w].counts.skipped + 1
          /\ kind # "drivable_backfill" => worker'[w].counts.frames = worker[w].counts.frames
<1> DEFINE u == Next1(w)
           k == worker[w]
<1>1. /\ worker \in [Worker -> WorkerType] /\ k \in WorkerType /\ k.pc = "work"
      /\ k.todo \in SUBSET Units /\ k.done \in SUBSET Units
      /\ k.counts \in Counts /\ Streak \in Nat /\ k.todo # {} /\ k.streak \in 0..Streak
  BY TypeFacts DEF Skip
<1>2. u \in k.todo /\ u \in Units BY <1>1, FirstUnit DEF Next1
<1>3. /\ trace' = [trace EXCEPT ![u] = IF kind = "relabel_all" THEN "skipped" ELSE trace[u]]
      /\ Unreadable(u)
  BY DEF Skip
<1>4. CASE kind = "error_sweep"
  <2> DEFINE new == [k EXCEPT !.pc = "fail"]
  <2>1. worker' = [worker EXCEPT ![w] = new] BY <1>4 DEF Skip
  <2>2. new \in WorkerType /\ new.pc = "fail" /\ new.todo = k.todo /\ new.done = k.done
    BY <1>1 DEF WorkerType
  <2> HIDE DEF new
  <2>3. /\ worker' \in [Worker -> WorkerType] /\ worker'[w] = new
        /\ \A v \in Worker : v # w => worker'[v] = worker[v]
    BY <1>1, <2>1, <2>2
  <2> QED BY <1>1, <1>2, <1>3, <1>4, <2>2, <2>3
<1>5. CASE kind # "error_sweep"
  <2> DEFINE streak == k.streak + 1
             pc == IF streak = Streak /\ kind # "reanalyze_all" THEN "fail" ELSE "beat"
             todo == k.todo \ {u}
             done == k.done \cup {u}
             frames == IF kind = "drivable_backfill" THEN k.counts.frames + 1 ELSE k.counts.frames
             skipped == k.counts.skipped + 1
             counts == [k.counts EXCEPT !.skipped = skipped, !.frames = frames]
             new == [k EXCEPT !.pc = pc, !.todo = @ \ {u}, !.done = @ \cup {u}, !.streak = streak,
                              !.counts.skipped = @ + 1,
                              !.counts.frames = IF kind = "drivable_backfill" THEN @ + 1 ELSE @]
  <2>1. worker' = [worker EXCEPT ![w] = new] BY <1>5 DEF Skip
  <2>2. k.streak < Streak BY <1>1 DEF TypeInv, StreakOK
  <2>3. /\ pc \in {"fail", "beat"} /\ todo \in SUBSET Units /\ done \in SUBSET Units
        /\ streak \in 0..Streak
        /\ pc = "beat" /\ kind # "reanalyze_all" => streak < Streak
        /\ pc = "fail" => kind # "reanalyze_all"
    BY <1>1, <1>2, <2>2
  <2>4. /\ counts \in Counts /\ counts.skipped = k.counts.skipped + 1
        /\ kind # "drivable_backfill" => counts.frames = k.counts.frames
    <3>1. k.counts.skipped \in Nat /\ k.counts.frames \in Nat BY <1>1 DEF Counts
    <3>2. frames \in Nat /\ (kind # "drivable_backfill" => frames = k.counts.frames) BY <3>1
    <3>3. k.counts \in Counts /\ skipped \in Nat BY <1>1, <3>1
    <3>4. /\ counts \in Counts /\ counts.skipped = skipped /\ counts.frames = frames
      <4> HIDE DEF frames, skipped, k
      <4> QED BY <3>2, <3>3 DEF Counts
    <3> HIDE DEF frames, counts
    <3> QED BY <3>2, <3>4
  <2>5. /\ new \in WorkerType /\ new.pc = pc /\ new.todo = todo /\ new.done = done
        /\ new.counts = counts /\ new.streak = streak
    <3>1. new = [k EXCEPT !.pc = pc, !.todo = todo, !.done = done, !.streak = streak,
                          !.counts = counts]
      BY <1>1 DEF WorkerType
    <3> HIDE DEF pc, todo, done, counts, new, streak
    <3> QED BY <1>1, <2>3, <2>4, <3>1 DEF WorkerType
  <2> HIDE DEF new
  <2>6. /\ worker' \in [Worker -> WorkerType] /\ worker'[w] = new
        /\ \A v \in Worker : v # w => worker'[v] = worker[v]
    BY <1>1, <2>1, <2>5
  <2> HIDE DEF pc, counts
  <2> QED BY <1>1, <1>2, <1>3, <1>5, <2>3, <2>4, <2>5, <2>6
<1> QED BY <1>4, <1>5

\* What a run's row keeps when only its status and its heartbeat change.
Kept == run'.done = run.done /\ run'.counts = run.counts

LEMMA RunningFacts ==
  ASSUME TypeInv, run' = [run EXCEPT !.status = "running", !.fresh = TRUE]
  PROVE  run' \in RunType /\ run'.status = "running" /\ Kept
BY TypeFacts DEF RunType, Status, Kept

LEMMA LaunchFacts ==
  ASSUME TypeInv, NEW w \in Worker, Launch(w)
  PROVE  /\ worker' \in [Worker -> WorkerType] /\ worker[w].pc = "off"
         /\ worker'[w].pc = "spawned" /\ worker'[w].resumed = FALSE /\ worker'[w].todo = {}
         /\ worker'[w].done = {} /\ worker'[w].streak = 0
         /\ \A v \in Worker : v # w => worker'[v] = worker[v]
         /\ run' \in RunType /\ run'.status = "running" /\ Kept
         /\ up /\ run.status = "absent"
<1>1. Spawn(w, FALSE) /\ worker \in [Worker -> WorkerType] BY TypeFacts DEF Launch
<1>2. FALSE \in BOOLEAN OBVIOUS
<1>3. /\ worker' \in [Worker -> WorkerType] /\ worker[w].pc = "off"
      /\ worker'[w].pc = "spawned" /\ worker'[w].resumed = FALSE /\ worker'[w].todo = {}
      /\ worker'[w].done = {} /\ worker'[w].streak = 0
      /\ \A v \in Worker : v # w => worker'[v] = worker[v]
  BY <1>1, <1>2, SpawnFacts
<1> QED BY <1>3, RunningFacts DEF Launch

LEMMA ClaimFacts ==
  ASSUME TypeInv, NEW w \in Worker, Claim(w)
  PROVE  /\ worker' \in [Worker -> WorkerType] /\ worker[w].pc = "off"
         /\ worker'[w].pc = "spawned" /\ worker'[w].resumed = TRUE /\ worker'[w].todo = {}
         /\ worker'[w].done = {} /\ worker'[w].streak = 0
         /\ \A v \in Worker : v # w => worker'[v] = worker[v]
         /\ run' \in RunType /\ run'.status = "running" /\ Kept
         /\ clicks > 0 /\ clicks' = clicks - 1 /\ clicks' \in 0..MaxClicks
<1>1. Spawn(w, TRUE) /\ worker \in [Worker -> WorkerType] BY TypeFacts DEF Claim
<1>2. TRUE \in BOOLEAN OBVIOUS
<1>3. /\ worker' \in [Worker -> WorkerType] /\ worker[w].pc = "off"
      /\ worker'[w].pc = "spawned" /\ worker'[w].resumed = TRUE /\ worker'[w].todo = {}
      /\ worker'[w].done = {} /\ worker'[w].streak = 0
      /\ \A v \in Worker : v # w => worker'[v] = worker[v]
  BY <1>1, <1>2, SpawnFacts
<1>4. clicks > 0 /\ clicks' = clicks - 1 /\ clicks' \in 0..MaxClicks
  BY AgentRunsAssumption DEF Claim, TypeInv, TypeOK
<1> QED BY <1>3, <1>4, RunningFacts DEF Claim

LEMMA ListFacts ==
  ASSUME TypeInv, NEW w \in Worker, ListChild(w)
  PROVE  /\ worker[w].pc = "child"
         /\ worker' \in [Worker -> WorkerType] /\ worker'[w] = [worker[w] EXCEPT !.pc = "beat"]
         /\ worker'[w].pc = "beat" /\ worker'[w].todo = worker[w].todo
         /\ worker'[w].done = worker[w].done /\ worker'[w].counts = worker[w].counts
         /\ worker'[w].streak = worker[w].streak
         /\ \A v \in Worker : v # w => worker'[v] = worker[v]
         /\ run' \in RunType /\ run'.status = run.status /\ Kept
<1>1. /\ run \in RunType /\ worker \in [Worker -> WorkerType] /\ worker[w] \in WorkerType
      /\ worker[w].kids \in SUBSET Units
  BY TypeFacts
<1> DEFINE new == [worker[w] EXCEPT !.pc = "beat"]
           kids == worker[w].kids
<1>2. /\ new \in WorkerType /\ new.pc = "beat" /\ new.todo = worker[w].todo
      /\ new.done = worker[w].done /\ new.counts = worker[w].counts /\ new.streak = worker[w].streak
  BY <1>1 DEF WorkerType
<1>3. worker' = [worker EXCEPT ![w] = new] /\ run' = [run EXCEPT !.kids = kids] BY DEF ListChild
<1>4. kids \in SUBSET Units BY <1>1
<1>5. run' \in RunType /\ run'.status = run.status /\ Kept
  <2> HIDE DEF kids
  <2> QED BY <1>1, <1>3, <1>4 DEF RunType, Kept
<1>6. worker' \in [Worker -> WorkerType] /\ worker'[w] = new /\ \A v \in Worker : v # w => worker'[v] = worker[v]
  <2> HIDE DEF new
  <2> QED BY <1>1, <1>2, <1>3
<1> QED BY <1>2, <1>5, <1>6 DEF ListChild

LEMMA BeatFacts ==
  ASSUME TypeInv, NEW w \in Worker, Beat(w)
  PROVE  /\ worker[w].pc = "beat"
         /\ worker' \in [Worker -> WorkerType]
         /\ worker'[w].pc = (IF worker[w].streak = Streak THEN "end" ELSE "work")
         /\ worker'[w].todo = worker[w].todo /\ worker'[w].done = worker[w].done
         /\ worker'[w].counts = worker[w].counts /\ worker'[w].streak = worker[w].streak
         /\ \A v \in Worker : v # w => worker'[v] = worker[v]
         /\ run' \in RunType /\ run'.done = worker[w].done /\ run'.counts = worker[w].counts
         /\ run'.status = (IF run.status \in Terminal THEN run.status ELSE "running")
<1> DEFINE done == worker[w].done
           counts == worker[w].counts
           status == IF run.status \in Terminal THEN run.status ELSE "running"
           pc == IF worker[w].streak = Streak THEN "end" ELSE "work"
           new == [worker[w] EXCEPT !.pc = pc]
<1>1. /\ run \in RunType /\ worker \in [Worker -> WorkerType] /\ worker[w] \in WorkerType
      /\ done \in SUBSET Units /\ counts \in Counts
  BY TypeFacts
<1>2. status \in Status /\ pc \in {"work", "end"} BY DEF Status
<1>3. run' = [run EXCEPT !.done = done, !.counts = counts, !.fresh = TRUE, !.status = status]
  BY DEF Beat
<1>4. worker' = [worker EXCEPT ![w] = new] BY DEF Beat
<1>5. /\ new \in WorkerType /\ new.pc = pc /\ new.todo = worker[w].todo
      /\ new.done = worker[w].done /\ new.counts = worker[w].counts /\ new.streak = worker[w].streak
  <2> HIDE DEF pc
  <2> QED BY <1>1, <1>2 DEF WorkerType
<1>6. run' \in RunType /\ run'.done = done /\ run'.counts = counts /\ run'.status = status
  <2> HIDE DEF status, done, counts
  <2> QED BY <1>1, <1>2, <1>3 DEF RunType
<1>7. worker' \in [Worker -> WorkerType] /\ worker'[w] = new /\ \A v \in Worker : v # w => worker'[v] = worker[v]
  <2> HIDE DEF new
  <2> QED BY <1>1, <1>4, <1>5
<1> QED BY <1>5, <1>6, <1>7 DEF Beat

LEMMA FinishFacts ==
  ASSUME TypeInv, NEW w \in Worker, Finish(w)
  PROVE  /\ worker[w].pc = "end" \/ (worker[w].pc = "work" /\ worker[w].todo = {})
         /\ run' \in RunType /\ worker' \in [Worker -> WorkerType] /\ Ends(w, worker[w].counts)
<1> DEFINE counts == worker[w].counts
           kids == IF kind = "relabel_all" THEN worker[w].kids ELSE run.kids
<1>1. /\ run \in RunType /\ worker \in [Worker -> WorkerType] /\ worker[w] \in WorkerType
      /\ kids \in SUBSET Units /\ counts \in Counts
  BY TypeFacts
<1>2. run' = [run EXCEPT !.status = "committed", !.counts = counts, !.kids = kids] BY DEF Finish
<1>3. /\ run' \in RunType /\ run'.status = "committed" /\ run'.counts = counts
      /\ run'.done = run.done
  <2> HIDE DEF counts, kids
  <2> QED BY <1>1, <1>2 DEF RunType, Status, Terminal
<1>4. Leave(w) BY DEF Finish
<1>5. /\ worker' \in [Worker -> WorkerType] /\ worker'[w] = Off
      /\ \A v \in Worker : v # w => worker'[v] = worker[v]
  BY <1>1, <1>4, LeaveFacts
<1> QED BY <1>3, <1>5 DEF Finish, Ends

LEMMA FailFacts ==
  ASSUME TypeInv, NEW w \in Worker, Fail(w)
  PROVE  /\ worker[w].pc = "fail"
         /\ run' \in RunType /\ run'.status \in {"interrupted", "error"} /\ run'.done = run.done
         /\ kind # "drivable_backfill" => run'.counts = run.counts
         /\ worker' \in [Worker -> WorkerType] /\ worker'[w] = Off
         /\ \A v \in Worker : v # w => worker'[v] = worker[v]
<1> DEFINE counts == IF kind = "drivable_backfill" THEN worker[w].counts ELSE run.counts
           status == FailStatus(kind)
<1>1. /\ run \in RunType /\ worker \in [Worker -> WorkerType]
      /\ counts \in Counts
      /\ kind # "drivable_backfill" => counts = run.counts
  BY TypeFacts
<1>2. status \in {"interrupted", "error"} /\ status \in Status BY DEF FailStatus, Status, Terminal
<1>3. run' = [run EXCEPT !.status = status, !.counts = counts] BY DEF Fail
<1>4. run' \in RunType /\ run'.status = status /\ run'.counts = counts /\ run'.done = run.done
  <2> HIDE DEF counts, status
  <2> QED BY <1>1, <1>2, <1>3 DEF RunType
<1>5. Leave(w) BY DEF Fail
<1>6. /\ worker' \in [Worker -> WorkerType] /\ worker'[w] = Off
      /\ \A v \in Worker : v # w => worker'[v] = worker[v]
  BY <1>1, <1>5, LeaveFacts
<1> QED BY <1>1, <1>2, <1>4, <1>6 DEF Fail

LEMMA TrainingFacts ==
  ASSUME TypeInv, NEW w \in Worker, TrainingHoldsCard(w)
  PROVE  /\ worker[w].pc = "spawned" /\ kind \in {"error_sweep", "relabel_all"}
         /\ worker[w].resumed => "resume" \in MayTrain
         /\ run' \in RunType /\ worker' \in [Worker -> WorkerType] /\ Ends(w, NoCounts)
<1>1. NoCounts \in Counts BY OffFacts
<1>2. Commit(NoCounts) /\ Leave(w) BY DEF TrainingHoldsCard
<1> HIDE DEF NoCounts
<1>3. run' \in RunType /\ worker' \in [Worker -> WorkerType] /\ Ends(w, NoCounts)
  BY <1>1, <1>2, CommitFacts
<1> QED BY <1>3 DEF TrainingHoldsCard

\* A unit that has been read, or given up for good, and what that leaves of the selection.
Read(u) == trace[u] # "none"
StillRead == \A u \in Units : Read(u) => Read(u)'

LEMMA SelectedShrinks ==
  ASSUME TypeInv, kind' = kind, StillRead, NEW u \in Units, u \in Selected \/ Read(u)
  PROVE  u \in Selected' \/ Read(u)'
<1> DEFINE S == {v \in Units : trace[v] = "none"}
           T == {v \in Units : trace'[v] = "none"}
<1>1. CASE ~Read(u)' /\ kind \in {"relabel_all", "drivable_backfill"}
  <2>1. T \subseteq S BY DEF StillRead, Read
  <2>2. u \in T BY <1>1 DEF Read
  <2>3. u \in First(S) BY <1>1, <2>1, <2>2 DEF Selected, StillRead, Read
  <2>4. S \in SUBSET Units /\ T \in SUBSET S BY <2>1
  <2> HIDE DEF S, T
  <2>5. u \in First(T) BY <2>2, <2>3, <2>4, WindowShrinks
  <2>6. Selected' = First(T) BY <1>1 DEF Selected, T, First
  <2> QED BY <2>5, <2>6
<1>2. CASE ~Read(u)' /\ kind \notin {"relabel_all", "drivable_backfill"}
  <2>1. Selected = First(Units) /\ Selected' = First(Units) BY <1>2 DEF Selected, First
  <2>2. u \in Selected BY <1>2 DEF StillRead, Read
  <2> QED BY <2>1, <2>2
<1> QED BY <1>1, <1>2

\* The steps that no task takes.  All but a crash leave the tasks alone, and none changes what a
\* run has done.
Quiet == Crash \/ Age \/ Start \/ Click \/ Revert \/ StoreDown \/ StoreUp

LEMMA QuietFacts ==
  ASSUME TypeInv, Quiet
  PROVE  /\ run' \in RunType /\ Kept /\ history' \in HistoryType
         /\ history'.scope = history.scope /\ history'.times = history.times
         /\ trace' \in [Units -> Trace] /\ StillRead
         /\ aged' \subseteq Units /\ clicks' \in 0..MaxClicks /\ up' \in BOOLEAN /\ down' \in BOOLEAN
         /\ worker' = worker \/ worker' = [w \in Worker |-> Off]
         /\ run'.status = "absent" => run.status = "absent"
         /\ run'.status = "committed" => run.status = "committed"
         /\ trace' # trace => ~up \/ run.status = "committed"
         /\ \/ /\ up /\ ~up' /\ worker' = [w \in Worker |-> Off] /\ clicks' = 0
            \/ /\ worker' = worker /\ clicks' = clicks /\ up' = up /\ run'.status = run.status
            \/ /\ worker' = worker /\ clicks' = clicks /\ up' = up /\ run.status = "committed"
            \/ /\ worker' = worker /\ clicks' = clicks /\ ~up /\ up'
            \/ /\ worker' = worker /\ clicks' = clicks + 1 /\ up /\ up' = up
               /\ run.status = "interrupted" /\ run' = run
<1>1. /\ run \in RunType /\ history \in HistoryType /\ trace \in [Units -> Trace]
      /\ aged \subseteq Units /\ clicks \in 0..MaxClicks /\ up \in BOOLEAN /\ down \in BOOLEAN
      /\ MaxClicks \in Nat /\ MaxCrashes \in Nat /\ MaxOutages \in Nat
  BY TypeFacts, AgentRunsAssumption DEF TypeInv, TypeOK
<1> HIDE DEF Off
<1>2. CASE Crash
  <2>1. /\ history' \in HistoryType /\ history'.scope = history.scope
        /\ history'.times = history.times
    BY <1>1, <1>2 DEF Crash, HistoryType
  <2>2. /\ run' = run /\ trace' = trace /\ aged' = aged /\ down' = down
        /\ up /\ up' = FALSE /\ clicks' = 0 /\ worker' = [w \in Worker |-> Off]
    BY <1>2 DEF Crash
  <2>3. Kept /\ StillRead BY <2>2 DEF Kept, StillRead, Read
  <2>4. clicks' \in 0..MaxClicks BY <1>1, <2>2
  <2>5. up /\ ~up' /\ worker' = [w \in Worker |-> Off] /\ clicks' = 0 BY <2>2
  <2> QED BY <1>1, <2>1, <2>2, <2>3, <2>4, <2>5
<1>3. CASE Age
  <2>1. run' \in RunType /\ run'.status = run.status /\ Kept
    BY <1>1, <1>3 DEF Age, RunType, Kept
  <2> QED BY <1>1, <1>3, <2>1 DEF Age, StillRead, Read
<1>4. CASE Start
  <2>1. run' \in RunType /\ run'.status \in {run.status, "interrupted"} /\ Kept
    BY <1>1, <1>4 DEF Start, RunType, Kept, Status
  <2>2. trace' \in [Units -> Trace] /\ StillRead
    BY <1>1, <1>4 DEF Start, StillRead, Read, Trace
  <2>3. /\ history' \in HistoryType /\ history'.scope = history.scope
        /\ history'.times = history.times
    <3> DEFINE missed == run.status = "running" /\ run.fresh
    <3>1. missed \in BOOLEAN /\ history' = [history EXCEPT !.missed = missed]
      BY <1>4 DEF Start
    <3> HIDE DEF missed
    <3> QED BY <1>1, <3>1 DEF HistoryType
  <2> QED BY <1>1, <1>4, <2>1, <2>2, <2>3 DEF Start
<1>5. CASE Click
  <2>1. clicks' \in 0..MaxClicks /\ clicks' = clicks + 1 BY <1>1, <1>5 DEF Click
  <2> QED BY <1>1, <1>5, <2>1 DEF Click, Kept, StillRead, Read
<1>6. CASE Revert
  <2>1. run' \in RunType /\ run'.status = "reverted" /\ Kept
    BY <1>1, <1>6 DEF Revert, RunType, Kept, Status, Terminal
  <2>2. trace' \in [Units -> Trace] /\ StillRead
    BY <1>1, <1>6 DEF Revert, StillRead, Read, Trace
  <2> QED BY <1>1, <1>6, <2>1, <2>2 DEF Revert
<1>7. CASE StoreDown
  <2>1. /\ history' \in HistoryType /\ history'.scope = history.scope
        /\ history'.times = history.times
    BY <1>1, <1>7 DEF StoreDown, HistoryType
  <2> QED BY <1>1, <1>7, <2>1 DEF StoreDown, Kept, StillRead, Read
<1>8. CASE StoreUp BY <1>1, <1>8 DEF StoreUp, Kept, StillRead, Read
<1> QED BY <1>2, <1>3, <1>4, <1>5, <1>6, <1>7, <1>8 DEF Quiet

\* What no step of a task changes.
LEMMA TaskFacts ==
  ASSUME TypeInv, NEW w \in Worker, Launch(w) \/ Claim(w) \/ Step(w)
  PROVE  /\ kind' = kind /\ up' = up /\ down' = down /\ aged' = aged /\ StillRead
         /\ trace' \in [Units -> Trace] /\ history' \in HistoryType
         /\ ~Claim(w) => clicks' = clicks
         /\ ~Begin(w) => history'.scope = history.scope
         /\ ~Work(w) => history'.times = history.times
         /\ ~Work(w) /\ ~Skip(w) => trace' = trace
<1>1. trace \in [Units -> Trace] /\ history \in HistoryType BY TypeFacts DEF TypeInv, TypeOK
<1>2. /\ kind' = kind /\ up' = up /\ down' = down /\ aged' = aged
      /\ ~Claim(w) => clicks' = clicks
      /\ ~Begin(w) /\ ~Work(w) => history' = history
      /\ ~Work(w) /\ ~Skip(w) => trace' = trace
  BY DEF Step, Launch, Claim, TrainingHoldsCard, Begin, Work, Skip, ListChild, Beat, Finish, Fail
<1>3. Begin(w) => /\ history' \in HistoryType /\ history'.times = history.times
  BY BeginFacts
<1>4. CASE Work(w)
  <2>1. PICK u \in worker[w].todo :
          trace' = [trace EXCEPT ![u] = "committed"] /\ history' \in HistoryType
          /\ history'.scope = history.scope
    BY <1>4, WorkFacts
  <2>2. trace' \in [Units -> Trace] /\ StillRead BY <1>1, <2>1 DEF StillRead, Read, Trace
  <2>3. ~Begin(w) BY <1>4 DEF Work, Begin
  <2> QED BY <1>2, <1>4, <2>1, <2>2, <2>3
<1>5. CASE Skip(w)
  <2>1. PICK u \in worker[w].todo :
          trace' = [trace EXCEPT ![u] = IF kind = "relabel_all" THEN "skipped" ELSE trace[u]]
    BY <1>5, SkipFacts
  <2>2. trace' \in [Units -> Trace] /\ StillRead BY <1>1, <2>1 DEF StillRead, Read, Trace
  <2> QED BY <1>1, <1>2, <1>3, <1>5, <2>2 DEF Skip
<1>6. CASE ~Work(w) /\ ~Skip(w)
  <2>1. StillRead BY <1>2, <1>6 DEF StillRead, Read
  <2> QED BY <1>1, <1>2, <1>3, <1>6, <2>1
<1> QED BY <1>4, <1>5, <1>6

LEMMA TypeStep == TypeInv /\ [Next]_vars => TypeInv'
<1> SUFFICES ASSUME TypeInv, [Next]_vars PROVE TypeInv' OBVIOUS
<1>0. /\ kind \in Kinds /\ trace \in [Units -> Trace] /\ aged \subseteq Units
      /\ clicks \in 0..MaxClicks /\ up \in BOOLEAN /\ down \in BOOLEAN
      /\ run \in RunType /\ worker \in [Worker -> WorkerType] /\ history \in HistoryType
      /\ Streak \in Nat /\ Streak # 0 /\ StreakOK
  BY TypeFacts DEF TypeInv, TypeOK
<1>1. CASE UNCHANGED vars BY <1>1 DEF vars, TypeInv, TypeOK, StreakOK
<1>2. ASSUME NEW w \in Worker, Launch(w) \/ Claim(w) \/ Step(w) PROVE TypeInv'
  <2>1. /\ kind' = kind /\ up' = up /\ down' = down /\ aged' = aged
        /\ trace' \in [Units -> Trace] /\ history' \in HistoryType
        /\ ~Claim(w) => clicks' = clicks
    BY <1>2, TaskFacts
  <2>2. clicks' \in 0..MaxClicks BY <1>0, <2>1, ClaimFacts
  <2>3. /\ run' \in RunType /\ worker' \in [Worker -> WorkerType]
        /\ \A v \in Worker : v # w => worker'[v] = worker[v]
        /\ worker'[w].pc \in {"spawned", "work"} => worker'[w].streak < Streak
    <3>1. CASE Launch(w)
      <4>1. /\ run' \in RunType /\ worker' \in [Worker -> WorkerType] /\ worker'[w].streak = 0
            /\ \A v \in Worker : v # w => worker'[v] = worker[v]
        BY <3>1, LaunchFacts
      <4> QED BY <1>0, <4>1
    <3>2. CASE Claim(w)
      <4>1. /\ run' \in RunType /\ worker' \in [Worker -> WorkerType] /\ worker'[w].streak = 0
            /\ \A v \in Worker : v # w => worker'[v] = worker[v]
        BY <3>2, ClaimFacts
      <4> QED BY <1>0, <4>1
    <3>3. CASE TrainingHoldsCard(w)
      BY <3>3, TrainingFacts, OffFacts DEF Ends
    <3>4. CASE Begin(w)
      <4>1. /\ run' \in RunType /\ worker' \in [Worker -> WorkerType] /\ worker[w].pc = "spawned"
            /\ \/ \E counts \in Counts : Ends(w, counts)
               \/ /\ \A v \in Worker : v # w => worker'[v] = worker[v]
                  /\ worker'[w].streak = worker[w].streak
        BY <3>4, BeginFacts
      <4>2. worker[w].streak < Streak BY <1>0, <4>1 DEF StreakOK
      <4> QED BY <4>1, <4>2, OffFacts DEF Ends
    <3>5. CASE Work(w)
      <4>1. /\ worker' \in [Worker -> WorkerType] /\ worker'[w].streak = 0
            /\ \A v \in Worker : v # w => worker'[v] = worker[v]
        BY <3>5, WorkFacts
      <4>2. run' = run BY <3>5 DEF Work
      <4> QED BY <1>0, <4>1, <4>2
    <3>6. CASE Skip(w)
      <4>1. /\ worker' \in [Worker -> WorkerType] /\ worker'[w].pc \in {"fail", "beat"}
            /\ \A v \in Worker : v # w => worker'[v] = worker[v]
        BY <3>6, SkipFacts
      <4>2. run' = run BY <3>6 DEF Skip
      <4> QED BY <1>0, <4>1, <4>2
    <3>7. CASE ListChild(w) BY <3>7, ListFacts
    <3>8. CASE Beat(w)
      <4>1. /\ run' \in RunType /\ worker' \in [Worker -> WorkerType]
            /\ worker'[w].pc = (IF worker[w].streak = Streak THEN "end" ELSE "work")
            /\ worker'[w].streak = worker[w].streak
            /\ \A v \in Worker : v # w => worker'[v] = worker[v]
        BY <3>8, BeatFacts
      <4>2. worker[w].streak \in 0..Streak BY TypeFacts
      <4> QED BY <1>0, <4>1, <4>2
    <3>9. CASE Finish(w) BY <3>9, FinishFacts, OffFacts DEF Ends
    <3>10. CASE Fail(w) BY <3>10, FailFacts, OffFacts
    <3> QED BY <1>2, <3>1, <3>2, <3>3, <3>4, <3>5, <3>6, <3>7, <3>8, <3>9, <3>10 DEF Step
  <2>4. StreakOK' BY <1>0, <2>3 DEF StreakOK
  <2> QED BY <1>0, <2>1, <2>2, <2>3, <2>4 DEF TypeInv, TypeOK, RunType, WorkerType, HistoryType
<1>3. CASE Quiet
  <2>1. /\ run' \in RunType /\ history' \in HistoryType
        /\ trace' \in [Units -> Trace]
        /\ aged' \subseteq Units /\ clicks' \in 0..MaxClicks /\ up' \in BOOLEAN /\ down' \in BOOLEAN
        /\ worker' = worker \/ worker' = [w \in Worker |-> Off]
    BY <1>3, QuietFacts
  <2>2. kind' = kind BY <1>3 DEF Quiet, Crash, Age, Start, Click, Revert, StoreDown, StoreUp
  <2>3. worker' \in [Worker -> WorkerType] /\ StreakOK'
    <3>1. CASE worker' = worker BY <1>0, <3>1 DEF StreakOK
    <3>2. CASE worker' = [w \in Worker |-> Off]
      <4> HIDE DEF Off
      <4> QED BY <3>2, OffFacts DEF StreakOK
    <3> QED BY <2>1, <3>1, <3>2
  <2> QED BY <1>0, <2>1, <2>2, <2>3 DEF TypeInv, TypeOK, RunType, WorkerType, HistoryType
<1> QED BY <1>1, <1>2, <1>3 DEF Next, Quiet

LEMMA TypeInit == Init => TypeInv
<1> SUFFICES ASSUME Init PROVE TypeInv OBVIOUS
<1>1. worker = [w \in Worker |-> Off] BY DEF Init
<1>2. worker \in [Worker -> WorkerType] /\ StreakOK
  <2> HIDE DEF Off
  <2> QED BY <1>1, OffFacts DEF StreakOK
<1>3. run \in RunType
  <2> HIDE DEF NoCounts
  <2> QED BY OffFacts DEF Init, RunType, Status
<1>4. history \in HistoryType BY AgentRunsAssumption DEF Init, HistoryType
<1>5. /\ kind \in Kinds /\ trace \in [Units -> Trace] /\ aged \subseteq Units
      /\ up \in BOOLEAN /\ down \in BOOLEAN
  BY DEF Init, Trace
<1>6. clicks \in 0..MaxClicks BY AgentRunsAssumption DEF Init
<1> QED BY <1>2, <1>3, <1>4, <1>5, <1>6 DEF TypeInv, TypeOK, RunType, WorkerType, HistoryType

(* Every run's row, every task and every record of a unit stays of its     *)
(* type: no status outside those the code writes, no cursor of anything    *)
(* but units, no count below zero, no streak longer than the breaker.      *)
THEOREM TypeCorrect == Spec => []TypeOK
<1>1. Init => TypeInv BY TypeInit
<1>2. TypeInv /\ [Next]_vars => TypeInv' BY TypeStep
<1>3. TypeInv => TypeOK BY DEF TypeInv
<1> QED BY <1>1, <1>2, <1>3, PTL DEF Spec

-------------------------------------------------------------------------------
(* One task at a time.  With at most one request to resume in flight, the  *)
(* row says running exactly as long as its task does.                      *)

Active(w) == worker[w].pc # "off"

OneInv ==
  /\ \A v, w \in Worker : Active(v) /\ Active(w) => v = w
  /\ \A w \in Worker : Active(w) => up /\ clicks = 0 /\ run.status = "running"
  /\ clicks # 0 => up /\ run.status = "interrupted"
  /\ run.status = "absent" => run.done = {} /\ run.counts = NoCounts /\ history.scope = {}

LEMMA OneStep ==
  ASSUME MaxClicks <= 1, TypeInv, OneInv, [Next]_vars
  PROVE  OneInv'
<1> HIDE DEF NoCounts, Off
<1>0. clicks \in Nat /\ (clicks # 0 => clicks = 1)
  BY AgentRunsAssumption DEF TypeInv, TypeOK
<1>1. CASE UNCHANGED vars BY <1>1 DEF vars, OneInv, Active
<1>2. ASSUME NEW w \in Worker, Launch(w) \/ Claim(w) \/ Step(w) PROVE OneInv'
  <2>1. up' = up /\ (~Claim(w) => clicks' = clicks) BY <1>2, TaskFacts
  <2>2. CASE Launch(w)
    <3>1. /\ up /\ run.status = "absent" /\ run'.status = "running"
          /\ \A v \in Worker : v # w => worker'[v] = worker[v]
      BY <2>2, LaunchFacts
    <3>2. clicks' = 0 /\ \A v \in Worker : v # w => worker'[v].pc = "off"
      BY <2>1, <2>2, <3>1 DEF OneInv, Active, Launch
    <3> QED BY <2>1, <3>1, <3>2 DEF OneInv, Active
  <2>3. CASE Claim(w)
    <3>1. /\ clicks # 0 /\ clicks' = clicks - 1 /\ run'.status = "running"
          /\ \A v \in Worker : v # w => worker'[v] = worker[v]
      <4>1. /\ clicks > 0 /\ clicks' = clicks - 1 /\ run'.status = "running"
            /\ \A v \in Worker : v # w => worker'[v] = worker[v]
        BY <2>3, ClaimFacts
      <4>2. clicks # 0 BY <1>0, <4>1
      <4> QED BY <4>1, <4>2
    <3>2. clicks' = 0 /\ up /\ \A v \in Worker : v # w => worker'[v].pc = "off"
      BY <1>0, <3>1 DEF OneInv, Active
    <3> QED BY <2>1, <3>1, <3>2 DEF OneInv, Active
  <2>4. CASE Step(w)
    <3>1. Active(w) BY <2>4 DEF Active, Step, TrainingHoldsCard, Begin, Work, Skip, ListChild, Beat, Finish, Fail
    <3>2. /\ up' /\ clicks' = 0 /\ run.status = "running"
          /\ \A v \in Worker : v # w => worker[v].pc = "off"
      BY <2>1, <2>4, <3>1 DEF OneInv, Active, Step, TrainingHoldsCard, Begin, Work, Skip, ListChild, Beat, Finish, Fail
    <3>3. /\ \A v \in Worker : v # w => worker'[v] = worker[v]
          /\ run'.status # "absent"
          /\ worker'[w].pc # "off" => run'.status = "running"
      <4>1. CASE TrainingHoldsCard(w) BY <4>1, TrainingFacts, OffFacts DEF Ends
      <4>2. CASE Begin(w) BY <3>2, <4>2, BeginFacts, OffFacts DEF Ends
      <4>3. CASE Work(w)
        <5>1. \A v \in Worker : v # w => worker'[v] = worker[v] BY <4>3, WorkFacts
        <5> QED BY <3>2, <4>3, <5>1 DEF Work
      <4>4. CASE Skip(w)
        <5>1. \A v \in Worker : v # w => worker'[v] = worker[v] BY <4>4, SkipFacts
        <5> QED BY <3>2, <4>4, <5>1 DEF Skip
      <4>5. CASE ListChild(w) BY <3>2, <4>5, ListFacts
      <4>6. CASE Beat(w) BY <3>2, <4>6, BeatFacts DEF Terminal
      <4>7. CASE Finish(w) BY <4>7, FinishFacts, OffFacts DEF Ends
      <4>8. CASE Fail(w) BY <4>8, FailFacts, OffFacts
      <4> QED BY <2>4, <4>1, <4>2, <4>3, <4>4, <4>5, <4>6, <4>7, <4>8 DEF Step
    <3> QED BY <3>2, <3>3 DEF OneInv, Active
  <2> QED BY <1>2, <2>2, <2>3, <2>4
<1>3. CASE Quiet
  <2>1. /\ run'.status = "absent" => run.status = "absent"
        /\ run'.done = run.done /\ run'.counts = run.counts /\ history'.scope = history.scope
    BY <1>3, QuietFacts DEF Kept
  <2>2. run'.status = "absent" => run'.done = {} /\ run'.counts = NoCounts /\ history'.scope = {}
    BY <2>1 DEF OneInv
  <2>3. CASE worker' = [w \in Worker |-> Off] /\ clicks' = 0
    <3>1. \A w \in Worker : worker'[w].pc = "off" BY <2>3, OffFacts
    <3> QED BY <2>2, <2>3, <3>1 DEF OneInv, Active
  <2>4. CASE worker' = worker /\ clicks' = clicks /\ up' = up /\ run'.status = run.status
    BY <2>2, <2>4 DEF OneInv, Active
  <2>5. CASE worker' = worker /\ clicks' = clicks /\ up' = up /\ run.status = "committed"
    BY <2>2, <2>5 DEF OneInv, Active
  <2>6. CASE worker' = worker /\ clicks' = clicks /\ ~up /\ up'
    BY <2>2, <2>6 DEF OneInv, Active
  <2>7. CASE /\ worker' = worker /\ clicks' = clicks + 1 /\ up /\ up' = up
             /\ run.status = "interrupted" /\ run' = run
    BY <2>2, <2>7 DEF OneInv, Active
  <2> QED BY <1>3, <2>3, <2>4, <2>5, <2>6, <2>7, QuietFacts
<1> QED BY <1>1, <1>2, <1>3 DEF Next, Quiet

LEMMA AllOff == Init => \A w \in Worker : worker[w].pc = "off"
<1> SUFFICES ASSUME Init PROVE \A w \in Worker : worker[w].pc = "off" OBVIOUS
<1>1. worker = [w \in Worker |-> Off] BY DEF Init
<1> HIDE DEF Off
<1> QED BY <1>1, OffFacts

LEMMA OneInit == Init => OneInv
<1> SUFFICES ASSUME Init PROVE OneInv OBVIOUS
<1>1. \A w \in Worker : worker[w].pc = "off" BY AllOff
<1>2. /\ clicks = 0 /\ run.done = {} /\ run.counts = NoCounts /\ history.scope = {}
  <2> HIDE DEF NoCounts
  <2> QED BY DEF Init
<1> QED BY <1>1, <1>2 DEF OneInv, Active

(* What a task has left and has done, against the cursor of its run.  A    *)
(* run that was not resumed starts from nothing.                           *)
CursorInv == \A w \in Worker : Active(w) =>
  /\ worker[w].pc = "spawned" /\ ~worker[w].resumed =>
       run.done = {} /\ run.counts = NoCounts /\ history.scope = {}
  /\ worker[w].pc = "spawned" => worker[w].streak = 0
  /\ worker[w].todo \cap worker[w].done = {}
  /\ worker[w].pc \in {"work", "end"} => worker[w].done = run.done
  /\ kind = "relabel_all" => \A u \in worker[w].todo : trace[u] = "none"

LEMMA CursorStep ==
  ASSUME TypeInv, OneInv, CursorInv, [Next]_vars
  PROVE  CursorInv'
<1> HIDE DEF NoCounts, Off
<1>1. CASE UNCHANGED vars BY <1>1 DEF vars, CursorInv, Active
<1>2. ASSUME NEW w \in Worker, Launch(w) \/ Claim(w) PROVE CursorInv'
  <2>1. \A v \in Worker : worker[v].pc = "off"
    <3>1. CASE Launch(w) BY <3>1 DEF Launch, OneInv, Active
    <3>2. CASE Claim(w)
      <4>1. clicks > 0 /\ clicks \in Nat BY <3>2, AgentRunsAssumption DEF Claim, TypeInv, TypeOK
      <4>2. clicks # 0 BY <4>1
      <4> QED BY <4>2 DEF OneInv, Active
    <3> QED BY <1>2, <3>1, <3>2
  <2>2. /\ worker'[w].pc = "spawned" /\ worker'[w].todo = {} /\ worker'[w].streak = 0
        /\ \A v \in Worker : v # w => worker'[v] = worker[v]
        /\ ~worker'[w].resumed => run.status = "absent"
        /\ Kept
    BY <1>2, LaunchFacts, ClaimFacts
  <2>3. history'.scope = history.scope BY <1>2 DEF Launch, Claim
  <2>4. ~worker'[w].resumed => run'.done = {} /\ run'.counts = NoCounts /\ history'.scope = {}
    BY <2>2, <2>3 DEF Kept, OneInv
  <2> QED BY <2>1, <2>2, <2>4 DEF CursorInv, Active
<1>3. ASSUME NEW w \in Worker, Step(w) PROVE CursorInv'
  <2>1. Active(w) BY <1>3 DEF Active, Step, TrainingHoldsCard, Begin, Work, Skip, ListChild, Beat, Finish, Fail
  <2>2. \A v \in Worker : v # w => worker[v].pc = "off" BY <2>1 DEF OneInv, Active
  <2>3. SUFFICES ASSUME worker'[w].pc # "off"
        PROVE  /\ \A v \in Worker : v # w => worker'[v] = worker[v]
               /\ worker'[w].pc # "spawned"
               /\ worker'[w].todo \cap worker'[w].done = {}
               /\ worker'[w].pc \in {"work", "end"} => worker'[w].done = run'.done
               /\ kind' = "relabel_all" => \A u \in worker'[w].todo : trace'[u] = "none"
    <3>1. \A v \in Worker : v # w => worker'[v] = worker[v]
      BY <1>3, TrainingFacts, BeginFacts, WorkFacts, SkipFacts, ListFacts, BeatFacts, FinishFacts, FailFacts DEF Ends, Step
    <3> QED BY <2>2, <2>3, <3>1 DEF CursorInv, Active
  <2>4. /\ worker[w].todo \cap worker[w].done = {} /\ kind' = kind
        /\ kind = "relabel_all" => \A u \in worker[w].todo : trace[u] = "none"
        /\ ~Work(w) /\ ~Skip(w) => trace' = trace
    BY <1>3, <2>1, TaskFacts DEF CursorInv
  <2>5. CASE Begin(w)
    <3>1. /\ \A v \in Worker : v # w => worker'[v] = worker[v]
          /\ worker'[w].pc = "work" /\ worker'[w].todo = Selected \ run.done
          /\ worker'[w].done = run.done /\ run' = run
      BY <2>3, <2>5, BeginFacts, OffFacts DEF Ends
    <3>2. kind = "relabel_all" => \A u \in Selected : trace[u] = "none" BY DEF Selected, First
    <3>3. trace' = trace BY <2>5 DEF Begin
    <3> QED BY <2>4, <3>1, <3>2, <3>3
  <2>6. CASE Work(w)
    <3>1. PICK u \in worker[w].todo :
            /\ trace' = [trace EXCEPT ![u] = "committed"]
            /\ \A v \in Worker : v # w => worker'[v] = worker[v]
            /\ worker'[w].pc \in {"child", "beat"}
            /\ worker'[w].todo = worker[w].todo \ {u} /\ worker'[w].done = worker[w].done \cup {u}
      BY <2>6, WorkFacts
    <3> QED BY <2>4, <3>1
  <2>7. CASE Skip(w)
    <3>1. PICK u \in worker[w].todo :
            /\ trace' = [trace EXCEPT ![u] = IF kind = "relabel_all" THEN "skipped" ELSE trace[u]]
            /\ \A v \in Worker : v # w => worker'[v] = worker[v]
            /\ worker'[w].pc \in {"fail", "beat"}
            /\ \/ /\ kind = "error_sweep"
                  /\ worker'[w].todo = worker[w].todo /\ worker'[w].done = worker[w].done
               \/ /\ worker'[w].todo = worker[w].todo \ {u}
                  /\ worker'[w].done = worker[w].done \cup {u}
      BY <2>7, SkipFacts
    <3> QED BY <2>4, <3>1
  <2>8. CASE ListChild(w) BY <2>4, <2>8, ListFacts DEF ListChild
  <2>9. CASE Beat(w)
    <3>1. trace' = trace BY <2>9 DEF Beat
    <3> QED BY <2>4, <2>9, <3>1, BeatFacts
  <2>10. CASE TrainingHoldsCard(w) BY <2>3, <2>10, TrainingFacts, OffFacts DEF Ends
  <2>11. CASE Finish(w) BY <2>3, <2>11, FinishFacts, OffFacts DEF Ends
  <2>12. CASE Fail(w) BY <2>3, <2>12, FailFacts, OffFacts
  <2> QED BY <1>3, <2>5, <2>6, <2>7, <2>8, <2>9, <2>10, <2>11, <2>12 DEF Step
<1>4. CASE Quiet
  <2>1. /\ Kept /\ history'.scope = history.scope
        /\ worker' = worker \/ worker' = [w \in Worker |-> Off]
        /\ trace' # trace => ~up \/ run.status = "committed"
    BY <1>4, QuietFacts
  <2>2. kind' = kind BY <1>4 DEF Quiet, Crash, Age, Start, Click, Revert, StoreDown, StoreUp
  <2>3. CASE worker' = [w \in Worker |-> Off]
    <3>1. \A w \in Worker : worker'[w].pc = "off" BY <2>3, OffFacts
    <3> QED BY <3>1 DEF CursorInv, Active
  <2>4. CASE worker' = worker
    <3>1. \A w \in Worker : Active(w) => trace' = trace BY <2>1 DEF OneInv
    <3> QED BY <2>1, <2>2, <2>4, <3>1 DEF CursorInv, Active, Kept
  <2> QED BY <2>1, <2>3, <2>4
<1> QED BY <1>1, <1>2, <1>3, <1>4 DEF Next, Quiet

LEMMA CursorInit == Init => CursorInv
BY AllOff DEF CursorInv, Active

(* A unit in the cursor is never worked on again, and a relabel of the     *)
(* corpus reads no frame that has a child run, whatever crashes, outages   *)
(* and resumes there are: provided two people do not resume one run at     *)
(* once, which puts two tasks on it.                                       *)
THEOREM NoReworkAlways ==
  ASSUME MaxClicks <= 1
  PROVE  Spec => NoRework
<1> DEFINE Inv == TypeInv /\ OneInv /\ CursorInv
<1>1. Init => Inv BY TypeInit, OneInit, CursorInit
<1>2. Inv /\ [Next]_vars => Inv' BY TypeStep, OneStep, CursorStep
<1>3. Inv /\ [Next]_vars =>
        [\A u \in Units : history'.times[u] # history.times[u] =>
           (u \notin run.done /\ (kind = "relabel_all" => trace[u] = "none"))]_vars
  <2> SUFFICES ASSUME Inv, [Next]_vars, NEW x \in Units, history'.times[x] # history.times[x]
               PROVE  x \notin run.done /\ (kind = "relabel_all" => trace[x] = "none")
    BY DEF vars
  <2>1. ~Quiet BY QuietFacts
  <2>2. PICK w \in Worker : Launch(w) \/ Claim(w) \/ Step(w)
    BY <2>1 DEF Next, Quiet, vars
  <2>3. Work(w) BY <2>2, TaskFacts
  <2>4. PICK u \in worker[w].todo :
          /\ worker[w].pc = "work"
          /\ \A v \in Units : v # u => history'.times[v] = history.times[v]
    BY <2>3, WorkFacts
  <2>5. x = u BY <2>4
  <2>6. Active(w) BY <2>4 DEF Active
  <2>7. /\ worker[w].todo \cap worker[w].done = {} /\ worker[w].done = run.done
        /\ kind = "relabel_all" => \A v \in worker[w].todo : trace[v] = "none"
    BY <2>4, <2>6 DEF CursorInv
  <2> QED BY <2>4, <2>5, <2>7
<1> HIDE DEF Inv
<1> QED BY <1>1, <1>2, <1>3, PTL DEF Spec, NoRework

-------------------------------------------------------------------------------
(* The totals and the cursor move together. *)

Adds(counts, S) == counts.frames + counts.skipped = Cardinality(S)
Counted == kind \in {"error_sweep", "reanalyze_all"}

CountInv == Counted =>
  /\ Adds(run.counts, run.done)
  /\ \A w \in Worker : worker[w].pc \in {"work", "child", "beat", "end"} =>
       Adds(worker[w].counts, worker[w].done)

LEMMA NothingYet == Adds(NoCounts, {})
BY OffFacts, FS_EmptySet DEF Adds

LEMMA CountStep ==
  ASSUME "resume" \notin MayTrain, TypeInv, OneInv, CursorInv, CountInv, [Next]_vars
  PROVE  CountInv'
<1> HIDE DEF NoCounts, Off
<1>1. CASE UNCHANGED vars BY <1>1 DEF vars, CountInv, Adds, Counted
<1>2. ASSUME NEW w \in Worker, Launch(w) \/ Claim(w) \/ Step(w) PROVE CountInv'
  <2>1. kind' = kind BY <1>2, TaskFacts
  <2>2. SUFFICES ASSUME Counted
        PROVE  /\ Adds(run'.counts, run'.done)
               /\ worker'[w].pc \in {"work", "child", "beat", "end"} => Adds(worker'[w].counts, worker'[w].done)
               /\ \A v \in Worker : v # w => worker'[v] = worker[v]
    BY <2>1 DEF CountInv, Counted, Adds
  <2>3. /\ Adds(run.counts, run.done)
        /\ worker[w].pc \in {"work", "child", "beat", "end"} => Adds(worker[w].counts, worker[w].done)
    BY <2>2 DEF CountInv
  <2>4. CASE Launch(w) \/ Claim(w)
    <3>1. worker'[w].pc = "spawned" /\ Kept /\ \A v \in Worker : v # w => worker'[v] = worker[v]
      BY <2>4, LaunchFacts, ClaimFacts
    <3> QED BY <2>3, <3>1 DEF Kept
  <2>5. CASE TrainingHoldsCard(w)
    <3>1. /\ Ends(w, NoCounts) /\ worker[w].pc = "spawned" /\ ~worker[w].resumed
      BY <2>5, TrainingFacts
    <3>2. run.done = {} BY <3>1 DEF CursorInv, Active
    <3> QED BY <3>1, <3>2, NothingYet, OffFacts DEF Ends
  <2>6. CASE Begin(w)
    <3>1. CASE \E counts \in Counts : Ends(w, counts) /\ (kind = "relabel_all" \/ counts = run.counts)
      BY <2>2, <2>3, <3>1, OffFacts DEF Ends, Counted
    <3>2. CASE /\ UNCHANGED run /\ \A v \in Worker : v # w => worker'[v] = worker[v]
               /\ worker'[w].done = run.done /\ worker'[w].counts = run.counts
      BY <2>3, <3>2
    <3> QED BY <2>6, <3>1, <3>2, BeginFacts
  <2>7. CASE Work(w)
    <3>1. PICK u \in worker[w].todo :
            /\ worker[w].pc = "work"
            /\ \A v \in Worker : v # w => worker'[v] = worker[v]
            /\ worker'[w].done = worker[w].done \cup {u}
            /\ worker'[w].counts.frames = worker[w].counts.frames + 1
            /\ worker'[w].counts.skipped = worker[w].counts.skipped
      BY <2>7, WorkFacts
    <3>2. worker[w].todo \cap worker[w].done = {} BY <3>1 DEF CursorInv, Active
    <3>3. u \in Units \ worker[w].done /\ worker[w].done \in SUBSET Units /\ worker[w].counts \in Counts
      BY <3>2, TypeFacts
    <3>4. /\ Cardinality(worker[w].done) \in Nat
          /\ Cardinality(worker'[w].done) = Cardinality(worker[w].done) + 1
      BY <3>1, <3>3, OneMore
    <3>5. worker[w].counts.frames \in Nat /\ worker[w].counts.skipped \in Nat BY <3>3 DEF Counts
    <3>6. Adds(worker'[w].counts, worker'[w].done) BY <2>3, <3>1, <3>4, <3>5 DEF Adds
    <3>7. run' = run BY <2>7 DEF Work
    <3> QED BY <2>3, <3>1, <3>6, <3>7
  <2>8. CASE Skip(w)
    <3>1. PICK u \in worker[w].todo :
            /\ worker[w].pc = "work"
            /\ \A v \in Worker : v # w => worker'[v] = worker[v]
            /\ \/ worker'[w].pc = "fail"
               \/ /\ worker'[w].done = worker[w].done \cup {u}
                  /\ worker'[w].counts.skipped = worker[w].counts.skipped + 1
                  /\ kind # "drivable_backfill" => worker'[w].counts.frames = worker[w].counts.frames
      BY <2>8, SkipFacts
    <3>2. worker[w].todo \cap worker[w].done = {} BY <3>1 DEF CursorInv, Active
    <3>3. u \in Units \ worker[w].done /\ worker[w].done \in SUBSET Units /\ worker[w].counts \in Counts
      BY <3>2, TypeFacts
    <3>4. ASSUME /\ worker'[w].done = worker[w].done \cup {u}
                 /\ worker'[w].counts.skipped = worker[w].counts.skipped + 1
                 /\ kind # "drivable_backfill" => worker'[w].counts.frames = worker[w].counts.frames
          PROVE  Adds(worker'[w].counts, worker'[w].done)
      <4>1. /\ Cardinality(worker[w].done) \in Nat
            /\ Cardinality(worker'[w].done) = Cardinality(worker[w].done) + 1
        BY <3>3, <3>4, OneMore
      <4>2. worker[w].counts.frames \in Nat /\ worker[w].counts.skipped \in Nat BY <3>3 DEF Counts
      <4>3. kind # "drivable_backfill" BY <2>2 DEF Counted
      <4>4. worker'[w].counts.frames = worker[w].counts.frames BY <3>4, <4>3
      <4>5. Adds(worker[w].counts, worker[w].done) BY <2>3, <3>1
      <4> QED BY <3>4, <4>1, <4>2, <4>4, <4>5 DEF Adds
    <3>5. worker'[w].pc \in {"work", "child", "beat", "end"} => Adds(worker'[w].counts, worker'[w].done)
      BY <3>1, <3>4
    <3>6. run' = run BY <2>8 DEF Skip
    <3> QED BY <2>3, <3>1, <3>5, <3>6
  <2>9. CASE ListChild(w) BY <2>3, <2>9, ListFacts DEF Kept
  <2>10. CASE Beat(w) BY <2>3, <2>10, BeatFacts
  <2>11. CASE Finish(w)
    <3>1. /\ worker[w].pc \in {"work", "end"} /\ Ends(w, worker[w].counts) BY <2>11, FinishFacts
    <3>2. worker[w].done = run.done BY <3>1 DEF CursorInv, Active
    <3> QED BY <2>3, <3>1, <3>2, OffFacts DEF Ends
  <2>12. CASE Fail(w)
    <3>1. kind # "drivable_backfill" BY <2>2 DEF Counted
    <3> QED BY <2>3, <2>12, <3>1, FailFacts, OffFacts
  <2> QED BY <1>2, <2>4, <2>5, <2>6, <2>7, <2>8, <2>9, <2>10, <2>11, <2>12 DEF Step
<1>3. CASE Quiet
  <2>1. Kept /\ (worker' = worker \/ worker' = [w \in Worker |-> Off]) BY <1>3, QuietFacts
  <2>2. kind' = kind BY <1>3 DEF Quiet, Crash, Age, Start, Click, Revert, StoreDown, StoreUp
  <2>3. worker' = worker \/ \A w \in Worker : worker'[w].pc = "off" BY <2>1, OffFacts
  <2> QED BY <2>1, <2>2, <2>3 DEF CountInv, Counted, Adds, Kept
<1> QED BY <1>1, <1>2, <1>3 DEF Next, Quiet

LEMMA CountInit == Init => CountInv
<1> SUFFICES ASSUME Init PROVE CountInv OBVIOUS
<1>1. run.done = {} /\ run.counts = NoCounts
  <2> HIDE DEF NoCounts
  <2> QED BY DEF Init
<1>2. \A w \in Worker : worker[w].pc = "off" BY AllOff
<1> QED BY <1>1, <1>2, NothingYet DEF CountInv

(* The totals of an error sweep and of a reanalysis are those of the units *)
(* in the cursor, across every crash and resume: provided two people do    *)
(* not resume one run at once, and no resumed sweep finds training on the  *)
(* card, which commits it with no counts at all.                           *)
THEOREM CountsMatchCursorAlways ==
  ASSUME MaxClicks <= 1, "resume" \notin MayTrain
  PROVE  Spec => []CountsMatchCursor
<1> DEFINE Inv == TypeInv /\ OneInv /\ CursorInv /\ CountInv
<1>1. Init => Inv BY TypeInit, OneInit, CursorInit, CountInit
<1>2. Inv /\ [Next]_vars => Inv' BY TypeStep, OneStep, CursorStep, CountStep
<1>3. Inv => CountsMatchCursor BY DEF CountInv, CountsMatchCursor, Counted, Adds
<1> HIDE DEF Inv
<1> QED BY <1>1, <1>2, <1>3, PTL DEF Spec

-------------------------------------------------------------------------------
(* A committed run has been through its scope. *)

\* The units that a task has left or behind it cover what is still unread of the scope.
Covers(scope, S) == \A u \in scope : u \in S \/ Read(u)

ScopeInv ==
  /\ Covers(history.scope, Selected)
  /\ kind = "reanalyze_all" => ~down
  /\ run.status = "committed" => Covers(history.scope, run.done)
  /\ \A w \in Worker : Active(w) =>
       /\ worker[w].pc # "end"
       /\ worker[w].pc \in {"work", "child", "beat"} =>
            Covers(history.scope, worker[w].todo \cup worker[w].done)
       /\ kind = "reanalyze_all" /\ worker[w].pc # "spawned" =>
            worker[w].streak <= Cardinality(Bad \cap worker[w].done)
       /\ kind # "reanalyze_all" /\ worker[w].pc \in {"child", "beat"} => worker[w].streak < Streak

LEMMA BadDone ==
  ASSUME NEW S \in SUBSET Units
  PROVE  /\ Cardinality(Bad \cap S) \in Nat /\ Cardinality(Bad) \in Nat
         /\ Cardinality(Bad \cap S) <= Cardinality(Bad)
         /\ \A u \in Bad \ S : Cardinality(Bad \cap (S \cup {u})) = Cardinality(Bad \cap S) + 1
<1>1. IsFiniteSet(Bad) BY FS_Subset, AgentRunsAssumption
<1>2. Bad \cap S \subseteq Bad OBVIOUS
<1>3. IsFiniteSet(Bad \cap S) /\ Cardinality(Bad \cap S) <= Cardinality(Bad) BY <1>1, <1>2, FS_Subset
<1>4. ASSUME NEW u \in Bad \ S PROVE Cardinality(Bad \cap (S \cup {u})) = Cardinality(Bad \cap S) + 1
  <2>1. Bad \cap (S \cup {u}) = (Bad \cap S) \cup {u} OBVIOUS
  <2>2. Bad \cap S \in SUBSET Units /\ u \in Units \ (Bad \cap S) BY AgentRunsAssumption
  <2> QED BY <2>1, <2>2, OneMore
<1> QED BY <1>1, <1>3, <1>4, FS_CardinalityType

LEMMA ScopeStep ==
  ASSUME "reanalyze_all" \notin OutageIn, Cardinality(Bad) < Streak,
         "resume" \notin MayTrain, TypeInv, OneInv, CursorInv, ScopeInv, [Next]_vars
  PROVE  ScopeInv'
<1> HIDE DEF NoCounts, Off
<1>0. history.scope \in SUBSET Units /\ Selected \in SUBSET Units BY TypeFacts
<1>1. CASE UNCHANGED vars
  <2>1. Selected' = Selected BY <1>1 DEF vars, Selected, First
  <2> QED BY <1>1, <2>1 DEF vars, ScopeInv, Covers, Read, Active
<1>2. ASSUME NEW w \in Worker, Launch(w) \/ Claim(w) \/ Step(w) PROVE ScopeInv'
  <2>1. /\ kind' = kind /\ down' = down /\ StillRead
        /\ ~Begin(w) => history'.scope = history.scope
        /\ ~Work(w) /\ ~Skip(w) => trace' = trace
    BY <1>2, TaskFacts
  <2>2. \A u \in Units : u \in Selected \/ Read(u) => u \in Selected' \/ Read(u)'
    BY <2>1, SelectedShrinks
  <2>3. \A u \in history'.scope : u \in Selected' \/ Read(u)'
    <3>1. CASE Begin(w)
      <4>1. history'.scope = (IF worker[w].resumed THEN history.scope ELSE Selected)
        BY <3>1, BeginFacts
      <4> QED BY <1>0, <2>2, <4>1 DEF ScopeInv, Covers
    <3>2. CASE ~Begin(w) BY <1>0, <2>1, <2>2, <3>2 DEF ScopeInv, Covers
    <3> QED BY <3>1, <3>2
  <2>4. kind' = "reanalyze_all" => ~down' BY <2>1 DEF ScopeInv
  <2>5. CASE Launch(w) \/ Claim(w)
    <3>1. /\ worker'[w].pc = "spawned" /\ worker'[w].streak = 0 /\ run'.status = "running"
          /\ \A v \in Worker : v # w => worker'[v] = worker[v]
      BY <2>5, LaunchFacts, ClaimFacts
    <3>2. \A v \in Worker : worker[v].pc = "off"
      <4>1. CASE Launch(w) BY <4>1 DEF Launch, OneInv, Active
      <4>2. CASE Claim(w)
        <5>1. clicks > 0 /\ clicks \in Nat BY <4>2, AgentRunsAssumption DEF Claim, TypeInv, TypeOK
        <5>2. clicks # 0 BY <5>1
        <5> QED BY <5>2 DEF OneInv, Active
      <4> QED BY <2>5, <4>1, <4>2
    <3> QED BY <2>3, <2>4, <3>1, <3>2 DEF ScopeInv, Covers, Active
  <2>6. ASSUME Step(w)
        PROVE  /\ \A v \in Worker : v # w => worker[v].pc = "off" /\ worker'[v] = worker[v]
               /\ Active(w) /\ run.status = "running"
    <3>1. Active(w) BY <2>6 DEF Active, Step, TrainingHoldsCard, Begin, Work, Skip, ListChild, Beat, Finish, Fail
    <3>2. \A v \in Worker : v # w => worker'[v] = worker[v]
      BY <2>6, TrainingFacts, BeginFacts, WorkFacts, SkipFacts, ListFacts, BeatFacts, FinishFacts, FailFacts DEF Ends, Step
    <3> QED BY <3>1, <3>2 DEF OneInv, Active
  \* A task that ends: what remains is that a committed run has been through its scope.
  <2>7. ASSUME Step(w), worker'[w] = Off, run'.status = "committed" => \A u \in history'.scope : u \in run'.done \/ Read(u)'
        PROVE  ScopeInv'
    BY <2>3, <2>4, <2>6, <2>7, OffFacts DEF ScopeInv, Covers, Active
  \* A task that goes on: the row still says running.
  <2>8. ASSUME Step(w), run'.status = "running",
               /\ worker'[w].pc # "end"
               /\ worker'[w].pc \in {"work", "child", "beat"} =>
                    \A u \in history'.scope : u \in worker'[w].todo \cup worker'[w].done \/ Read(u)'
               /\ kind = "reanalyze_all" /\ worker'[w].pc # "spawned" =>
                    worker'[w].streak <= Cardinality(Bad \cap worker'[w].done)
               /\ kind # "reanalyze_all" /\ worker'[w].pc \in {"child", "beat"} => worker'[w].streak < Streak
        PROVE  ScopeInv'
    BY <2>1, <2>3, <2>4, <2>6, <2>8 DEF ScopeInv, Covers, Active
  <2>9. CASE TrainingHoldsCard(w)
    <3>1. Ends(w, NoCounts) /\ worker[w].pc = "spawned" /\ ~worker[w].resumed
      BY <2>9, TrainingFacts
    <3>2. history.scope = {} BY <3>1 DEF CursorInv, Active
    <3>3. history' = history BY <2>9 DEF TrainingHoldsCard
    <3> QED BY <2>7, <2>9, <3>1, <3>2, <3>3 DEF Ends, Step
  <2>10. CASE Begin(w)
    <3>1. /\ worker[w].pc = "spawned"
          /\ history'.scope = (IF worker[w].resumed THEN history.scope ELSE Selected)
          /\ trace' = trace
      BY <2>10, BeginFacts DEF Begin
    <3>2. \A u \in history'.scope : u \in Selected \/ Read(u)' BY <3>1 DEF ScopeInv, Covers, Read
    <3>3. CASE Selected = {} /\ \E counts \in Counts : Ends(w, counts)
      <4>1. worker'[w] = Off BY <3>3 DEF Ends
      <4> QED BY <2>7, <2>10, <3>2, <3>3, <4>1 DEF Step
    <3>4. CASE /\ UNCHANGED run /\ worker'[w].pc = "work" /\ worker'[w].todo = Selected \ run.done
               /\ worker'[w].done = run.done /\ worker'[w].streak = worker[w].streak
      <4>1. worker[w].streak = 0 BY <3>1 DEF CursorInv, Active
      <4>2. 0 <= Cardinality(Bad \cap run.done) BY BadDone, TypeFacts
      <4>3. \A u \in history'.scope : u \in worker'[w].todo \cup worker'[w].done \/ Read(u)'
        BY <3>2, <3>4
      <4>4. run'.status = "running" BY <2>6, <2>10, <3>4 DEF Step
      <4> QED BY <2>8, <2>10, <3>4, <4>1, <4>2, <4>3, <4>4 DEF Step
    <3> QED BY <2>10, <3>3, <3>4, BeginFacts
  <2>11. CASE Work(w)
    <3>1. PICK u \in worker[w].todo :
            /\ worker[w].pc = "work" /\ worker'[w].pc \in {"child", "beat"} /\ worker'[w].streak = 0
            /\ worker' \in [Worker -> WorkerType] /\ history' \in HistoryType
            /\ history'.scope = history.scope
            /\ worker'[w].todo = worker[w].todo \ {u} /\ worker'[w].done = worker[w].done \cup {u}
      BY <2>11, WorkFacts
    <3>2. Covers(history.scope, worker[w].todo \cup worker[w].done)
      BY <3>1 DEF ScopeInv, Active
    <3>3. \A x \in history'.scope : x \in worker'[w].todo \cup worker'[w].done \/ Read(x)'
      BY <1>0, <2>1, <3>1, <3>2 DEF Covers, StillRead
    <3>4. worker'[w].done \in SUBSET Units
      BY <3>1, TypeFacts
    <3>5. 0 <= Cardinality(Bad \cap worker'[w].done) /\ 0 < Streak
      BY <3>4, BadDone, AgentRunsAssumption
    <3>6. run'.status = "running"
      <4>1. run' = run BY <2>11 DEF Work
      <4> QED BY <2>6, <2>11, <4>1 DEF Step
    <3> QED BY <2>8, <2>11, <3>1, <3>3, <3>5, <3>6 DEF Step
  <2>12. CASE Skip(w)
    <3>1. PICK u \in worker[w].todo :
            /\ worker[w].pc = "work" /\ Unreadable(u)
            /\ \/ kind = "error_sweep" /\ worker'[w].pc = "fail"
               \/ /\ kind # "error_sweep" /\ worker'[w].pc \in {"fail", "beat"}
                  /\ worker'[w].pc = "beat" /\ kind # "reanalyze_all" => worker'[w].streak < Streak
                  /\ worker'[w].streak = worker[w].streak + 1
                  /\ worker'[w].todo = worker[w].todo \ {u}
                  /\ worker'[w].done = worker[w].done \cup {u}
      BY <2>12, SkipFacts
    <3>2. run' = run /\ history' = history BY <2>12 DEF Skip
    <3>3. run'.status = "running" BY <2>6, <2>12, <3>2 DEF Step
    <3>4. CASE kind = "error_sweep" /\ worker'[w].pc = "fail"
      BY <2>8, <2>12, <3>3, <3>4 DEF Step
    <3>5. CASE /\ kind # "error_sweep" /\ worker'[w].pc \in {"fail", "beat"}
               /\ worker'[w].pc = "beat" /\ kind # "reanalyze_all" => worker'[w].streak < Streak
               /\ worker'[w].streak = worker[w].streak + 1
               /\ worker'[w].todo = worker[w].todo \ {u}
               /\ worker'[w].done = worker[w].done \cup {u}
      <4>1. Covers(history.scope, worker[w].todo \cup worker[w].done)
        BY <3>1 DEF ScopeInv, Active
      <4>2. \A x \in history'.scope : x \in worker'[w].todo \cup worker'[w].done \/ Read(x)'
        BY <1>0, <2>1, <3>2, <3>5, <4>1 DEF Covers, StillRead
      <4>3. kind = "reanalyze_all" => worker'[w].streak <= Cardinality(Bad \cap worker'[w].done)
        <5> SUFFICES ASSUME kind = "reanalyze_all"
                     PROVE  worker'[w].streak <= Cardinality(Bad \cap worker'[w].done)
          OBVIOUS
        <5>1. worker[w].done \in SUBSET Units /\ worker[w].streak \in Nat
          <6>1. worker[w].done \in SUBSET Units /\ worker[w].streak \in 0..Streak BY TypeFacts
          <6> QED BY <6>1
        <5>2. u \in Bad BY <3>1 DEF Unreadable, ScopeInv
        <5>3. u \notin worker[w].done BY <3>1 DEF CursorInv, Active
        <5>4. worker[w].streak <= Cardinality(Bad \cap worker[w].done)
          BY <3>1 DEF ScopeInv, Active
        <5>5. /\ Cardinality(Bad \cap worker[w].done) \in Nat
              /\ Cardinality(Bad \cap worker'[w].done) = Cardinality(Bad \cap worker[w].done) + 1
          BY <3>5, <5>1, <5>2, <5>3, BadDone
        <5> QED BY <3>5, <5>1, <5>4, <5>5
      <4> QED BY <2>8, <2>12, <3>3, <3>5, <4>2, <4>3 DEF Step
    <3> QED BY <3>1, <3>4, <3>5
  <2>13. CASE ListChild(w)
    <3>1. /\ worker[w].pc = "child" /\ worker'[w].pc = "beat" /\ worker'[w].todo = worker[w].todo
          /\ worker'[w].done = worker[w].done /\ worker'[w].streak = worker[w].streak
          /\ run'.status = run.status
      BY <2>13, ListFacts
    <3>2. history' = history /\ trace' = trace BY <2>13 DEF ListChild
    <3> QED BY <2>6, <2>8, <2>13, <3>1, <3>2 DEF Step, ScopeInv, Covers, Read, Active
  <2>14. CASE Beat(w)
    <3>1. /\ worker[w].pc = "beat"
          /\ worker'[w].pc = (IF worker[w].streak = Streak THEN "end" ELSE "work")
          /\ worker'[w].todo = worker[w].todo
          /\ worker'[w].done = worker[w].done /\ worker'[w].streak = worker[w].streak
          /\ run'.status = (IF run.status \in Terminal THEN run.status ELSE "running")
      BY <2>14, BeatFacts
    <3>2. history' = history /\ trace' = trace BY <2>14 DEF Beat
    <3>3. worker[w].streak \in 0..Streak /\ worker[w].done \in SUBSET Units /\ Streak \in Nat BY TypeFacts
    <3>4. worker[w].streak # Streak
      <4>1. CASE kind = "reanalyze_all"
        <5>1. worker[w].streak <= Cardinality(Bad \cap worker[w].done)
          BY <3>1, <4>1 DEF ScopeInv, Active
        <5>2. /\ Cardinality(Bad \cap worker[w].done) \in Nat /\ Cardinality(Bad) \in Nat
              /\ Cardinality(Bad \cap worker[w].done) <= Cardinality(Bad)
          BY <3>3, BadDone
        <5> QED BY <3>3, <5>1, <5>2
      <4>2. CASE kind # "reanalyze_all"
        <5>1. worker[w].streak < Streak BY <3>1, <4>2 DEF ScopeInv, Active
        <5> QED BY <3>3, <5>1
      <4> QED BY <4>1, <4>2
    <3>5. run.status = "running" BY <2>6, <2>14 DEF Step
    <3>6. run'.status = "running" BY <3>1, <3>5 DEF Terminal
    <3> QED BY <2>8, <2>14, <3>1, <3>2, <3>4, <3>6 DEF Step, ScopeInv, Covers, Read, Active
  <2>15. CASE Finish(w)
    <3>1. /\ worker[w].pc = "end" \/ (worker[w].pc = "work" /\ worker[w].todo = {})
          /\ Ends(w, worker[w].counts)
      BY <2>15, FinishFacts
    <3>2. worker[w].pc = "work" /\ worker[w].todo = {}
      BY <2>6, <2>15, <3>1 DEF ScopeInv, Step
    <3>3. worker[w].done = run.done BY <3>2 DEF CursorInv, Active
    <3>4. history' = history /\ trace' = trace BY <2>15 DEF Finish
    <3>5. \A u \in history'.scope : u \in run'.done \/ Read(u)'
      BY <3>1, <3>2, <3>3, <3>4 DEF ScopeInv, Covers, Read, Active, Ends
    <3> QED BY <2>7, <2>15, <3>1, <3>5 DEF Ends, Step
  <2>16. CASE Fail(w) BY <2>7, <2>16, FailFacts DEF Step
  <2> QED BY <1>2, <2>5, <2>9, <2>10, <2>11, <2>12, <2>13, <2>14, <2>15, <2>16 DEF Step
<1>3. CASE Quiet
  <2>1. /\ Kept /\ history'.scope = history.scope /\ StillRead
        /\ worker' = worker \/ worker' = [w \in Worker |-> Off]
        /\ run'.status = "committed" => run.status = "committed"
    BY <1>3, QuietFacts
  <2>2. kind' = kind BY <1>3 DEF Quiet, Crash, Age, Start, Click, Revert, StoreDown, StoreUp
  <2>3. kind' = "reanalyze_all" => ~down'
    BY <1>3, <2>2 DEF Quiet, Crash, Age, Start, Click, Revert, StoreDown, StoreUp, ScopeInv
  <2>4. \A u \in history'.scope : u \in Selected' \/ Read(u)'
    <3>1. \A u \in Units : u \in Selected \/ Read(u) => u \in Selected' \/ Read(u)'
      BY <2>1, <2>2, SelectedShrinks
    <3> QED BY <1>0, <2>1, <3>1 DEF ScopeInv, Covers
  <2>5. run'.status = "committed" => \A u \in history'.scope : u \in run'.done \/ Read(u)'
    BY <1>0, <2>1 DEF ScopeInv, Covers, StillRead, Kept
  <2>6. \A w \in Worker : worker'[w].pc # "off" =>
          /\ worker'[w] = worker[w]
          /\ worker[w].pc \in {"work", "child", "beat"} =>
               \A u \in history'.scope : u \in worker[w].todo \cup worker[w].done \/ Read(u)'
    <3>1. ASSUME NEW w \in Worker, worker'[w].pc # "off" PROVE worker'[w] = worker[w]
      BY <2>1, <3>1, OffFacts
    <3>2. ASSUME NEW w \in Worker, worker[w].pc \in {"work", "child", "beat"}
          PROVE  \A u \in history'.scope : u \in worker[w].todo \cup worker[w].done \/ Read(u)'
      <4>1. Covers(history.scope, worker[w].todo \cup worker[w].done)
        BY <3>2 DEF ScopeInv, Active
      <4> QED BY <1>0, <2>1, <4>1 DEF Covers, StillRead
    <3> QED BY <3>1, <3>2
  <2> QED BY <2>2, <2>3, <2>4, <2>5, <2>6 DEF ScopeInv, Covers, Active
<1> QED BY <1>1, <1>2, <1>3 DEF Next, Quiet

LEMMA ScopeInit == Init => ScopeInv
<1> SUFFICES ASSUME Init PROVE ScopeInv OBVIOUS
<1>1. \A w \in Worker : worker[w].pc = "off" BY AllOff
<1>2. history.scope = {} /\ ~down BY DEF Init
<1> QED BY <1>1, <1>2 DEF ScopeInv, Covers, Active

(* A run that says committed has gone through every unit it selected when  *)
(* it was launched, whatever crashes and resumes it went through: provided *)
(* two people do not resume it at once, no resumed run finds training on   *)
(* the card, and the reanalysis never meets as many failures in a row as   *)
(* its breaker allows, which stops it and commits it all the same.         *)
THEOREM WholeScopeReadAlways ==
  ASSUME MaxClicks <= 1, "resume" \notin MayTrain,
         "reanalyze_all" \notin OutageIn, Cardinality(Bad) < Streak
  PROVE  Spec => []WholeScopeRead
<1> DEFINE Inv == TypeInv /\ OneInv /\ CursorInv /\ ScopeInv
<1>1. Init => Inv BY TypeInit, OneInit, CursorInit, ScopeInit
<1>2. Inv /\ [Next]_vars => Inv' BY TypeStep, OneStep, CursorStep, ScopeStep
<1>3. Inv => WholeScopeRead BY DEF ScopeInv, WholeScopeRead, Covers, Read
<1> HIDE DEF Inv
<1> QED BY <1>1, <1>2, <1>3, PTL DEF Spec
===============================================================================
