------------------------------ MODULE Settlement ------------------------------
(***************************************************************************)
(* Acceptance-sampled settlement of one class: its lots, its rung on the   *)
(* autonomy ladder, the runs that close labels and the reviews that judge  *)
(* them.  services/labelops/settlement.py, services/govern/                *)
(* {settlement_agent,class_autonomy}.py, services/agent/runs.py and the    *)
(* review endpoints that write what a tally reads.                         *)
(*                                                                         *)
(* A tick is one database session: it loads governance_state at its start, *)
(* then the open lots, and goes on using what it loaded (module Orm).  It  *)
(* tallies, promotes the class, settles session by session with a commit   *)
(* each, and starts the nightly workers; each worker is a process of its   *)
(* own, and so is every request.                                           *)
(*                                                                         *)
(* Left out: the arithmetic of the tally (an all-clean sample passes, an    *)
(* all-defect one fails, a mixed one parks) and the increments it asks     *)
(* for; classes other than the one (they share the switches only); class   *)
(* edits, object geometry and attributes; audit rows and notifications.    *)
(*                                                                         *)
(* No action uses an operator marked `Mutant of': it is the plausible bug  *)
(* a run is tried against, to see that its property would notice.          *)
(***************************************************************************)
EXTENDS Integers, FiniteSets, Orm

CONSTANTS
  Lot,            \* lot ids
  Object,         \* labels of the class
  Epoch,          \* model versions
  RunId,          \* ids of agent runs: 1..n, the bound on how many there are
  Ticker,         \* sessions that run controller.tick (the daemon, POST .../tick)
  Planner,        \* sessions that plan a lot (the nightly worker, POST .../plan)
  Reverter,       \* sessions that revert lots (the spot-check worker, POST .../revert)
  EpochOf,        \* [Object -> Epoch]: the model whose proposal the label is
  Chunk,          \* [Object -> Nat]: the place of its drive in the settle order
  Draw,           \* [Object -> Nat]: its place in the sample's permutation
  SampleSize,     \* labels a lot samples
  Spot,           \* labels the 2% spot hash picks
  MinPopulation,  \* smallest stratum worth a lot
  Tier,           \* "default", "safety" or "critical"
  Fitted,         \* epochs that carry a measured threshold for the class
  Ruled,          \* labels a person may rule on one at a time
  Batches,        \* sets of labels a person may rule on, or take back, together
  Clicks,         \* runs a person may take back by name
  Hand,           \* rungs a person may set: records [level, pinned]
  MaxCrashes      \* how many sessions may die

NoLot == "no lot"
NoRun == 0
NoEpoch == "no epoch"

ASSUME ShapeAssumption ==
  /\ RunId \subseteq Nat \ {NoRun}
  /\ EpochOf \in [Object -> Epoch] /\ Chunk \in [Object -> Nat]
  /\ Draw \in [Object -> Nat] /\ Spot \subseteq Object /\ Fitted \subseteq Epoch
  /\ Ruled \subseteq Object /\ Batches \subseteq SUBSET Object
  /\ Clicks \subseteq RunId /\ Hand \subseteq [level : 0..2, pinned : BOOLEAN]
  /\ SampleSize \in 1..MinPopulation /\ MinPopulation \in Nat /\ MaxCrashes \in Nat
ASSUME NullAssumption == NoLot \notin Lot /\ NoEpoch \notin Epoch
ASSUME TierAssumption == Tier \in {"default", "safety", "critical"}

VARIABLES
  objects,    \* [Object -> its state, whether a person owns it, the run stamped on it]
  verdict,    \* [Object -> the latest Review row]
  spots,      \* [Lot -> [Object -> the SettlementSpot row]]
  lots,       \* [Lot -> the SettlementLot row]
  runs,       \* [RunId -> the AgentRun row]
  ladder,     \* the active ClassAutonomy row
  flags,      \* governance_state
  champion,   \* the serving model
  moved,      \* a promotion has not yet told the ladder
  tick,       \* [Ticker -> what a tick's session holds]
  plan,       \* [Planner -> the same for plan_lot]
  undo,       \* [Reverter -> the same for a revert]
  crashes     \* sessions that have died

data == <<objects, verdict, spots, runs>>
govern == <<ladder, flags, champion, moved>>
vars == <<objects, verdict, spots, lots, runs, ladder, flags, champion, moved,
          tick, plan, undo, crashes>>

Status == {"none", "judging", "accepted", "rejected", "parked", "settled", "reverted"}
Label == [state : {"review", "settled", "accepted", "rejected"},
          human : BOOLEAN, run : RunId \cup {NoRun}]
LotRow == [status : Status, epoch : Epoch \cup {NoEpoch}, sample : SUBSET Object,
           runs : SUBSET RunId, ack : BOOLEAN]
Was == [state : {"review", "settled", "accepted", "rejected"}, human : BOOLEAN]
Run == [status : {"free", "committed", "reverted"}, lot : Lot \cup {NoLot},
        objs : SUBSET Object, was : [Object -> Was]]
Rung == [set : BOOLEAN, level : 0..2, pinned : BOOLEAN, cooling : BOOLEAN]
Switches == [loop : BOOLEAN, settle : BOOLEAN]

FromReview == [o \in Object |-> [state |-> "review", human |-> FALSE]]
FreeRun == [status |-> "free", lot |-> NoLot, objs |-> {}, was |-> FromReview]
BlankLot == [status |-> "none", epoch |-> NoEpoch, sample |-> {}, runs |-> {}, ack |-> FALSE]

\* A tick: the lots it has yet to visit (rows is its copy of them), the switches it
\* loaded, and, while it settles a lot, the labels still to go and those in hand.
Ticking == [pc : {"idle", "begun", "walk", "passed", "cleared", "failed", "down",
                  "permitted", "settle", "chunk"},
            todo : SUBSET Lot, rows : [Lot -> LotRow], flags : Switches,
            lot : Lot \cup {NoLot}, ids : SUBSET Object, now : SUBSET Object,
            spots : SUBSET Object, aliased : BOOLEAN]
Planning == [pc : {"idle", "asked", "checked"}, epoch : Epoch \cup {NoEpoch},
             sample : SUBSET Object]
Undoing == [pc : {"idle", "next", "undo", "step", "down"}, queue : SUBSET Lot,
            lot : Lot \cup {NoLot}, todo : SUBSET RunId, to : 0..1,
            engaged : BOOLEAN]

NoTick == [pc |-> "idle", todo |-> {}, rows |-> [l \in Lot |-> BlankLot],
           flags |-> [loop |-> FALSE, settle |-> FALSE], lot |-> NoLot, ids |-> {},
           now |-> {}, spots |-> {}, aliased |-> FALSE]
NoPlan == [pc |-> "idle", epoch |-> NoEpoch, sample |-> {}]
NoUndo == [pc |-> "idle", queue |-> {}, lot |-> NoLot, todo |-> {}, to |-> 0,
           engaged |-> FALSE]

TypeOK ==
  /\ objects \in [Object -> Label]
  /\ verdict \in [Object -> {"none", "clean", "defect"}]
  /\ spots \in [Lot -> [Object -> {"none", "open", "correct", "incorrect"}]]
  /\ lots \in [Lot -> LotRow]
  /\ runs \in [RunId -> Run]
  /\ ladder \in Rung /\ flags \in Switches /\ champion \in Epoch /\ moved \in BOOLEAN
  /\ tick \in [Ticker -> Ticking]
  /\ plan \in [Planner -> Planning]
  /\ undo \in [Reverter -> Undoing]
  /\ crashes \in 0..MaxCrashes

-------------------------------------------------------------------------------
(* The autonomy ladder. *)

\* effective_level: the active row, or what the champion's fit makes of it.
Level == IF ladder.set THEN ladder.level ELSE IF champion \in Fitted THEN 1 ELSE 0

Rungs(level, pinned, cooling) ==
  [set |-> TRUE, level |-> level, pinned |-> pinned, cooling |-> cooling]

\* promote_to_settlement's refusals.
MayPromoteClass == ~ladder.pinned /\ ~ladder.cooling /\ Level = 1

\* POST /govern/autonomy/{class}/level.
SetByHand(h) ==
  /\ ladder' = Rungs(h.level, h.pinned, FALSE)
  /\ UNCHANGED <<data, lots, flags, champion, moved, tick, plan, undo, crashes>>

CooldownExpires ==
  /\ ladder.cooling
  /\ ladder' = [ladder EXCEPT !.cooling = FALSE]
  /\ UNCHANGED <<data, lots, flags, champion, moved, tick, plan, undo, crashes>>

\* A promotion commits the new champion and calls on_champion_change afterwards ...
ChampionPromoted(e) ==
  /\ e # champion
  /\ champion' = e /\ moved' = TRUE
  /\ UNCHANGED <<data, lots, ladder, flags, tick, plan, undo, crashes>>

\* ... which drops a class at L2 to L1, without a cooldown.
OnChampionChange ==
  /\ moved
  /\ moved' = FALSE
  /\ ladder' = IF ladder.set /\ ladder.level = 2 THEN Rungs(1, FALSE, FALSE) ELSE ladder
  /\ UNCHANGED <<data, lots, flags, champion, tick, plan, undo, crashes>>

\* It is best effort: the call fails, or the session dies before it.
ChampionChangeLost ==
  /\ moved /\ crashes < MaxCrashes
  /\ moved' = FALSE /\ crashes' = crashes + 1
  /\ UNCHANGED <<data, lots, ladder, flags, champion, tick, plan, undo>>

\* engage; its rollback moves the champion back and does not call on_champion_change.
Engage ==
  /\ flags' = [loop |-> FALSE, settle |-> FALSE]
  /\ \E e \in Epoch : champion' = e
  /\ UNCHANGED <<data, lots, ladder, moved, tick, plan, undo, crashes>>

Release ==
  /\ flags' = [flags EXCEPT !.loop = TRUE]
  /\ UNCHANGED <<data, lots, ladder, champion, moved, tick, plan, undo, crashes>>

\* The operator's switch, written to the row outside the code under src/.
OptIn(on) ==
  /\ flags' = [flags EXCEPT !.settle = on]
  /\ UNCHANGED <<data, lots, ladder, champion, moved, tick, plan, undo, crashes>>

-------------------------------------------------------------------------------
(* Planning a lot: the nightly worker, or a person by POST .../plan. *)

Reviewable(o) == objects[o].state = "review" /\ ~objects[o].human

\* Mutant of Stratum: labels of every epoch are one population.
StratumMixed(e) == {o \in Object : Reviewable(o)}

\* The class's labels of one epoch that are a machine's and in review.
Stratum(e) == {o \in Object : EpochOf[o] = e /\ Reviewable(o)}

\* Mutant of IsOpen: an accepted lot is thought to be done with.
IsOpenJudging(l) == lots[l].status = "judging"

IsOpen(l) == lots[l].status \in {"judging", "accepted"}
Enough(e) == Cardinality(Stratum(e)) >= MinPopulation

\* plan_lot's refusals: a population too small, an open lot on the stratum.
Plannable(e) == Enough(e) /\ ~\E l \in Lot : IsOpen(l) /\ lots[l].epoch = e

\* The sample: the front of the permutation of what is in the stratum now.
Drawn(e) ==
  {o \in Stratum(e) : Cardinality({p \in Stratum(e) : Draw[p] < Draw[o]}) < SampleSize}

PlanCheck(p, e) ==
  /\ plan[p].pc = "idle" \/ (plan[p].pc = "asked" /\ plan[p].epoch = e)
  /\ Plannable(e)
  /\ plan' = [plan EXCEPT ![p] = [pc |-> "checked", epoch |-> e, sample |-> Drawn(e)]]
  /\ UNCHANGED <<data, lots, govern, tick, undo, crashes>>

PlanRefused(p) ==
  /\ plan[p].pc = "asked" /\ ~Plannable(plan[p].epoch)
  /\ plan' = [plan EXCEPT ![p] = NoPlan]
  /\ UNCHANGED <<data, lots, govern, tick, undo, crashes>>

\* The insert, after ontology lookups, counts and the draw; no constraint backs the check.
PlanInsert(p, l) ==
  /\ plan[p].pc = "checked" /\ lots[l].status = "none"
  /\ lots' = [lots EXCEPT ![l] = [BlankLot EXCEPT
                 !.status = "judging", !.epoch = plan[p].epoch, !.sample = plan[p].sample]]
  /\ plan' = [plan EXCEPT ![p] = NoPlan]
  /\ UNCHANGED <<data, govern, tick, undo, crashes>>

-------------------------------------------------------------------------------
(* A tick: the tally. *)

TickBegin(s) ==
  /\ tick[s].pc = "idle" /\ flags.loop
  /\ tick' = [tick EXCEPT ![s] = [NoTick EXCEPT !.pc = "begun", !.flags = flags]]
  /\ UNCHANGED <<data, lots, govern, plan, undo, crashes>>

\* maybe_tally_and_settle lists the open lots, a scan and some promotions later.
ListLots(s) ==
  /\ tick[s].pc = "begun"
  /\ tick' = [tick EXCEPT ![s] = [@ EXCEPT !.pc = "walk", !.todo = {l \in Lot : IsOpen(l)},
                 !.rows = [l \in Lot |-> IF IsOpen(l) THEN lots[l] ELSE BlankLot]]]
  /\ UNCHANGED <<data, lots, govern, plan, undo, crashes>>

\* What the session holds when it is done with lot l.
Visited(s, l) ==
  [NoTick EXCEPT !.pc = "walk", !.flags = tick[s].flags, !.todo = tick[s].todo \ {l},
                 !.rows = [tick[s].rows EXCEPT ![l] = BlankLot]]

\* Where it stands while it works on lot l.
At(s, l, pc) == [tick[s] EXCEPT !.pc = pc, !.lot = l]

Visits(s, l, status) ==
  tick[s].pc = "walk" /\ l \in tick[s].todo /\ tick[s].rows[l].status = status

\* The completion floor, on samples of this size: every label has its verdict.
Judged(sample) == \A o \in sample : verdict[o] # "none"

\* Mutant of Decision: the verdict itself is written where a status belongs.
DecisionVerdict(sample) ==
  IF \A o \in sample : verdict[o] = "clean" THEN "accept"
  ELSE IF \A o \in sample : verdict[o] = "defect" THEN "rejected" ELSE "parked"

\* The decision rules on a judged sample; a mixed one stays inconclusive at the cap.
Decision(sample) ==
  IF \A o \in sample : verdict[o] = "clean" THEN "accepted"
  ELSE IF \A o \in sample : verdict[o] = "defect" THEN "rejected" ELSE "parked"

Tally(s, l) ==
  LET old == tick[s].rows[l]
      outcome == Decision(old.sample)
      new == [old EXCEPT !.status = outcome]
  IN /\ Visits(s, l, "judging")
     /\ Judged(old.sample)
     /\ lots' = [lots EXCEPT ![l] = Flush(lots[l], old, new)]
     /\ tick' = [tick EXCEPT ![s] =
                   IF outcome = "accepted" THEN At(s, l, "passed")
                   ELSE IF outcome = "rejected" THEN At(s, l, "failed") ELSE Visited(s, l)]
     /\ UNCHANGED <<data, govern, plan, undo, crashes>>

\* Not every label is judged, or the test asks for the next increment.
TallyWaits(s, l) ==
  /\ Visits(s, l, "judging")
  /\ tick' = [tick EXCEPT ![s] = Visited(s, l)]
  /\ UNCHANGED <<data, lots, govern, plan, undo, crashes>>

\* promote_to_settlement reads the rung ...
PromoteCheck(s) ==
  /\ tick[s].pc = "passed"
  /\ tick' = [tick EXCEPT ![s] = IF MayPromoteClass THEN At(s, tick[s].lot, "cleared")
                                ELSE Visited(s, tick[s].lot)]
  /\ UNCHANGED <<data, lots, govern, plan, undo, crashes>>

\* ... and set_level writes it, unconditionally.
Promote(s) ==
  /\ tick[s].pc = "cleared"
  /\ ladder' = Rungs(2, FALSE, FALSE)
  /\ tick' = [tick EXCEPT ![s] = Visited(s, tick[s].lot)]
  /\ UNCHANGED <<data, lots, flags, champion, moved, plan, undo, crashes>>

\* A rejected lot steps the class down to 0: step_down reads, then writes.
RejectCheck(s) ==
  /\ tick[s].pc = "failed"
  /\ tick' = [tick EXCEPT ![s] = IF Level > 0 THEN At(s, tick[s].lot, "down")
                                ELSE Visited(s, tick[s].lot)]
  /\ UNCHANGED <<data, lots, govern, plan, undo, crashes>>

RejectStepDown(s) ==
  /\ tick[s].pc = "down"
  /\ ladder' = Rungs(0, FALSE, TRUE)
  /\ tick' = [tick EXCEPT ![s] = Visited(s, tick[s].lot)]
  /\ UNCHANGED <<data, lots, flags, champion, moved, plan, undo, crashes>>

-------------------------------------------------------------------------------
(* A tick: settling an accepted lot. *)

\* No other lot of this epoch is settled: a safety class's first needs a person's ack.
FirstOfEpoch(s, l) ==
  \A k \in Lot \ {l} :
    ~(lots[k].epoch = tick[s].rows[l].epoch /\ lots[k].status = "settled")

\* Mutant of MaySettle: the ack of a safety class's first lot is forgotten.
MaySettleUnacked(s, l) ==
  Tier # "critical" /\ Level = 2 /\ tick[s].flags.loop /\ tick[s].flags.settle

\* The tick's conditions and settle_lot's own: both look at the switches, and both at
\* the copy the session loaded when the tick began.
MaySettle(s, l) ==
  /\ Tier # "critical"
  /\ Level = 2
  /\ tick[s].flags.loop /\ tick[s].flags.settle
  /\ Tier = "safety" /\ FirstOfEpoch(s, l) => tick[s].rows[l].ack

Permit(s, l) ==
  /\ Visits(s, l, "accepted")
  /\ tick' = [tick EXCEPT ![s] = IF MaySettle(s, l) THEN At(s, l, "permitted")
                                ELSE Visited(s, l)]
  /\ UNCHANGED <<data, lots, govern, plan, undo, crashes>>

\* The lot asserts the labels of its stratum that it did not sample.
Remainder(row) == Stratum(row.epoch) \ row.sample

SettleList(s) ==
  /\ tick[s].pc = "permitted"
  /\ tick' = [tick EXCEPT ![s] = [@ EXCEPT !.pc = "settle",
                 !.ids = Remainder(tick[s].rows[tick[s].lot])]]
  /\ UNCHANGED <<data, lots, govern, plan, undo, crashes>>

FirstChunk(ids) == {o \in ids : \A p \in ids : Chunk[o] <= Chunk[p]}

\* The SELECT of one chunk: what is still a machine's and in review.
ReadChunk(s) ==
  LET chunk == FirstChunk(tick[s].ids)
  IN /\ tick[s].pc = "settle" /\ tick[s].ids # {}
     /\ tick' = [tick EXCEPT ![s] = [@ EXCEPT !.pc = "chunk", !.ids = tick[s].ids \ chunk,
                    !.now = {o \in chunk : Reviewable(o)}]]
     /\ UNCHANGED <<data, lots, govern, plan, undo, crashes>>

IsNextRun(r) ==
  runs[r].status = "free" /\ \A q \in RunId : q < r => runs[q].status # "free"

\* What the session takes the row's run_ids to have been when it flushes them.  The
\* first chunk assigns a new list; later ones append to that same list, so the loaded
\* value has grown with the current one and the flush sees no change.
LoadedRuns(s, old, new) == IF tick[s].aliased THEN new ELSE old

\* One transaction: the labels, their run, the lot's run_ids.  It updates state and
\* provenance of the rows it read, and leaves their source alone.
WriteChunk(s, r) ==
  LET l == tick[s].lot
      old == tick[s].rows[l]
      new == [old EXCEPT !.runs = old.runs \cup {r}]
      S == tick[s].now
  IN /\ tick[s].pc = "chunk" /\ IsNextRun(r)
     /\ objects' = [o \in Object |-> IF o \in S
                       THEN [objects[o] EXCEPT !.state = "settled", !.run = r] ELSE objects[o]]
     /\ runs' = [runs EXCEPT ![r] = [FreeRun EXCEPT !.status = "committed", !.lot = l,
                                                    !.objs = S]]
     /\ lots' = [lots EXCEPT ![l] = Flush(lots[l], LoadedRuns(s, old, new), new)]
     /\ tick' = [tick EXCEPT ![s] = [@ EXCEPT !.pc = "settle", !.now = {}, !.aliased = TRUE,
                    !.rows = [tick[s].rows EXCEPT ![l] = new],
                    !.spots = tick[s].spots \cup (S \cap Spot)]]
     /\ UNCHANGED <<verdict, spots, govern, plan, undo, crashes>>

\* The spot rows of this call's labels, and the status, once every chunk is written.
SettleEnd(s) ==
  LET l == tick[s].lot
      old == tick[s].rows[l]
      new == [old EXCEPT !.status = "settled"]
  IN /\ tick[s].pc = "settle" /\ tick[s].ids = {}
     /\ spots' = [spots EXCEPT ![l] = [o \in Object |->
                    IF o \in tick[s].spots /\ spots[l][o] = "none" THEN "open" ELSE spots[l][o]]]
     /\ lots' = [lots EXCEPT ![l] = Flush(lots[l], old, new)]
     /\ tick' = [tick EXCEPT ![s] = Visited(s, l)]
     /\ UNCHANGED <<objects, verdict, runs, govern, plan, undo, crashes>>

-------------------------------------------------------------------------------
(* A tick: the nightly half, and its end. *)

Walked(s) == tick[s].pc = "walk" /\ tick[s].todo = {}

\* maybe_build_lots: a class at L1 or above with no open lot at all, its largest stratum.
BuildLot(s, p, e) ==
  /\ Walked(s) /\ plan[p].pc = "idle"
  /\ tick[s].flags.loop /\ Level >= 1
  /\ ~\E l \in Lot : IsOpen(l)
  /\ Enough(e) /\ \A f \in Epoch : Cardinality(Stratum(f)) <= Cardinality(Stratum(e))
  /\ plan' = [plan EXCEPT ![p] = [NoPlan EXCEPT !.pc = "asked", !.epoch = e]]
  /\ UNCHANGED <<data, lots, govern, tick, undo, crashes>>

Breached == {l \in Lot : lots[l].status = "settled" /\ \E o \in Object : spots[l][o] = "incorrect"}

\* maybe_spot_check: the worker is told whether the cord was pulled, as the tick knew it.
SpotCheck(s, w) ==
  /\ Walked(s) /\ undo[w].pc = "idle" /\ Breached # {}
  /\ undo' = [undo EXCEPT ![w] = [NoUndo EXCEPT !.pc = "next", !.queue = Breached,
                                               !.engaged = ~tick[s].flags.loop]]
  /\ tick' = [tick EXCEPT ![s] = NoTick]
  /\ UNCHANGED <<data, lots, govern, plan, crashes>>

TickEnd(s) ==
  /\ Walked(s)
  /\ tick' = [tick EXCEPT ![s] = NoTick]
  /\ UNCHANGED <<data, lots, govern, plan, undo, crashes>>

-------------------------------------------------------------------------------
(* Taking runs and lots back. *)

\* Mutant of Owned: what a person took over is restored too.
OwnedByRun(r) == {o \in runs[r].objs : objects[o].run = r}

\* revert_run restores only what still carries the run's id; a settlement run also
\* leaves alone what a person owns, a review batch (no lot) made it a person's itself.
Owned(r) ==
  {o \in runs[r].objs : objects[o].run = r /\ (runs[r].lot = NoLot \/ ~objects[o].human)}

Restored(r) ==
  [o \in Object |-> IF o \in Owned(r)
     THEN [state |-> runs[r].was[o].state, human |-> runs[r].was[o].human, run |-> NoRun]
     ELSE objects[o]]

\* Mutants of RevertRun: its labels are not given back; the run is not marked.
RevertRunMarked(r) ==
  /\ runs' = [runs EXCEPT ![r] = [@ EXCEPT !.status = "reverted"]]
  /\ UNCHANGED objects
RevertRunUnmarked(r) ==
  /\ objects' = Restored(r)
  /\ UNCHANGED runs

RevertRun(r) ==
  /\ objects' = Restored(r)
  /\ runs' = [runs EXCEPT ![r] = [@ EXCEPT !.status = "reverted"]]

\* POST /agent/runs/{id}/revert: one run, a batch of reviews or a chunk of a lot.
RevertByName(r) ==
  /\ r \in Clicks /\ runs[r].status = "committed"
  /\ RevertRun(r)
  /\ UNCHANGED <<verdict, spots, lots, govern, tick, plan, undo, crashes>>

\* POST .../revert of a settled lot; its step-down goes to 1, the spot check's to 0.
ManualRevert(w, l) ==
  /\ undo[w].pc = "idle" /\ lots[l].status = "settled"
  /\ undo' = [undo EXCEPT ![w] = [NoUndo EXCEPT !.pc = "undo", !.lot = l, !.to = 1,
                                               !.todo = lots[l].runs]]
  /\ UNCHANGED <<data, lots, govern, tick, plan, crashes>>

\* The worker's next breach: a proposal if it was told the cord is pulled; the revert
\* of a lot that is no longer settled is refused, its step-down is not.
WorkerNext(w, l) ==
  LET rest == undo[w].queue \ {l}
  IN /\ undo[w].pc = "next" /\ l \in undo[w].queue
     /\ undo' = [undo EXCEPT ![w] =
          IF undo[w].engaged THEN [@ EXCEPT !.queue = rest]
          ELSE IF lots[l].status = "settled"
          THEN [@ EXCEPT !.pc = "undo", !.queue = rest, !.lot = l, !.todo = lots[l].runs]
          ELSE [@ EXCEPT !.pc = "step", !.queue = rest, !.lot = l]]
     /\ UNCHANGED <<data, lots, govern, tick, plan, crashes>>

WorkerEnd(w) ==
  /\ undo[w].pc = "next" /\ undo[w].queue = {}
  /\ undo' = [undo EXCEPT ![w] = NoUndo]
  /\ UNCHANGED <<data, lots, govern, tick, plan, crashes>>

\* One run of the lot; a run someone reverted already is skipped.
UndoRun(w, r) ==
  /\ undo[w].pc = "undo" /\ r \in undo[w].todo
  /\ IF runs[r].status = "committed" THEN RevertRun(r) ELSE UNCHANGED <<objects, runs>>
  /\ undo' = [undo EXCEPT ![w] = [@ EXCEPT !.todo = undo[w].todo \ {r}]]
  /\ UNCHANGED <<verdict, spots, lots, govern, tick, plan, crashes>>

UndoEnd(w) ==
  /\ undo[w].pc = "undo" /\ undo[w].todo = {}
  /\ lots' = [lots EXCEPT ![undo[w].lot] = [@ EXCEPT !.status = "reverted"]]
  /\ undo' = [undo EXCEPT ![w] = [@ EXCEPT !.pc = "step"]]
  /\ UNCHANGED <<data, govern, tick, plan, crashes>>

\* Back to the worker's loop, which a manual revert does not have.
Stepped(w) ==
  IF undo[w].to = 1 THEN NoUndo ELSE [undo[w] EXCEPT !.pc = "next", !.lot = NoLot]

StepCheck(w) ==
  /\ undo[w].pc = "step"
  /\ undo' = [undo EXCEPT ![w] = IF undo[w].to >= Level THEN Stepped(w)
                                ELSE [@ EXCEPT !.pc = "down"]]
  /\ UNCHANGED <<data, lots, govern, tick, plan, crashes>>

StepDown(w) ==
  /\ undo[w].pc = "down"
  /\ ladder' = Rungs(undo[w].to, FALSE, TRUE)
  /\ undo' = [undo EXCEPT ![w] = Stepped(w)]
  /\ UNCHANGED <<data, lots, flags, champion, moved, tick, plan, crashes>>

-------------------------------------------------------------------------------
(* People. *)

Ruling(v) == IF v = "clean" THEN "accepted" ELSE "rejected"
SpotAnswer(v) == IF v = "clean" THEN "correct" ELSE "incorrect"

\* POST /objects/{id}/review.
Rule(o, v) ==
  /\ o \in Ruled
  /\ objects' = [objects EXCEPT ![o] = [@ EXCEPT !.state = Ruling(v), !.human = TRUE]]
  /\ verdict' = [verdict EXCEPT ![o] = v]
  /\ UNCHANGED <<spots, runs, lots, govern, tick, plan, undo, crashes>>

\* POST /review/bulk: one revertible run, and the answers to open spot checks.
RuleBatch(S, v, r) ==
  /\ IsNextRun(r)
  /\ objects' = [o \in Object |-> IF o \in S
                   THEN [state |-> Ruling(v), human |-> TRUE, run |-> r] ELSE objects[o]]
  /\ verdict' = [o \in Object |-> IF o \in S THEN v ELSE verdict[o]]
  /\ spots' = [l \in Lot |-> [o \in Object |->
                 IF o \in S /\ spots[l][o] = "open" THEN SpotAnswer(v) ELSE spots[l][o]]]
  /\ runs' = [runs EXCEPT ![r] = [status |-> "committed", lot |-> NoLot, objs |-> S,
       was |-> [o \in Object |-> IF o \in S
                  THEN [state |-> objects[o].state, human |-> objects[o].human]
                  ELSE FromReview[o]]]]
  /\ UNCHANGED <<lots, govern, tick, plan, undo, crashes>>

\* POST .../ack.
Ack(l) ==
  /\ lots[l].status = "accepted"
  /\ lots' = [lots EXCEPT ![l] = [@ EXCEPT !.ack = TRUE]]
  /\ UNCHANGED <<data, govern, tick, plan, undo, crashes>>

-------------------------------------------------------------------------------
Init ==
  /\ objects = [o \in Object |-> [state |-> "review", human |-> FALSE, run |-> NoRun]]
  /\ verdict = [o \in Object |-> "none"]
  /\ spots = [l \in Lot |-> [o \in Object |-> "none"]]
  /\ lots = [l \in Lot |-> BlankLot]
  /\ runs = [r \in RunId |-> FreeRun]
  /\ ladder = [set |-> FALSE, level |-> 0, pinned |-> FALSE, cooling |-> FALSE]
  /\ flags = [loop |-> TRUE, settle |-> TRUE]
  /\ champion \in Fitted /\ moved = FALSE
  /\ tick = [s \in Ticker |-> NoTick]
  /\ plan = [p \in Planner |-> NoPlan]
  /\ undo = [w \in Reverter |-> NoUndo]
  /\ crashes = 0

\* A process dies, or a worker's task is cancelled, between two commits.
Crash ==
  /\ crashes < MaxCrashes /\ crashes' = crashes + 1
  /\ \/ \E s \in Ticker : /\ tick[s].pc # "idle" /\ tick' = [tick EXCEPT ![s] = NoTick]
                          /\ UNCHANGED <<plan, undo>>
     \/ \E p \in Planner : /\ plan[p].pc # "idle" /\ plan' = [plan EXCEPT ![p] = NoPlan]
                           /\ UNCHANGED <<tick, undo>>
     \/ \E w \in Reverter : /\ undo[w].pc # "idle" /\ undo' = [undo EXCEPT ![w] = NoUndo]
                            /\ UNCHANGED <<tick, plan>>
  /\ UNCHANGED <<data, lots, govern>>

TallyStep(s) ==
  \/ \E l \in Lot : TallyWaits(s, l) \/ Tally(s, l)
  \/ PromoteCheck(s) \/ Promote(s) \/ RejectCheck(s) \/ RejectStepDown(s)

SettleStep(s) ==
  \/ \E l \in Lot : Permit(s, l)
  \/ SettleList(s) \/ ReadChunk(s) \/ SettleEnd(s)
  \/ \E r \in RunId : WriteChunk(s, r)

TickStep(s) == TickBegin(s) \/ ListLots(s) \/ TallyStep(s) \/ SettleStep(s) \/ TickEnd(s)

NightStep(s) ==
  \/ \E p \in Planner, e \in Epoch : BuildLot(s, p, e)
  \/ \E w \in Reverter : SpotCheck(s, w)

PlanStep(p) ==
  \/ \E e \in Epoch : PlanCheck(p, e)
  \/ PlanRefused(p)
  \/ \E l \in Lot : PlanInsert(p, l)

UndoStep(w) ==
  \/ \E l \in Lot : ManualRevert(w, l) \/ WorkerNext(w, l)
  \/ WorkerEnd(w) \/ UndoEnd(w) \/ StepCheck(w) \/ StepDown(w)
  \/ \E r \in RunId : UndoRun(w, r)

PersonStep ==
  \/ \E o \in Object, v \in {"clean", "defect"} : Rule(o, v)
  \/ \E S \in Batches, v \in {"clean", "defect"}, r \in RunId : RuleBatch(S, v, r)
  \/ \E r \in RunId : RevertByName(r)
  \/ \E l \in Lot : Ack(l)
  \/ \E h \in Hand : SetByHand(h)

GovernStep ==
  \/ CooldownExpires
  \/ \E e \in Epoch : ChampionPromoted(e)
  \/ OnChampionChange \/ ChampionChangeLost
  \/ Engage \/ Release \/ \E on \in BOOLEAN : OptIn(on)

Next ==
  \/ \E s \in Ticker : TickStep(s) \/ NightStep(s)
  \/ \E p \in Planner : PlanStep(p)
  \/ \E w \in Reverter : UndoStep(w)
  \/ PersonStep \/ GovernStep \/ Crash

Spec == Init /\ [][Next]_vars

\* The daemon ticks for ever on a fixed cadence and restarts after a crash.
FairSpec == Spec /\ \A s \in Ticker : WF_vars(TickStep(s))

-------------------------------------------------------------------------------
(* Safety. *)

SettlementRuns == {r \in RunId : runs[r].status = "committed" /\ runs[r].lot \in Lot}

\* Whatever a committed run settled, it settled under a lot that passed, from that
\* lot's stratum, and not from the sample the decision was made on
\* (settlement.py:tally_lot, settle_lot), however lots, crashes and reverts interleave.
SettledUnderPassedLot ==
  \A r \in SettlementRuns :
    LET lot == lots[runs[r].lot]
    IN /\ lot.status \in {"accepted", "settled", "reverted"}
       /\ \A o \in runs[r].objs : EpochOf[o] = lot.epoch /\ o \notin lot.sample

\* Every label the machine closed carries the id of a committed run that lists it, so
\* reverting that run reopens it (settlement.py header, runs.py:revert_run).
SettledIsRevertible ==
  \A o \in Object : objects[o].state = "settled" /\ ~objects[o].human =>
    \E r \in RunId : r = objects[o].run /\ runs[r].status = "committed" /\ o \in runs[r].objs

\* No label is claimed by two committed runs: reverted ones give up their claim before
\* another lot takes the label (settle_lot, revert_run).
NoDoubleClaim ==
  \A r, q \in SettlementRuns : r # q => runs[r].objs \cap runs[q].objs = {}

\* The first lot a safety class settles in an epoch carries a person's ack
\* (settlement_agent.py:_first_epoch_lot).
SafetyLotWasAcked ==
  \A l \in Lot : Tier = "safety" /\ lots[l].status = "settled" =>
    \/ lots[l].ack
    \/ \E k \in Lot \ {l} : lots[k].epoch = lots[l].epoch
                            /\ lots[k].status \in {"settled", "reverted"}

\* revert_lot: every label the lot settled is back in review once it is reverted.
RevertReturnsAll ==
  \A r \in SettlementRuns, o \in Object :
    objects[o] = [state |-> "settled", human |-> FALSE, run |-> r] =>
      lots[runs[r].lot].status # "reverted"

\* A settled lot has a spot row for every label of it that the spot hash picks, so
\* that the continuous check looks at all of it.
SpotsCoverLot ==
  \A r \in SettlementRuns :
    LET l == runs[r].lot
    IN lots[l].status = "settled" => \A o \in runs[r].objs \cap Spot : spots[l][o] # "none"

\* A step of the machine never changes what a person ruled.
HumanRulingStands ==
  [][\A s \in Ticker : tick[s].pc = "chunk" /\ tick'[s].pc = "settle" =>
       \A o \in Object : objects[o].human => objects'[o] = objects[o]]_vars

IsPromoted(s) == tick[s].pc = "cleared" /\ tick'[s].pc = "walk"

\* The machine never promotes over a pin or inside a cooldown.
PromotionRespectsOverrides ==
  [][\A s \in Ticker : IsPromoted(s) => ~ladder.pinned /\ ~ladder.cooling]_vars

-------------------------------------------------------------------------------
(* The promise, and liveness. *)

Owner(o) ==
  IF objects[o].human THEN "a person"
  ELSE IF objects[o].state # "settled" THEN "nobody"
  ELSE IF objects[o].run = NoRun THEN "nobody" ELSE runs[objects[o].run].lot

Promise == INSTANCE LotPromise WITH
  Nobody <- "nobody", Someone <- "a person",
  status <- [l \in Lot |-> lots[l].status], owner <- [o \in Object |-> Owner(o)]

\* Settlement implements LotPromise: lots live in order, close labels only between
\* passing and settling, give them back only when undone, and never take a person's.
KeepsPromise == Promise!Spec

\* A lot's status only moves along the life models.py gives it.
LotLifeInOrder ==
  [][\A l \in Lot : lots'[l].status # lots[l].status =>
       <<lots[l].status, lots'[l].status>> \in Promise!Moves]_vars

\* A passed lot that everything goes on allowing to settle does settle, through crashes
\* between its chunks: an interruption keeps what is settled, and a later tick goes on.
AllowedLotSettles ==
  \A l \in Lot :
    <>[](Level = 2 /\ flags.loop /\ flags.settle /\ (Tier = "safety" => lots[l].ack)) =>
      (lots[l].status = "accepted" ~> lots[l].status # "accepted")

\* The passed lot is the promotion of its class: while the loop runs it does not stay
\* accepted under L1.
PassedLotPromotes ==
  \A l \in Lot : <>[]flags.loop =>
    (lots[l].status = "accepted" ~> (Level = 2 \/ lots[l].status # "accepted"))
=============================================================================
