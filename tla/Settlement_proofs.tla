-------------------------- MODULE Settlement_proofs --------------------------
(* Theorems of Settlement, for any labels, lots, epochs, sessions and runs. *)
EXTENDS Settlement, TLAPS

-------------------------------------------------------------------------------
(* The operators. *)

\* What a flush of a lot's row leaves is such a row.
LEMMA FlushType ==
  ASSUME NEW row \in LotRow, NEW loaded \in LotRow, NEW current \in LotRow
  PROVE  Flush(row, loaded, current) \in LotRow
BY DEF LotRow, Flush

LEMMA BlankType == BlankLot \in LotRow /\ NoTick \in Ticking /\ NoPlan \in Planning
                   /\ NoUndo \in Undoing /\ FreeRun \in Run /\ FromReview \in [Object -> Was]
<1>1. BlankLot \in LotRow BY DEF BlankLot, LotRow, Status
<1>2. NoTick \in Ticking BY <1>1 DEF NoTick, Ticking, Switches
<1>3. FromReview \in [Object -> Was] BY DEF FromReview, Was
<1>4. FreeRun \in Run BY <1>3 DEF FreeRun, Run
<1> QED BY <1>1, <1>2, <1>3, <1>4 DEF NoPlan, Planning, NoUndo, Undoing

\* Where a tick stands once it visits a lot, or is done with it.
LEMMA TickTypes ==
  ASSUME TypeOK, NEW s \in Ticker, NEW l \in Lot \cup {NoLot}
  PROVE  /\ Visited(s, l) \in Ticking
         /\ \A pc \in {"passed", "cleared", "failed", "down", "permitted"} :
              At(s, l, pc) \in Ticking
<1>1. tick[s] \in Ticking BY DEF TypeOK
<1>2. [tick[s].rows EXCEPT ![l] = BlankLot] \in [Lot -> LotRow]
  BY <1>1, BlankType DEF Ticking
<1>3. Visited(s, l) \in Ticking
  BY <1>1, <1>2, BlankType DEF Visited, Ticking
<1>4. ASSUME NEW pc \in {"passed", "cleared", "failed", "down", "permitted"}
      PROVE  At(s, l, pc) \in Ticking
  BY <1>1 DEF At, Ticking
<1> QED BY <1>3, <1>4

\* Labels a run gives back are labels.
LEMMA RestoredType ==
  ASSUME TypeOK, NEW r \in RunId
  PROVE  Restored(r) \in [Object -> Label]
<1>1. runs[r].was \in [Object -> Was] BY DEF TypeOK, Run
<1>2. ASSUME NEW o \in Object
      PROVE  [state |-> runs[r].was[o].state, human |-> runs[r].was[o].human, run |-> NoRun]
               \in Label
  BY <1>1 DEF Was, Label
<1>3. ASSUME NEW o \in Object PROVE objects[o] \in Label BY DEF TypeOK
<1> QED BY <1>2, <1>3 DEF Restored

LEMMA RevertRunType ==
  ASSUME TypeOK, NEW r \in RunId, RevertRun(r)
  PROVE  objects' \in [Object -> Label] /\ runs' \in [RunId -> Run]
<1>1. [runs[r] EXCEPT !.status = "reverted"] \in Run BY DEF TypeOK, Run
<1> QED BY <1>1, RestoredType DEF RevertRun, TypeOK

-------------------------------------------------------------------------------
(* Type correctness. *)

LEMMA InitType == Init => TypeOK
<1> SUFFICES ASSUME Init PROVE TypeOK OBVIOUS
<1>1. objects \in [Object -> Label] BY DEF Init, Label
<1>2. ladder \in Rung /\ flags \in Switches BY DEF Init, Rung, Switches
<1>3. champion \in Epoch /\ moved \in BOOLEAN BY ShapeAssumption DEF Init
<1>4. crashes \in 0..MaxCrashes BY ShapeAssumption DEF Init
<1> QED BY <1>1, <1>2, <1>3, <1>4, BlankType DEF Init, TypeOK

LEMMA TallyType ==
  ASSUME TypeOK, NEW s \in Ticker, TallyStep(s)
  PROVE  TypeOK'
<1>t. tick[s] \in Ticking BY DEF TypeOK
<1>1. ASSUME NEW l \in Lot, TallyWaits(s, l) PROVE TypeOK'
  BY <1>1, TickTypes DEF TallyWaits, TypeOK, data, govern
<1>2. ASSUME NEW l \in Lot, Tally(s, l) PROVE TypeOK'
  <2> DEFINE old == tick[s].rows[l]
             outcome == Decision(old.sample)
             new == [old EXCEPT !.status = outcome]
  <2>1. old \in LotRow BY <1>t DEF Ticking
  <2>2. outcome \in {"accepted", "rejected", "parked"} BY DEF Decision
  <2>3. new \in LotRow
    <3> HIDE DEF outcome
    <3> QED BY <2>1, <2>2 DEF LotRow, Status
  <2>4. Flush(lots[l], old, new) \in LotRow
    <3> HIDE DEF old, new
    <3> QED BY <2>1, <2>3, FlushType DEF TypeOK
  <2>5. lots' \in [Lot -> LotRow] BY <2>4, <1>2 DEF Tally, TypeOK
  <2>6. tick' \in [Ticker -> Ticking]
    <3> HIDE DEF outcome
    <3>1. tick' = [tick EXCEPT ![s] =
                   IF outcome = "accepted" THEN At(s, l, "passed")
                   ELSE IF outcome = "rejected" THEN At(s, l, "failed") ELSE Visited(s, l)]
      BY <1>2 DEF Tally, outcome
    <3> QED BY <3>1, <2>2, TickTypes DEF TypeOK
  <2> QED BY <2>5, <2>6, <1>2 DEF Tally, TypeOK, data, govern
<1>l. tick[s].lot \in Lot \cup {NoLot} BY <1>t DEF Ticking
<1>v. /\ Visited(s, tick[s].lot) \in Ticking
      /\ At(s, tick[s].lot, "cleared") \in Ticking /\ At(s, tick[s].lot, "down") \in Ticking
  BY <1>l, TickTypes
<1>3. CASE PromoteCheck(s)
  BY <1>3, <1>v DEF PromoteCheck, TypeOK, data, govern
<1>4. CASE Promote(s)
  <2>1. Rungs(2, FALSE, FALSE) \in Rung BY DEF Rungs, Rung
  <2> QED BY <1>4, <1>v, <2>1 DEF Promote, TypeOK, data
<1>5. CASE RejectCheck(s)
  BY <1>5, <1>v DEF RejectCheck, TypeOK, data, govern
<1>6. CASE RejectStepDown(s)
  <2>1. Rungs(0, FALSE, TRUE) \in Rung BY DEF Rungs, Rung
  <2> QED BY <1>6, <1>v, <2>1 DEF RejectStepDown, TypeOK, data
<1> QED BY <1>1, <1>2, <1>3, <1>4, <1>5, <1>6 DEF TallyStep

LEMMA SettleType ==
  ASSUME TypeOK, NEW s \in Ticker, SettleStep(s)
  PROVE  TypeOK'
<1> DEFINE l == tick[s].lot
<1>t. tick[s] \in Ticking /\ l \in Lot \cup {NoLot} BY DEF TypeOK, Ticking
<1>1. ASSUME NEW k \in Lot, Permit(s, k) PROVE TypeOK'
  BY <1>1, TickTypes DEF Permit, TypeOK, data, govern
<1>2. CASE SettleList(s)
  <2>1. Remainder(tick[s].rows[l]) \in SUBSET Object BY DEF Remainder, Stratum
  <2>2. [tick[s] EXCEPT !.pc = "settle", !.ids = Remainder(tick[s].rows[l])] \in Ticking
    BY <2>1, <1>t DEF Ticking
  <2> QED BY <2>2, <1>2 DEF SettleList, TypeOK, data, govern
<1>3. CASE ReadChunk(s)
  <2> DEFINE chunk == FirstChunk(tick[s].ids)
  <2>1. chunk \subseteq Object BY <1>t DEF FirstChunk, Ticking
  <2>2. [tick[s] EXCEPT !.pc = "chunk", !.ids = tick[s].ids \ chunk,
                        !.now = {o \in chunk : Reviewable(o)}] \in Ticking
    <3> HIDE DEF chunk
    <3> QED BY <2>1, <1>t DEF Ticking
  <2> QED BY <2>2, <1>3 DEF ReadChunk, TypeOK, data, govern
<1>4. ASSUME NEW r \in RunId, WriteChunk(s, r) PROVE TypeOK'
  <2> DEFINE old == tick[s].rows[l]
             new == [old EXCEPT !.runs = old.runs \cup {r}]
             S == tick[s].now
             after == [tick[s].rows EXCEPT ![l] = new]
  <2>1. S \subseteq Object BY <1>t DEF Ticking
  <2>2. objects' \in [Object -> Label]
    <3>1. ASSUME NEW o \in Object
          PROVE  [objects[o] EXCEPT !.state = "settled", !.run = r] \in Label /\ objects[o] \in Label
      BY DEF TypeOK, Label
    <3> QED BY <3>1, <1>4 DEF WriteChunk
  <2>3. [FreeRun EXCEPT !.status = "committed", !.lot = l, !.objs = S] \in Run
    BY <1>t, <2>1, BlankType DEF Run
  <2>4. runs' \in [RunId -> Run] BY <2>3, <1>4 DEF WriteChunk, TypeOK
  <2>5. ASSUME l \in Lot PROVE lots' \in [Lot -> LotRow] /\ after \in [Lot -> LotRow]
    <3>1. old \in LotRow BY <2>5, <1>t DEF Ticking
    <3>2. new \in LotRow
      <4> HIDE DEF old
      <4> QED BY <3>1 DEF LotRow
    <3>3. LoadedRuns(s, old, new) \in LotRow BY <3>1, <3>2 DEF LoadedRuns
    <3>4. Flush(lots[l], LoadedRuns(s, old, new), new) \in LotRow
      <4> HIDE DEF old, new
      <4> QED BY <3>2, <3>3, <2>5, FlushType DEF TypeOK
    <3>5. lots' \in [Lot -> LotRow] BY <3>4, <1>4 DEF WriteChunk, TypeOK
    <3>6. after \in [Lot -> LotRow]
      <4> HIDE DEF new
      <4> QED BY <3>2, <1>t DEF Ticking
    <3> HIDE DEF after
    <3> QED BY <3>5, <3>6
  <2>6. ASSUME l = NoLot PROVE lots' \in [Lot -> LotRow] /\ after \in [Lot -> LotRow]
    <3>1. lots' = [lots EXCEPT ![l] = Flush(lots[l], LoadedRuns(s, old, new), new)]
      BY <1>4 DEF WriteChunk
    <3>2. l \notin Lot BY <2>6, NullAssumption
    <3>3. tick[s].rows \in [Lot -> LotRow] BY <1>t DEF Ticking
    <3> HIDE DEF new, l
    <3>4. after = tick[s].rows BY <3>2, <3>3
    <3>5. lots' = lots BY <3>1, <3>2 DEF TypeOK
    <3> QED BY <3>3, <3>4, <3>5 DEF TypeOK
  <2>7. lots' \in [Lot -> LotRow] /\ after \in [Lot -> LotRow]
    <3> HIDE DEF after, l
    <3> QED BY <2>5, <2>6, <1>t
  <2>8. [tick[s] EXCEPT !.pc = "settle", !.now = {}, !.aliased = TRUE, !.rows = after,
                        !.spots = tick[s].spots \cup (S \cap Spot)] \in Ticking
    <3> HIDE DEF after, S
    <3> QED BY <2>1, <2>7, <1>t DEF Ticking
  <2>9. tick' \in [Ticker -> Ticking] BY <2>8, <1>4 DEF WriteChunk, TypeOK
  <2> QED BY <2>2, <2>4, <2>7, <2>9, <1>4 DEF WriteChunk, TypeOK, govern
<1>5. CASE SettleEnd(s)
  <2> DEFINE old == tick[s].rows[l]
             new == [old EXCEPT !.status = "settled"]
  <2>1. ASSUME l \in Lot PROVE lots' \in [Lot -> LotRow]
    <3>1. old \in LotRow BY <2>1, <1>t DEF Ticking
    <3>2. new \in LotRow
      <4> HIDE DEF old
      <4> QED BY <3>1 DEF LotRow, Status
    <3>3. Flush(lots[l], old, new) \in LotRow
      <4> HIDE DEF old, new
      <4> QED BY <3>1, <3>2, <2>1, FlushType DEF TypeOK
    <3>4. lots' = [lots EXCEPT ![l] = Flush(lots[l], old, new)] BY <1>5 DEF SettleEnd
    <3> HIDE DEF old, new, l
    <3> QED BY <2>1, <3>3, <3>4 DEF TypeOK
  <2>2. ASSUME l = NoLot PROVE lots' \in [Lot -> LotRow]
    <3>1. lots' = [lots EXCEPT ![l] = Flush(lots[l], old, new)] BY <1>5 DEF SettleEnd
    <3>2. l \notin Lot BY <2>2, NullAssumption
    <3> HIDE DEF new, l
    <3> QED BY <3>1, <3>2 DEF TypeOK
  <2>3. lots' \in [Lot -> LotRow]
    <3> HIDE DEF l
    <3> QED BY <2>1, <2>2, <1>t
  <2>4. spots' \in [Lot -> [Object -> {"none", "open", "correct", "incorrect"}]]
    BY <1>5 DEF SettleEnd, TypeOK
  <2>5. Visited(s, l) \in Ticking BY <1>t, TickTypes
  <2> QED BY <2>3, <2>4, <2>5, <1>5 DEF SettleEnd, TypeOK, govern
<1> QED BY <1>1, <1>2, <1>3, <1>4, <1>5 DEF SettleStep

LEMMA TickType ==
  ASSUME TypeOK, NEW s \in Ticker, TickStep(s) \/ NightStep(s)
  PROVE  TypeOK'
<1>t. tick[s] \in Ticking BY DEF TypeOK
<1>1. CASE TickBegin(s)
  <2>1. [NoTick EXCEPT !.pc = "begun", !.flags = flags] \in Ticking
    BY BlankType DEF Ticking, TypeOK
  <2> QED BY <2>1, <1>1 DEF TickBegin, TypeOK, data, govern
<1>2. CASE ListLots(s)
  <2> DEFINE read == [l \in Lot |-> IF IsOpen(l) THEN lots[l] ELSE BlankLot]
  <2>1. read \in [Lot -> LotRow] BY BlankType DEF TypeOK
  <2>2. [tick[s] EXCEPT !.pc = "walk", !.todo = {l \in Lot : IsOpen(l)}, !.rows = read] \in Ticking
    <3> HIDE DEF read
    <3> QED BY <2>1, <1>t DEF Ticking
  <2> QED BY <2>2, <1>2 DEF ListLots, TypeOK, data, govern
<1>3. CASE TickEnd(s)
  BY <1>3, BlankType DEF TickEnd, TypeOK, data, govern
<1>4. ASSUME NEW p \in Planner, NEW e \in Epoch, BuildLot(s, p, e) PROVE TypeOK'
  <2>1. [NoPlan EXCEPT !.pc = "asked", !.epoch = e] \in Planning BY BlankType DEF Planning
  <2> QED BY <2>1, <1>4 DEF BuildLot, TypeOK, data, govern
<1>5. ASSUME NEW w \in Reverter, SpotCheck(s, w) PROVE TypeOK'
  <2>1. [NoUndo EXCEPT !.pc = "next", !.queue = Breached, !.engaged = ~tick[s].flags.loop]
          \in Undoing
    BY <1>t, BlankType DEF Undoing, Breached, Ticking, Switches
  <2> QED BY <2>1, <1>5, BlankType DEF SpotCheck, TypeOK, data, govern
<1> QED BY <1>1, <1>2, <1>3, <1>4, <1>5, TallyType, SettleType DEF TickStep, NightStep

LEMMA PlanType ==
  ASSUME TypeOK, NEW p \in Planner, PlanStep(p)
  PROVE  TypeOK'
<1>t. plan[p] \in Planning BY DEF TypeOK
<1>1. ASSUME NEW e \in Epoch, PlanCheck(p, e) PROVE TypeOK'
  <2>1. [pc |-> "checked", epoch |-> e, sample |-> Drawn(e)] \in Planning
    BY DEF Planning, Drawn, Stratum
  <2> QED BY <2>1, <1>1 DEF PlanCheck, TypeOK, data, govern
<1>2. CASE PlanRefused(p)
  BY <1>2, BlankType DEF PlanRefused, TypeOK, data, govern
<1>3. ASSUME NEW l \in Lot, PlanInsert(p, l) PROVE TypeOK'
  <2>1. [BlankLot EXCEPT !.status = "judging", !.epoch = plan[p].epoch,
                         !.sample = plan[p].sample] \in LotRow
    BY <1>t, BlankType DEF LotRow, Status, Planning
  <2> QED BY <2>1, <1>3, BlankType DEF PlanInsert, TypeOK, data, govern
<1> QED BY <1>1, <1>2, <1>3 DEF PlanStep

LEMMA UndoType ==
  ASSUME TypeOK, NEW w \in Reverter, UndoStep(w)
  PROVE  TypeOK'
<1>t. undo[w] \in Undoing BY DEF TypeOK
<1>r. \A l \in Lot : lots[l].runs \subseteq RunId BY DEF TypeOK, LotRow
<1>s. Stepped(w) \in Undoing BY <1>t, BlankType DEF Stepped, Undoing
<1>1. ASSUME NEW l \in Lot, ManualRevert(w, l) PROVE TypeOK'
  <2>1. [NoUndo EXCEPT !.pc = "undo", !.lot = l, !.to = 1, !.todo = lots[l].runs] \in Undoing
    <3> DEFINE listed == lots[l].runs
    <3>1. listed \subseteq RunId BY <1>r
    <3>2. ASSUME NEW to \in 0..1
          PROVE  [NoUndo EXCEPT !.pc = "undo", !.lot = l, !.to = to, !.todo = listed] \in Undoing
      <4> HIDE DEF listed
      <4> QED BY <3>1, BlankType DEF Undoing
    <3> QED BY <3>2
  <2> QED BY <2>1, <1>1 DEF ManualRevert, TypeOK, data, govern
<1>2. ASSUME NEW l \in Lot, WorkerNext(w, l) PROVE TypeOK'
  <2> DEFINE rest == undo[w].queue \ {l}
             proposed == [undo[w] EXCEPT !.queue = rest]
             undone == [undo[w] EXCEPT !.pc = "undo", !.queue = rest, !.lot = l,
                                       !.todo = lots[l].runs]
             stepped == [undo[w] EXCEPT !.pc = "step", !.queue = rest, !.lot = l]
  <2>1. rest \subseteq Lot BY <1>t DEF Undoing
  <2>2. undone \in Undoing
    <3> HIDE DEF rest
    <3> QED BY <2>1, <1>t, <1>r DEF Undoing
  <2>3. proposed \in Undoing /\ stepped \in Undoing
    <3> HIDE DEF rest
    <3> QED BY <2>1, <1>t DEF Undoing
  <2>4. undo' = [undo EXCEPT ![w] = IF undo[w].engaged THEN proposed
                   ELSE IF lots[l].status = "settled" THEN undone ELSE stepped]
    BY <1>2 DEF WorkerNext
  <2>5. undo' \in [Reverter -> Undoing]
    <3> HIDE DEF proposed, undone, stepped
    <3> QED BY <2>2, <2>3, <2>4 DEF TypeOK
  <2> QED BY <2>5, <1>2 DEF WorkerNext, TypeOK, data, govern
<1>3. CASE WorkerEnd(w)
  BY <1>3, BlankType DEF WorkerEnd, TypeOK, data, govern
<1>4. ASSUME NEW r \in RunId, UndoRun(w, r) PROVE TypeOK'
  <2>1. [undo[w] EXCEPT !.todo = undo[w].todo \ {r}] \in Undoing BY <1>t DEF Undoing
  <2>2. objects' \in [Object -> Label] /\ runs' \in [RunId -> Run]
    BY <1>4, RevertRunType DEF UndoRun, TypeOK
  <2> QED BY <2>1, <2>2, <1>4 DEF UndoRun, TypeOK, govern
<1>5. CASE UndoEnd(w)
  <2> DEFINE l == undo[w].lot
  <2>1. [undo[w] EXCEPT !.pc = "step"] \in Undoing BY <1>t DEF Undoing
  <2>2. lots' = [lots EXCEPT ![l] = [@ EXCEPT !.status = "reverted"]] BY <1>5 DEF UndoEnd
  <2>3. ASSUME l \in Lot PROVE [lots[l] EXCEPT !.status = "reverted"] \in LotRow
    BY <2>3 DEF TypeOK, LotRow, Status
  <2>4. lots' \in [Lot -> LotRow]
    <3> HIDE DEF l
    <3> QED BY <2>2, <2>3 DEF TypeOK
  <2> QED BY <2>1, <2>4, <1>5 DEF UndoEnd, TypeOK, data, govern
<1>6. CASE StepCheck(w)
  <2>1. [undo[w] EXCEPT !.pc = "down"] \in Undoing BY <1>t DEF Undoing
  <2> QED BY <2>1, <1>s, <1>6 DEF StepCheck, TypeOK, data, govern
<1>7. CASE StepDown(w)
  <2>1. Rungs(undo[w].to, FALSE, TRUE) \in Rung
    <3>1. undo[w].to \in 0..2 BY <1>t DEF Undoing
    <3> QED BY <3>1 DEF Rungs, Rung
  <2> QED BY <2>1, <1>s, <1>7 DEF StepDown, TypeOK, data
<1> QED BY <1>1, <1>2, <1>3, <1>4, <1>5, <1>6, <1>7 DEF UndoStep

LEMMA PersonType ==
  ASSUME TypeOK, PersonStep
  PROVE  TypeOK'
<1>v. \A v \in {"clean", "defect"} : /\ Ruling(v) \in {"accepted", "rejected"}
                                     /\ SpotAnswer(v) \in {"correct", "incorrect"}
  BY DEF Ruling, SpotAnswer
<1>o. \A o \in Object : objects[o] \in Label BY DEF TypeOK
<1>1. ASSUME NEW o \in Object, NEW v \in {"clean", "defect"}, Rule(o, v) PROVE TypeOK'
  <2>1. [objects[o] EXCEPT !.state = Ruling(v), !.human = TRUE] \in Label
    BY <1>v, <1>o DEF Label
  <2> QED BY <2>1, <1>1 DEF Rule, TypeOK, govern
<1>2. ASSUME NEW S \in Batches, NEW v \in {"clean", "defect"}, NEW r \in RunId,
             RuleBatch(S, v, r)
      PROVE  TypeOK'
  <2>1. S \subseteq Object BY ShapeAssumption
  <2>2. [state |-> Ruling(v), human |-> TRUE, run |-> r] \in Label BY <1>v DEF Label
  <2>3. objects' \in [Object -> Label] BY <2>2, <1>o, <1>2 DEF RuleBatch
  <2>4. verdict' \in [Object -> {"none", "clean", "defect"}]
    BY <1>2 DEF RuleBatch, TypeOK
  <2>5. spots' \in [Lot -> [Object -> {"none", "open", "correct", "incorrect"}]]
    <3>1. ASSUME NEW l \in Lot, NEW o \in Object
          PROVE  spots[l][o] \in {"none", "open", "correct", "incorrect"}
      BY DEF TypeOK
    <3> QED BY <3>1, <1>v, <1>2 DEF RuleBatch
  <2>6. runs' \in [RunId -> Run]
    <3> DEFINE was == [o \in Object |-> IF o \in S
                  THEN [state |-> objects[o].state, human |-> objects[o].human]
                  ELSE FromReview[o]]
    <3>1. ASSUME NEW o \in Object
          PROVE  /\ [state |-> objects[o].state, human |-> objects[o].human] \in Was
                 /\ FromReview[o] \in Was
      BY <1>o, BlankType DEF Label, Was
    <3>2. was \in [Object -> Was] BY <3>1
    <3>3. runs' = [runs EXCEPT ![r] = [status |-> "committed", lot |-> NoLot, objs |-> S,
                                       was |-> was]]
      BY <1>2 DEF RuleBatch
    <3>4. [status |-> "committed", lot |-> NoLot, objs |-> S, was |-> was] \in Run
      <4> HIDE DEF was
      <4> QED BY <2>1, <3>2 DEF Run
    <3> HIDE DEF was
    <3> QED BY <3>3, <3>4 DEF TypeOK
  <2> QED BY <2>3, <2>4, <2>5, <2>6, <1>2 DEF RuleBatch, TypeOK, govern
<1>3. ASSUME NEW r \in RunId, RevertByName(r) PROVE TypeOK'
  <2>1. objects' \in [Object -> Label] /\ runs' \in [RunId -> Run]
    BY <1>3, RevertRunType DEF RevertByName
  <2> QED BY <2>1, <1>3 DEF RevertByName, TypeOK, govern
<1>4. ASSUME NEW l \in Lot, Ack(l) PROVE TypeOK'
  <2>1. [lots[l] EXCEPT !.ack = TRUE] \in LotRow BY DEF TypeOK, LotRow
  <2> QED BY <2>1, <1>4 DEF Ack, TypeOK, data, govern
<1>5. ASSUME NEW h \in Hand, SetByHand(h) PROVE TypeOK'
  <2>1. Rungs(h.level, h.pinned, FALSE) \in Rung
    <3>1. h.level \in 0..2 /\ h.pinned \in BOOLEAN BY ShapeAssumption
    <3> QED BY <3>1 DEF Rungs, Rung
  <2> QED BY <2>1, <1>5 DEF SetByHand, TypeOK, data
<1> QED BY <1>1, <1>2, <1>3, <1>4, <1>5 DEF PersonStep

LEMMA GovernType ==
  ASSUME TypeOK, GovernStep
  PROVE  TypeOK'
<1>1. CASE CooldownExpires
  <2>1. [ladder EXCEPT !.cooling = FALSE] \in Rung BY DEF TypeOK, Rung
  <2> QED BY <2>1, <1>1 DEF CooldownExpires, TypeOK, data
<1>2. ASSUME NEW e \in Epoch, ChampionPromoted(e) PROVE TypeOK'
  BY <1>2 DEF ChampionPromoted, TypeOK, data
<1>3. CASE OnChampionChange
  <2>1. Rungs(1, FALSE, FALSE) \in Rung BY DEF Rungs, Rung
  <2> QED BY <2>1, <1>3 DEF OnChampionChange, TypeOK, data
<1>4. CASE ChampionChangeLost
  <2>1. crashes' \in 0..MaxCrashes BY <1>4, ShapeAssumption DEF ChampionChangeLost, TypeOK
  <2> QED BY <2>1, <1>4 DEF ChampionChangeLost, TypeOK, data
<1>5. CASE Engage
  <2>1. [loop |-> FALSE, settle |-> FALSE] \in Switches BY DEF Switches
  <2> QED BY <2>1, <1>5 DEF Engage, TypeOK, data
<1>6. CASE Release
  <2>1. [flags EXCEPT !.loop = TRUE] \in Switches BY DEF TypeOK, Switches
  <2> QED BY <2>1, <1>6 DEF Release, TypeOK, data
<1>7. ASSUME NEW on \in BOOLEAN, OptIn(on) PROVE TypeOK'
  <2>1. [flags EXCEPT !.settle = on] \in Switches BY DEF TypeOK, Switches
  <2> QED BY <2>1, <1>7 DEF OptIn, TypeOK, data
<1> QED BY <1>1, <1>2, <1>3, <1>4, <1>5, <1>6, <1>7 DEF GovernStep

LEMMA CrashType ==
  ASSUME TypeOK, Crash
  PROVE  TypeOK'
<1>1. crashes' \in 0..MaxCrashes BY ShapeAssumption DEF Crash, TypeOK
<1>2. /\ tick' \in [Ticker -> Ticking] /\ plan' \in [Planner -> Planning]
      /\ undo' \in [Reverter -> Undoing]
  BY BlankType DEF Crash, TypeOK
<1> QED BY <1>1, <1>2 DEF Crash, TypeOK, data, govern

LEMMA TypeStep == TypeOK /\ [Next]_vars => TypeOK'
<1> SUFFICES ASSUME TypeOK, [Next]_vars PROVE TypeOK' OBVIOUS
<1>1. CASE UNCHANGED vars BY <1>1 DEF vars, TypeOK
<1>2. CASE Next
  BY <1>2, TickType, PlanType, UndoType, PersonType, GovernType, CrashType DEF Next
<1> QED BY <1>1, <1>2

\* Every session, lot, run and label is what the code's tables and variables can hold:
\* in particular a tally writes a status and never a verdict.
THEOREM TypeCorrect == Spec => []TypeOK
<1>1. Init => TypeOK BY InitType
<1>2. TypeOK /\ [Next]_vars => TypeOK' BY TypeStep
<1> QED BY <1>1, <1>2, PTL DEF Spec

-------------------------------------------------------------------------------
(* Lots, under one ticker.  A second one may decide a lot again from a stale    *)
(* copy (LotLifeInOrder does not hold then), and everything below falls with    *)
(* it.                                                                          *)

OneTicker == \A s, t \in Ticker : s = t

Working == {"passed", "cleared", "failed", "down", "permitted", "settle", "chunk"}
Settling == {"permitted", "settle", "chunk"}
Passed == {"accepted", "settled", "reverted"}

\* A session that works on a lot is at one of its visit.
OnLot(t) == IF t.pc \in Working THEN t.lot \in t.todo ELSE t.lot = NoLot

\* What a session took a lot's stratum and sample to be is what they are in the table L,
\* and an ack it saw is still there, however stale the rest of its copy.
Agrees(t, L) ==
  \A l \in t.todo : /\ L[l].status # "none"
                    /\ t.rows[l].epoch = L[l].epoch /\ t.rows[l].sample = L[l].sample
                    /\ t.rows[l].ack => L[l].ack

\* With one ticker nobody else moves a lot it has yet to visit.
Fresh(t, L) ==
  \A l \in t.todo : l # t.lot => /\ t.rows[l].status = L[l].status
                                 /\ L[l].status \in {"judging", "accepted"}

\* Leave to settle: an ack, or another lot of the epoch that settled before.
Acked(l, L) ==
  Tier = "safety" =>
    \/ L[l].ack
    \/ \E k \in Lot \ {l} : L[k].epoch = L[l].epoch /\ L[k].status \in {"settled", "reverted"}

OfRemainder(o, row) == EpochOf[o] = row.epoch /\ o \notin row.sample

\* A lot being settled has passed, may settle, and what is in hand is of its remainder.
InHand(t, L) ==
  t.pc \in Settling =>
    /\ L[t.lot].status = "accepted" /\ t.rows[t.lot].status = "accepted"
    /\ Acked(t.lot, L)
    /\ t.pc \in {"settle", "chunk"} => \A o \in t.ids : OfRemainder(o, L[t.lot])
    /\ t.pc = "chunk" => \A o \in t.now : OfRemainder(o, L[t.lot])

SessionSound(t, L) == OnLot(t) /\ Agrees(t, L) /\ Fresh(t, L) /\ InHand(t, L)

\* A lot being undone was settled.
UndoSound ==
  \A w \in Reverter : undo[w].pc = "undo" =>
    undo[w].lot \in Lot /\ lots[undo[w].lot].status \in {"settled", "reverted"}

LotInv == /\ \A s \in Ticker : SessionSound(tick[s], lots)
          /\ UndoSound /\ SettledUnderPassedLot /\ SafetyLotWasAcked

-------------------------------------------------------------------------------
(* How a change of one lot leaves the rest. *)

\* Table M is table L with lot k moved, as far as lots move.
Moved(L, M, k) ==
  /\ \A l \in Lot \ {k} : M[l] = L[l]
  /\ L[k].status # "none" =>
       /\ M[k].status # "none" /\ M[k].epoch = L[k].epoch /\ M[k].sample = L[k].sample
       /\ L[k].ack => M[k].ack
       /\ L[k].status \in {"settled", "reverted"} => M[k].status \in {"settled", "reverted"}
       /\ L[k].status \in Passed => M[k].status \in Passed

LEMMA AckedMoved ==
  ASSUME NEW L, NEW M, NEW k \in Lot, Moved(L, M, k),
         NEW l \in Lot, l # k \/ L[k].status # "none", Acked(l, L)
  PROVE  Acked(l, M)
<1> SUFFICES ASSUME Tier = "safety"
             PROVE  \/ M[l].ack
                    \/ \E j \in Lot \ {l} : M[j].epoch = M[l].epoch
                                            /\ M[j].status \in {"settled", "reverted"}
  BY DEF Acked
<1>1. M[l].epoch = L[l].epoch /\ (L[l].ack => M[l].ack) BY DEF Moved
<1>2. ASSUME NEW j \in Lot \ {l}, L[j].epoch = L[l].epoch, L[j].status \in {"settled", "reverted"}
      PROVE  M[j].epoch = M[l].epoch /\ M[j].status \in {"settled", "reverted"}
  BY <1>1, <1>2 DEF Moved
<1> QED BY <1>1, <1>2 DEF Acked

\* A session stays sound if the lot that moved is not one it counts on.
LEMMA SessionMoved ==
  ASSUME NEW L, NEW M, NEW k \in Lot, Moved(L, M, k), NEW t \in Ticking, SessionSound(t, L),
         k \in t.todo /\ (k # t.lot \/ t.pc \in Settling) => M[k].status = L[k].status
  PROVE  SessionSound(t, M)
<1>t. t.todo \subseteq Lot BY DEF Ticking
<1>1. \A l \in t.todo : M[l].epoch = L[l].epoch /\ M[l].sample = L[l].sample
                        /\ M[l].status # "none" /\ (L[l].ack => M[l].ack)
  BY <1>t DEF Moved, SessionSound, Agrees
<1>2. Agrees(t, M) BY <1>1 DEF SessionSound, Agrees
<1>3. Fresh(t, M) BY <1>t DEF Moved, SessionSound, Fresh
<1>4. InHand(t, M)
  <2> SUFFICES ASSUME t.pc \in Settling PROVE InHand(t, M) BY DEF InHand
  <2>1. t.lot \in t.todo BY DEF SessionSound, OnLot, Settling, Working
  <2>2. M[t.lot].status = L[t.lot].status BY <2>1, <1>t DEF Moved
  <2>3. Acked(t.lot, M)
    <3>1. L[t.lot].status # "none" BY <2>1 DEF SessionSound, Agrees
    <3>2. Acked(t.lot, L) BY DEF SessionSound, InHand
    <3> QED BY <2>1, <1>t, <3>1, <3>2, AckedMoved
  <2> QED BY <2>1, <2>2, <2>3, <1>1 DEF SessionSound, InHand, OfRemainder
<1> QED BY <1>2, <1>3, <1>4 DEF SessionSound

\* Leave to settle is never lost.
LEMMA SafetyMoved ==
  ASSUME LotInv, NEW k \in Lot, Moved(lots, lots', k),
         lots'[k].status = "settled" => lots[k].status # "none" /\ Acked(k, lots)
  PROVE  SafetyLotWasAcked'
<1> SUFFICES ASSUME NEW l \in Lot, lots'[l].status = "settled" PROVE Acked(l, lots')
  BY DEF SafetyLotWasAcked, Acked
<1>1. l # k => lots[l].status = "settled" BY DEF Moved
<1>2. Acked(l, lots)
  <2>1. lots[l].status = "settled" => Acked(l, lots)
    BY DEF LotInv, SafetyLotWasAcked, Acked
  <2> QED BY <2>1, <1>1
<1> QED BY <1>2, <1>1, AckedMoved

\* What is said of the reverters and of the lots themselves.
LEMMA RestMoved ==
  ASSUME TypeOK, LotInv, NEW k \in Lot, Moved(lots, lots', k), UNCHANGED undo,
         lots'[k].status = "settled" => lots[k].status # "none" /\ Acked(k, lots)
  PROVE  UndoSound' /\ SafetyLotWasAcked'
<1>1. UndoSound'
  <2> SUFFICES ASSUME NEW w \in Reverter, undo[w].pc = "undo"
               PROVE  undo[w].lot \in Lot /\ lots'[undo[w].lot].status \in {"settled", "reverted"}
    BY DEF UndoSound
  <2> QED BY DEF LotInv, UndoSound, Moved
<1>2. SafetyLotWasAcked' BY SafetyMoved
<1> QED BY <1>1, <1>2

\* Nothing a committed run rests on goes.
LEMMA RunsMoved ==
  ASSUME SettledUnderPassedLot, NEW k \in Lot, Moved(lots, lots', k),
         \A r \in RunId : r \in SettlementRuns' =>
           r \in SettlementRuns /\ runs'[r].lot = runs[r].lot /\ runs'[r].objs = runs[r].objs
  PROVE  SettledUnderPassedLot'
<1> SUFFICES ASSUME NEW r \in SettlementRuns'
             PROVE  LET lot == lots'[runs'[r].lot]
                    IN /\ lot.status \in {"accepted", "settled", "reverted"}
                       /\ \A o \in runs'[r].objs : EpochOf[o] = lot.epoch /\ o \notin lot.sample
  BY DEF SettledUnderPassedLot
<1>1. r \in RunId BY DEF SettlementRuns
<1>2. r \in SettlementRuns /\ runs'[r].lot = runs[r].lot /\ runs'[r].objs = runs[r].objs BY <1>1
<1>3. runs[r].lot \in Lot BY <1>2 DEF SettlementRuns
<1>4. /\ lots'[runs[r].lot].status \in Passed
      /\ lots'[runs[r].lot].epoch = lots[runs[r].lot].epoch
      /\ lots'[runs[r].lot].sample = lots[runs[r].lot].sample
  BY <1>2, <1>3 DEF SettledUnderPassedLot, Moved, Passed
<1> QED BY <1>2, <1>4 DEF SettledUnderPassedLot, Passed

-------------------------------------------------------------------------------
(* The inductive invariant of the lots. *)

LEMMA NoTickSound == \A L : SessionSound(NoTick, L)
BY DEF NoTick, SessionSound, OnLot, Agrees, Fresh, InHand, Working, Settling

LEMMA InitLot == Init => LotInv
<1> SUFFICES ASSUME Init PROVE LotInv OBVIOUS
<1>1. \A s \in Ticker : SessionSound(tick[s], lots) BY NoTickSound DEF Init
<1>2. UndoSound BY DEF Init, UndoSound, NoUndo
<1>3. SettledUnderPassedLot BY DEF Init, SettledUnderPassedLot, SettlementRuns, FreeRun
<1>4. SafetyLotWasAcked BY DEF Init, SafetyLotWasAcked, BlankLot
<1> QED BY <1>1, <1>2, <1>3, <1>4 DEF LotInv

\* A session that leaves a lot, or takes it up, stays sound.
LEMMA VisitedSound ==
  ASSUME TypeOK, NEW s \in Ticker, NEW l \in Lot, SessionSound(tick[s], lots),
         tick[s].lot \in {l, NoLot}
  PROVE  SessionSound(Visited(s, l), lots) /\ l \notin Visited(s, l).todo
<1> DEFINE v == Visited(s, l)
<1>t. tick[s] \in Ticking /\ tick[s].todo \subseteq Lot /\ tick[s].rows \in [Lot -> LotRow]
  BY DEF TypeOK, Ticking
<1>1. v.pc = "walk" /\ v.lot = NoLot /\ v.todo = tick[s].todo \ {l}
  BY DEF Visited, NoTick
<1>2. ASSUME NEW k \in v.todo
      PROVE  k \in tick[s].todo /\ k # tick[s].lot /\ v.rows[k] = tick[s].rows[k]
  BY <1>t, <1>1, <1>2, NullAssumption DEF Visited, NoTick
<1> HIDE DEF v
<1>3. OnLot(v) /\ InHand(v, lots) BY <1>1 DEF OnLot, InHand, Working, Settling
<1>4. Agrees(v, lots) /\ Fresh(v, lots) BY <1>2 DEF SessionSound, Agrees, Fresh
<1> QED BY <1>1, <1>3, <1>4 DEF SessionSound, v

LEMMA AtSound ==
  ASSUME TypeOK, NEW s \in Ticker, NEW l \in tick[s].todo, SessionSound(tick[s], lots),
         tick[s].lot \in {l, NoLot}, NEW pc \in {"passed", "cleared", "failed", "down"}
  PROVE  SessionSound(At(s, l, pc), lots) /\ At(s, l, pc).lot = l
         /\ At(s, l, pc).pc \notin Settling
<1> DEFINE v == At(s, l, pc)
<1>t. tick[s] \in Ticking BY DEF TypeOK
<1>1. v.pc = pc /\ v.lot = l /\ v.todo = tick[s].todo /\ v.rows = tick[s].rows
  BY <1>t DEF At, Ticking
<1>2. \A k \in tick[s].todo : k # l => k # tick[s].lot
  BY <1>t, NullAssumption DEF Ticking
<1> HIDE DEF v
<1>3. OnLot(v) /\ InHand(v, lots) /\ v.pc \notin Settling
  BY <1>1 DEF OnLot, InHand, Working, Settling
<1>4. Agrees(v, lots) /\ Fresh(v, lots) BY <1>1, <1>2 DEF SessionSound, Agrees, Fresh
<1> QED BY <1>1, <1>3, <1>4 DEF SessionSound, v

\* The fields of a flushed row.
LEMMA FlushFields ==
  ASSUME NEW row \in LotRow, NEW loaded \in LotRow, NEW current \in LotRow
  PROVE  /\ Flush(row, loaded, current).status =
              IF current.status # loaded.status THEN current.status ELSE row.status
         /\ Flush(row, loaded, current).epoch =
              IF current.epoch # loaded.epoch THEN current.epoch ELSE row.epoch
         /\ Flush(row, loaded, current).sample =
              IF current.sample # loaded.sample THEN current.sample ELSE row.sample
         /\ Flush(row, loaded, current).ack =
              IF current.ack # loaded.ack THEN current.ack ELSE row.ack
BY DEF Flush, LotRow

\* One ticker: who acts is the only session there is.
LEMMA OnlySession ==
  ASSUME OneTicker, NEW s \in Ticker, SessionSound(tick'[s], lots')
  PROVE  \A t \in Ticker : SessionSound(tick'[t], lots')
BY DEF OneTicker

\* A step that changes no lot, run or revert.
LEMMA TickOnly ==
  ASSUME TypeOK, LotInv, OneTicker, NEW s \in Ticker, SessionSound(tick'[s], lots),
         UNCHANGED <<lots, runs, undo>>
  PROVE  LotInv'
<1>1. \A t \in Ticker : SessionSound(tick'[t], lots') BY OnlySession
<1> QED BY <1>1 DEF LotInv, UndoSound, SettledUnderPassedLot, SafetyLotWasAcked, SettlementRuns

LEMMA TallyLot ==
  ASSUME TypeOK, LotInv, OneTicker, NEW s \in Ticker, TallyStep(s)
  PROVE  LotInv'
<1>t. tick[s] \in Ticking /\ tick[s].todo \subseteq Lot BY DEF TypeOK, Ticking
<1>s. SessionSound(tick[s], lots) BY DEF LotInv
<1>v. \A l \in Lot : Visits(s, l, "judging") =>
        tick[s].lot = NoLot /\ l \in tick[s].todo /\ tick[s].rows[l].status = "judging"
        /\ lots[l].status = "judging"
  BY <1>s, NullAssumption DEF Visits, SessionSound, OnLot, Fresh, Working
<1>w. ASSUME tick[s].pc \in {"passed", "cleared", "failed", "down"}
      PROVE  tick[s].lot \in tick[s].todo /\ tick[s].lot \in Lot
  BY <1>w, <1>s, <1>t DEF SessionSound, OnLot, Working
<1>1. ASSUME NEW l \in Lot, TallyWaits(s, l) PROVE LotInv'
  <2>1. SessionSound(Visited(s, l), lots) BY <1>1, <1>s, <1>v, VisitedSound DEF TallyWaits
  <2>2. tick'[s] = Visited(s, l) BY <1>1 DEF TallyWaits, TypeOK
  <2> QED BY <2>1, <2>2, <1>1, TickOnly DEF TallyWaits, data
<1>2. ASSUME NEW l \in Lot, Tally(s, l) PROVE LotInv'
  <2> DEFINE old == tick[s].rows[l]
             outcome == Decision(old.sample)
             new == [old EXCEPT !.status = outcome]
             t == tick'[s]
  <2>1. /\ tick[s].lot = NoLot /\ l \in tick[s].todo
        /\ old.status = "judging" /\ lots[l].status = "judging"
    BY <1>2, <1>v DEF Tally
  <2>2. old \in LotRow /\ lots[l] \in LotRow BY <1>t DEF Ticking, TypeOK
  <2>3. outcome \in {"accepted", "rejected", "parked"} BY DEF Decision
  <2>4. lots' = [lots EXCEPT ![l] = Flush(lots[l], old, new)] BY <1>2 DEF Tally
  <2>5. t \in {At(s, l, "passed"), At(s, l, "failed"), Visited(s, l)}
    BY <1>2 DEF Tally, TypeOK
  <2> HIDE DEF outcome, t
  <2>6. new \in LotRow /\ new.status = outcome /\ new.epoch = old.epoch
        /\ new.sample = old.sample /\ new.ack = old.ack
    <3> HIDE DEF old
    <3> QED BY <2>2, <2>3 DEF LotRow, Status
  <2>7. lots'[l] = Flush(lots[l], old, new) BY <2>4 DEF TypeOK
  <2> HIDE DEF old, new
  <2>8. /\ lots'[l].status = outcome /\ lots'[l].epoch = lots[l].epoch
        /\ lots'[l].sample = lots[l].sample /\ lots'[l].ack = lots[l].ack
    BY <2>1, <2>2, <2>3, <2>6, <2>7, FlushFields
  <2>9. Moved(lots, lots', l) BY <2>1, <2>3, <2>4, <2>8 DEF Moved, Passed
  <2>10. t \in Ticking /\ SessionSound(t, lots)
         /\ (l \in t.todo => l = t.lot /\ t.pc \notin Settling)
    BY <2>1, <2>5, <1>s, VisitedSound, AtSound, TickTypes
  <2>11. SessionSound(t, lots') BY <2>9, <2>10, SessionMoved
  <2>12. \A u \in Ticker : SessionSound(tick'[u], lots') BY <2>11, OnlySession DEF t
  <2>13. UndoSound' /\ SafetyLotWasAcked'
    BY <2>3, <2>8, <2>9, <1>2, RestMoved DEF Tally
  <2>14. SettledUnderPassedLot'
    BY <2>9, <1>2, RunsMoved DEF Tally, data, LotInv, SettlementRuns
  <2> QED BY <2>12, <2>13, <2>14 DEF LotInv
<1>3. CASE PromoteCheck(s)
  <2>1. SessionSound(tick'[s], lots)
    BY <1>3, <1>w, <1>s, VisitedSound, AtSound DEF PromoteCheck, TypeOK
  <2> QED BY <2>1, <1>3, TickOnly DEF PromoteCheck, data
<1>4. CASE Promote(s)
  <2>1. SessionSound(tick'[s], lots) BY <1>4, <1>w, <1>s, VisitedSound DEF Promote, TypeOK
  <2> QED BY <2>1, <1>4, TickOnly DEF Promote, data
<1>5. CASE RejectCheck(s)
  <2>1. SessionSound(tick'[s], lots)
    BY <1>5, <1>w, <1>s, VisitedSound, AtSound DEF RejectCheck, TypeOK
  <2> QED BY <2>1, <1>5, TickOnly DEF RejectCheck, data
<1>6. CASE RejectStepDown(s)
  <2>1. SessionSound(tick'[s], lots)
    BY <1>6, <1>w, <1>s, VisitedSound DEF RejectStepDown, TypeOK
  <2> QED BY <2>1, <1>6, TickOnly DEF RejectStepDown, data
<1> QED BY <1>1, <1>2, <1>3, <1>4, <1>5, <1>6 DEF TallyStep

\* What Permit checks is leave to settle: an earlier lot of the epoch, or the ack the
\* session saw, which is still there.
LEMMA PermitAcked ==
  ASSUME TypeOK, NEW s \in Ticker, NEW l \in tick[s].todo, SessionSound(tick[s], lots),
         MaySettle(s, l)
  PROVE  Acked(l, lots)
<1>1. tick[s].rows[l].epoch = lots[l].epoch /\ (tick[s].rows[l].ack => lots[l].ack)
  BY DEF SessionSound, Agrees
<1>2. CASE FirstOfEpoch(s, l) BY <1>1, <1>2 DEF MaySettle, Acked
<1>3. CASE ~FirstOfEpoch(s, l) BY <1>1, <1>3 DEF FirstOfEpoch, Acked
<1> QED BY <1>2, <1>3

LEMMA SettleLot ==
  ASSUME TypeOK, LotInv, OneTicker, NEW s \in Ticker, SettleStep(s)
  PROVE  LotInv'
<1> DEFINE l == tick[s].lot
           t == tick'[s]
<1>t. tick[s] \in Ticking /\ tick[s].todo \subseteq Lot BY DEF TypeOK, Ticking
<1>s. SessionSound(tick[s], lots) BY DEF LotInv
<1>w. ASSUME tick[s].pc \in Settling
      PROVE  /\ l \in tick[s].todo /\ l \in Lot
             /\ lots[l].status = "accepted" /\ tick[s].rows[l].status = "accepted"
             /\ Acked(l, lots)
             /\ tick[s].rows[l].epoch = lots[l].epoch
             /\ tick[s].rows[l].sample = lots[l].sample
  BY <1>w, <1>s, <1>t DEF SessionSound, OnLot, InHand, Agrees, Settling, Working
<1>1. ASSUME NEW k \in Lot, Permit(s, k) PROVE LotInv'
  <2>1. /\ tick[s].pc = "walk" /\ tick[s].lot = NoLot /\ k \in tick[s].todo
        /\ tick[s].rows[k].status = "accepted"
    BY <1>1, <1>s DEF Permit, Visits, SessionSound, OnLot, Working
  <2>2. lots[k].status = "accepted"
    BY <2>1, <1>s, NullAssumption DEF SessionSound, Fresh
  <2>3. SessionSound(t, lots)
    <3>1. CASE MaySettle(s, k)
      <4>1. t = At(s, k, "permitted") BY <1>1, <3>1 DEF Permit, TypeOK
      <4>2. t.pc = "permitted" /\ t.lot = k /\ t.todo = tick[s].todo /\ t.rows = tick[s].rows
        BY <4>1, <1>t DEF At, Ticking
      <4>3. Acked(k, lots) BY <2>1, <3>1, <1>s, PermitAcked
      <4>4. \A j \in tick[s].todo : j # NoLot BY <1>t, NullAssumption
      <4> HIDE DEF t
      <4>5. OnLot(t) BY <4>2, <2>1 DEF OnLot, Working
      <4>6. InHand(t, lots) BY <4>2, <4>3, <2>1, <2>2 DEF InHand
      <4>7. Agrees(t, lots) /\ Fresh(t, lots)
        BY <4>2, <4>4, <2>1, <1>s DEF SessionSound, Agrees, Fresh
      <4> QED BY <4>5, <4>6, <4>7 DEF SessionSound
    <3>2. CASE ~MaySettle(s, k)
      <4>1. t = Visited(s, k) BY <1>1, <3>2 DEF Permit, TypeOK
      <4> QED BY <4>1, <2>1, <1>s, VisitedSound
    <3> QED BY <3>1, <3>2
  <2> QED BY <2>3, <1>1, TickOnly DEF Permit, data
<1>2. CASE SettleList(s)
  <2>w. /\ tick[s].pc = "permitted" /\ l \in tick[s].todo /\ l \in Lot
        /\ lots[l].status = "accepted" /\ tick[s].rows[l].status = "accepted"
        /\ Acked(l, lots)
        /\ tick[s].rows[l].epoch = lots[l].epoch /\ tick[s].rows[l].sample = lots[l].sample
    BY <1>2, <1>w DEF SettleList, Settling
  <2>1. t = [tick[s] EXCEPT !.pc = "settle", !.ids = Remainder(tick[s].rows[l])]
    BY <1>2 DEF SettleList, TypeOK
  <2>2. /\ t.pc = "settle" /\ t.lot = l /\ t.todo = tick[s].todo /\ t.rows = tick[s].rows
        /\ t.ids = Remainder(tick[s].rows[l])
    BY <2>1, <1>t DEF Ticking
  <2>3. \A o \in t.ids : OfRemainder(o, lots[l])
    BY <2>2, <2>w DEF Remainder, Stratum, OfRemainder
  <2>4. SessionSound(t, lots)
    <3> HIDE DEF t, l
    <3>1. OnLot(t) /\ InHand(t, lots) BY <2>2, <2>3, <2>w DEF OnLot, InHand, Working
    <3>2. Agrees(t, lots) /\ Fresh(t, lots) BY <2>2, <1>s DEF SessionSound, Agrees, Fresh, l
    <3> QED BY <3>1, <3>2 DEF SessionSound
  <2> QED BY <2>4, <1>2, TickOnly DEF SettleList, data
<1>3. CASE ReadChunk(s)
  <2> DEFINE chunk == FirstChunk(tick[s].ids)
  <2>w. /\ tick[s].pc = "settle" /\ l \in tick[s].todo /\ l \in Lot
        /\ lots[l].status = "accepted" /\ tick[s].rows[l].status = "accepted"
        /\ Acked(l, lots)
        /\ \A o \in tick[s].ids : OfRemainder(o, lots[l])
    BY <1>3, <1>w, <1>s DEF ReadChunk, Settling, SessionSound, InHand
  <2>1. t = [tick[s] EXCEPT !.pc = "chunk", !.ids = tick[s].ids \ chunk,
                            !.now = {o \in chunk : Reviewable(o)}]
    BY <1>3 DEF ReadChunk, TypeOK
  <2>2. /\ t.pc = "chunk" /\ t.lot = l /\ t.todo = tick[s].todo /\ t.rows = tick[s].rows
        /\ t.ids \subseteq tick[s].ids /\ t.now \subseteq tick[s].ids
    <3>1. chunk \subseteq tick[s].ids BY DEF FirstChunk
    <3> HIDE DEF chunk
    <3> QED BY <2>1, <3>1, <1>t DEF Ticking
  <2>3. SessionSound(t, lots)
    <3> HIDE DEF t, l
    <3>1. OnLot(t) /\ InHand(t, lots) BY <2>2, <2>w DEF OnLot, InHand, Working
    <3>2. Agrees(t, lots) /\ Fresh(t, lots) BY <2>2, <1>s DEF SessionSound, Agrees, Fresh, l
    <3> QED BY <3>1, <3>2 DEF SessionSound
  <2> QED BY <2>3, <1>3, TickOnly DEF ReadChunk, data
<1>4. ASSUME NEW r \in RunId, WriteChunk(s, r) PROVE LotInv'
  <2> DEFINE old == tick[s].rows[l]
             new == [old EXCEPT !.runs = old.runs \cup {r}]
  <2>w. /\ tick[s].pc = "chunk" /\ l \in tick[s].todo /\ l \in Lot
        /\ lots[l].status = "accepted" /\ old.status = "accepted"
        /\ Acked(l, lots)
        /\ old.epoch = lots[l].epoch /\ old.sample = lots[l].sample
        /\ \A o \in tick[s].ids \cup tick[s].now : OfRemainder(o, lots[l])
    BY <1>4, <1>w, <1>s DEF WriteChunk, Settling, SessionSound, InHand
  <2>1. old \in LotRow /\ lots[l] \in LotRow BY <2>w, <1>t DEF Ticking, TypeOK
  <2>2. /\ new \in LotRow /\ new.status = old.status /\ new.epoch = old.epoch
        /\ new.sample = old.sample /\ new.ack = old.ack
    <3> HIDE DEF old
    <3> QED BY <2>1 DEF LotRow
  <2>3. lots' = [lots EXCEPT ![l] = Flush(lots[l], LoadedRuns(s, old, new), new)]
    BY <1>4 DEF WriteChunk
  <2>4. t = [tick[s] EXCEPT !.pc = "settle", !.now = {}, !.aliased = TRUE,
               !.rows = [tick[s].rows EXCEPT ![l] = new],
               !.spots = tick[s].spots \cup (tick[s].now \cap Spot)]
    BY <1>4 DEF WriteChunk, TypeOK
  <2>5. /\ t.pc = "settle" /\ t.lot = l /\ t.todo = tick[s].todo /\ t.ids = tick[s].ids
        /\ t.rows = [tick[s].rows EXCEPT ![l] = new]
    <3> DEFINE rows == [tick[s].rows EXCEPT ![l] = new]
    <3>1. t = [tick[s] EXCEPT !.pc = "settle", !.now = {}, !.aliased = TRUE, !.rows = rows,
                 !.spots = tick[s].spots \cup (tick[s].now \cap Spot)]
      BY <2>4
    <3> HIDE DEF rows, t
    <3>2. /\ t.pc = "settle" /\ t.lot = tick[s].lot /\ t.todo = tick[s].todo
          /\ t.ids = tick[s].ids /\ t.rows = rows
      BY <3>1, <1>t DEF Ticking
    <3> QED BY <3>2 DEF rows
  <2>6. \A j \in tick[s].todo : t.rows[j] = IF j = l THEN new ELSE tick[s].rows[j]
    <3> HIDE DEF new, l
    <3> QED BY <2>5, <1>t DEF Ticking
  <2>7. lots'[l] = Flush(lots[l], LoadedRuns(s, old, new), new) BY <2>3, <2>w DEF TypeOK
  <2>8. t \in Ticking
    <3>1. TypeOK' BY <1>4, SettleType DEF SettleStep
    <3> QED BY <3>1 DEF TypeOK
  <2> HIDE DEF old, new, t, l
  <2>9. /\ lots'[l].status = lots[l].status /\ lots'[l].epoch = lots[l].epoch
        /\ lots'[l].sample = lots[l].sample /\ lots'[l].ack = lots[l].ack
    BY <2>1, <2>2, <2>7, FlushFields DEF LoadedRuns
  <2>10. Moved(lots, lots', l) BY <2>3, <2>9 DEF Moved
  <2>11. SessionSound(t, lots)
    <3>1. OnLot(t) BY <2>5, <2>w DEF OnLot, Working
    <3>2. InHand(t, lots) BY <2>2, <2>5, <2>6, <2>w DEF InHand
    <3>3. Agrees(t, lots) BY <2>2, <2>5, <2>6, <1>s DEF SessionSound, Agrees, old
    <3>4. Fresh(t, lots) BY <2>5, <2>6, <1>s DEF SessionSound, Fresh, l
    <3> QED BY <3>1, <3>2, <3>3, <3>4 DEF SessionSound
  <2>12. SessionSound(t, lots') BY <2>8, <2>9, <2>10, <2>11, <2>w, SessionMoved
  <2>13. \A u \in Ticker : SessionSound(tick'[u], lots') BY <2>12, OnlySession DEF t
  <2>14. UndoSound' /\ SafetyLotWasAcked'
    BY <2>9, <2>10, <2>w, <1>4, RestMoved DEF WriteChunk
  <2>15. SettledUnderPassedLot'
    <3>1. runs' = [runs EXCEPT ![r] = [FreeRun EXCEPT !.status = "committed", !.lot = l,
                                                      !.objs = tick[s].now]]
      BY <1>4 DEF WriteChunk, l
    <3>2. runs'[r].lot = l /\ runs'[r].objs = tick[s].now
      BY <3>1 DEF TypeOK, FreeRun
    <3> SUFFICES ASSUME NEW q \in SettlementRuns'
                 PROVE  LET lot == lots'[runs'[q].lot]
                        IN /\ lot.status \in {"accepted", "settled", "reverted"}
                           /\ \A o \in runs'[q].objs : EpochOf[o] = lot.epoch /\ o \notin lot.sample
      BY DEF SettledUnderPassedLot
    <3>3. CASE q = r
      BY <3>2, <3>3, <2>9, <2>w DEF OfRemainder
    <3>4. CASE q # r
      <4>1. q \in SettlementRuns /\ runs'[q] = runs[q]
        BY <3>1, <3>4 DEF SettlementRuns, TypeOK
      <4>2. /\ lots'[runs[q].lot].status = lots[runs[q].lot].status
            /\ lots'[runs[q].lot].epoch = lots[runs[q].lot].epoch
            /\ lots'[runs[q].lot].sample = lots[runs[q].lot].sample
        BY <4>1, <2>9, <2>10 DEF SettlementRuns, Moved
      <4> QED BY <4>1, <4>2 DEF LotInv, SettledUnderPassedLot
    <3> QED BY <3>3, <3>4
  <2> QED BY <2>13, <2>14, <2>15 DEF LotInv
<1>5. CASE SettleEnd(s)
  <2> DEFINE old == tick[s].rows[l]
             new == [old EXCEPT !.status = "settled"]
  <2>w. /\ tick[s].pc = "settle" /\ l \in tick[s].todo /\ l \in Lot
        /\ lots[l].status = "accepted" /\ old.status = "accepted" /\ Acked(l, lots)
    BY <1>5, <1>w DEF SettleEnd, Settling
  <2>1. old \in LotRow /\ lots[l] \in LotRow BY <2>w, <1>t DEF Ticking, TypeOK
  <2>2. /\ new \in LotRow /\ new.status = "settled" /\ new.epoch = old.epoch
        /\ new.sample = old.sample /\ new.ack = old.ack
    <3> HIDE DEF old
    <3> QED BY <2>1 DEF LotRow, Status
  <2>3. lots' = [lots EXCEPT ![l] = Flush(lots[l], old, new)] BY <1>5 DEF SettleEnd
  <2>4. lots'[l] = Flush(lots[l], old, new) BY <2>3, <2>w DEF TypeOK
  <2>5. t = Visited(s, l) BY <1>5 DEF SettleEnd, TypeOK
  <2>6. t \in Ticking /\ SessionSound(t, lots) /\ l \notin t.todo
    BY <2>5, <2>w, <1>s, VisitedSound, TickTypes
  <2> HIDE DEF old, new, t, l
  <2>7. /\ lots'[l].status = "settled" /\ lots'[l].epoch = lots[l].epoch
        /\ lots'[l].sample = lots[l].sample /\ lots'[l].ack = lots[l].ack
    BY <2>1, <2>2, <2>4, <2>w, FlushFields
  <2>8. Moved(lots, lots', l) BY <2>3, <2>7, <2>w DEF Moved, Passed
  <2>9. \A u \in Ticker : SessionSound(tick'[u], lots')
    BY <2>6, <2>8, <2>w, SessionMoved, OnlySession DEF t
  <2>10. UndoSound' /\ SafetyLotWasAcked' BY <2>8, <2>w, <1>5, RestMoved DEF SettleEnd
  <2>11. SettledUnderPassedLot'
    BY <2>8, <2>w, <1>5, RunsMoved DEF SettleEnd, LotInv, SettlementRuns
  <2> QED BY <2>9, <2>10, <2>11 DEF LotInv
<1> QED BY <1>1, <1>2, <1>3, <1>4, <1>5 DEF SettleStep

\* A tick that begins, lists the open lots or ends; the workers it starts.
LEMMA BeginLot ==
  ASSUME TypeOK, LotInv, OneTicker, NEW s \in Ticker,
         \/ TickBegin(s) \/ ListLots(s) \/ TickEnd(s) \/ NightStep(s)
  PROVE  LotInv'
<1>t. tick[s] \in Ticking BY DEF TypeOK
<1>s. SessionSound(tick[s], lots) BY DEF LotInv
<1>1. CASE TickBegin(s)
  <2>1. tick'[s] = [NoTick EXCEPT !.pc = "begun", !.flags = flags]
    BY <1>1 DEF TickBegin, TypeOK
  <2>2. tick'[s].pc = "begun" /\ tick'[s].todo = {} /\ tick'[s].lot = NoLot
    BY <2>1 DEF NoTick
  <2>3. SessionSound(tick'[s], lots)
    BY <2>2 DEF SessionSound, OnLot, Agrees, Fresh, InHand, Working, Settling
  <2> QED BY <2>3, <1>1, TickOnly DEF TickBegin, data
<1>2. CASE ListLots(s)
  <2> DEFINE rows == [l \in Lot |-> IF IsOpen(l) THEN lots[l] ELSE BlankLot]
             open == {l \in Lot : IsOpen(l)}
             t == tick'[s]
  <2>1. t = [tick[s] EXCEPT !.pc = "walk", !.todo = open, !.rows = rows]
    BY <1>2 DEF ListLots, TypeOK
  <2>2. tick[s].lot = NoLot BY <1>2, <1>s DEF ListLots, SessionSound, OnLot, Working
  <2>3. t.pc = "walk" /\ t.todo = open /\ t.rows = rows /\ t.lot = NoLot
    <3> HIDE DEF rows, open, t
    <3> QED BY <2>1, <2>2, <1>t DEF Ticking
  <2>4. \A l \in open : rows[l] = lots[l] /\ lots[l].status \in {"judging", "accepted"}
    BY DEF IsOpen
  <2> HIDE DEF rows, open, t
  <2>5. OnLot(t) /\ InHand(t, lots) BY <2>3 DEF OnLot, InHand, Working, Settling
  <2>6. Agrees(t, lots) /\ Fresh(t, lots) BY <2>3, <2>4 DEF Agrees, Fresh
  <2>7. SessionSound(tick'[s], lots) BY <2>5, <2>6 DEF SessionSound, t
  <2> QED BY <2>7, <1>2, TickOnly DEF ListLots, data
<1>3. CASE TickEnd(s)
  <2>1. tick'[s] = NoTick BY <1>3 DEF TickEnd, TypeOK
  <2> QED BY <2>1, <1>3, NoTickSound, TickOnly DEF TickEnd, data
<1>4. ASSUME NEW p \in Planner, NEW e \in Epoch, BuildLot(s, p, e) PROVE LotInv'
  BY <1>4 DEF BuildLot, data, LotInv, UndoSound, SettledUnderPassedLot, SafetyLotWasAcked,
              SettlementRuns
<1>5. ASSUME NEW w \in Reverter, SpotCheck(s, w) PROVE LotInv'
  <2>1. tick'[s] = NoTick BY <1>5 DEF SpotCheck, TypeOK
  <2>2. \A u \in Ticker : SessionSound(tick'[u], lots')
    BY <2>1, <1>5, NoTickSound, OnlySession DEF SpotCheck
  <2>3. \A v \in Reverter : undo'[v].pc = "undo" => undo'[v] = undo[v]
    BY <1>5 DEF SpotCheck, TypeOK, NoUndo
  <2> QED BY <2>2, <2>3, <1>5 DEF SpotCheck, data, LotInv, UndoSound, SettledUnderPassedLot,
                                  SafetyLotWasAcked, SettlementRuns
<1> QED BY <1>1, <1>2, <1>3, <1>4, <1>5 DEF NightStep

\* A lot that is planned is one no session has listed.
LEMMA PlanLot ==
  ASSUME TypeOK, LotInv, NEW p \in Planner, PlanStep(p)
  PROVE  LotInv'
<1>1. ASSUME UNCHANGED <<lots, runs, tick, undo>> PROVE LotInv'
  BY <1>1 DEF LotInv, UndoSound, SettledUnderPassedLot, SafetyLotWasAcked, SettlementRuns
<1>2. ASSUME NEW e \in Epoch, PlanCheck(p, e) PROVE LotInv' BY <1>1, <1>2 DEF PlanCheck, data
<1>3. CASE PlanRefused(p) BY <1>1, <1>3 DEF PlanRefused, data
<1>4. ASSUME NEW k \in Lot, PlanInsert(p, k) PROVE LotInv'
  <2> DEFINE new == [BlankLot EXCEPT !.status = "judging", !.epoch = plan[p].epoch,
                                     !.sample = plan[p].sample]
  <2>1. lots' = [lots EXCEPT ![k] = new] /\ lots[k].status = "none" BY <1>4 DEF PlanInsert
  <2>2. new.status = "judging" BY DEF BlankLot
  <2> HIDE DEF new
  <2>3. Moved(lots, lots', k) /\ lots'[k].status = "judging" BY <2>1, <2>2 DEF Moved, TypeOK
  <2>4. ASSUME NEW s \in Ticker PROVE SessionSound(tick'[s], lots')
    <3>1. tick[s] \in Ticking /\ SessionSound(tick[s], lots) BY DEF TypeOK, LotInv
    <3>2. k \notin tick[s].todo BY <2>1, <3>1 DEF SessionSound, Agrees
    <3>3. SessionSound(tick[s], lots') BY <2>3, <3>1, <3>2, SessionMoved
    <3> QED BY <3>3, <1>4 DEF PlanInsert
  <2>5. UndoSound' /\ SafetyLotWasAcked' BY <2>3, <1>4, RestMoved DEF PlanInsert
  <2>6. SettledUnderPassedLot'
    BY <2>3, <1>4, RunsMoved DEF PlanInsert, data, LotInv, SettlementRuns
  <2> QED BY <2>4, <2>5, <2>6 DEF LotInv
<1> QED BY <1>2, <1>3, <1>4 DEF PlanStep

\* A revert makes a run's labels nobody's: there are fewer to answer for.
LEMMA RevertRunLot ==
  ASSUME TypeOK, LotInv, NEW r \in RunId, RevertRun(r) \/ UNCHANGED runs, UNCHANGED lots
  PROVE  SettledUnderPassedLot' /\ SafetyLotWasAcked'
<1>1. \A q \in SettlementRuns' : q \in SettlementRuns /\ runs'[q].lot = runs[q].lot
                                 /\ runs'[q].objs = runs[q].objs
  <2>1. CASE RevertRun(r)
    <3> DEFINE new == [runs[r] EXCEPT !.status = "reverted"]
    <3>1. new.status = "reverted" BY DEF TypeOK, Run
    <3>2. runs' = [runs EXCEPT ![r] = new] BY <2>1 DEF RevertRun
    <3> HIDE DEF new
    <3>3. \A q \in RunId : q \in SettlementRuns' => q # r /\ runs'[q] = runs[q]
      BY <3>1, <3>2 DEF SettlementRuns, TypeOK
    <3> QED BY <3>3 DEF SettlementRuns
  <2>2. CASE UNCHANGED runs BY <2>2 DEF SettlementRuns
  <2> QED BY <2>1, <2>2
<1> QED BY <1>1 DEF LotInv, SettledUnderPassedLot, SafetyLotWasAcked, SettlementRuns

LEMMA UndoLot ==
  ASSUME TypeOK, LotInv, NEW w \in Reverter, UndoStep(w)
  PROVE  LotInv'
<1>u. undo[w] \in Undoing BY DEF TypeOK
<1>f. ASSUME UNCHANGED <<lots, runs, tick>>,
             \A v \in Reverter : undo'[v].pc = "undo" =>
               \/ undo[v].pc = "undo" /\ undo'[v].lot = undo[v].lot
               \/ undo'[v].lot \in Lot /\ lots[undo'[v].lot].status \in {"settled", "reverted"}
      PROVE  LotInv'
  BY <1>f DEF LotInv, UndoSound, SettledUnderPassedLot, SafetyLotWasAcked, SettlementRuns
<1>1. ASSUME NEW l \in Lot, ManualRevert(w, l) PROVE LotInv'
  <2>1. lots[l].status = "settled" /\ undo'[w].lot = l BY <1>1 DEF ManualRevert, TypeOK, NoUndo
  <2>2. \A v \in Reverter \ {w} : undo'[v] = undo[v] BY <1>1 DEF ManualRevert, TypeOK
  <2> QED BY <1>1, <1>f, <2>1, <2>2 DEF ManualRevert, data
<1>2. ASSUME NEW l \in Lot, WorkerNext(w, l) PROVE LotInv'
  <2>1. undo'[w].pc = "undo" => lots[l].status = "settled" /\ undo'[w].lot = l
    BY <1>2, <1>u DEF WorkerNext, TypeOK, Undoing
  <2>2. \A v \in Reverter \ {w} : undo'[v] = undo[v] BY <1>2 DEF WorkerNext, TypeOK
  <2> QED BY <1>2, <1>f, <2>1, <2>2 DEF WorkerNext, data
<1>3. CASE WorkerEnd(w) BY <1>3, <1>f DEF WorkerEnd, data, TypeOK, NoUndo
<1>4. CASE UndoEnd(w)
  <2> DEFINE k == undo[w].lot
  <2>1. k \in Lot /\ lots[k].status \in {"settled", "reverted"}
    BY <1>4 DEF UndoEnd, LotInv, UndoSound
  <2>2. lots' = [lots EXCEPT ![k] = [lots[k] EXCEPT !.status = "reverted"]]
    BY <1>4 DEF UndoEnd
  <2>3. lots[k] \in LotRow BY <2>1 DEF TypeOK
  <2>4. undo'[w].pc = "step" /\ \A v \in Reverter \ {w} : undo'[v] = undo[v]
    BY <1>4, <1>u DEF UndoEnd, TypeOK, Undoing
  <2> HIDE DEF k
  <2>5. /\ lots'[k].status = "reverted" /\ lots'[k].epoch = lots[k].epoch
        /\ lots'[k].sample = lots[k].sample /\ lots'[k].ack = lots[k].ack
    BY <2>1, <2>2, <2>3 DEF TypeOK, LotRow
  <2>6. Moved(lots, lots', k) BY <2>1, <2>2, <2>5 DEF Moved, Passed
  <2>7. ASSUME NEW s \in Ticker PROVE SessionSound(tick'[s], lots')
    <3>1. tick[s] \in Ticking /\ SessionSound(tick[s], lots) BY DEF TypeOK, LotInv
    <3>2. ~(k \in tick[s].todo /\ (k # tick[s].lot \/ tick[s].pc \in Settling))
      BY <2>1, <3>1 DEF SessionSound, Fresh, InHand
    <3>3. SessionSound(tick[s], lots') BY <2>1, <2>6, <3>1, <3>2, SessionMoved
    <3> QED BY <3>3, <1>4 DEF UndoEnd
  <2>8. UndoSound' BY <2>4, <2>5, <2>6, <2>1 DEF LotInv, UndoSound, Moved
  <2>9. SafetyLotWasAcked' BY <2>1, <2>5, <2>6, SafetyMoved
  <2>10. SettledUnderPassedLot'
    BY <2>1, <2>6, <1>4, RunsMoved DEF UndoEnd, data, LotInv, SettlementRuns
  <2> QED BY <2>7, <2>8, <2>9, <2>10 DEF LotInv
<1>5. CASE StepCheck(w)
  BY <1>5, <1>f, <1>u DEF StepCheck, data, TypeOK, Stepped, NoUndo, Undoing
<1>6. CASE StepDown(w)
  BY <1>6, <1>f, <1>u DEF StepDown, data, TypeOK, Stepped, NoUndo, Undoing
<1>7. ASSUME NEW r \in RunId, UndoRun(w, r) PROVE LotInv'
  <2>1. SettledUnderPassedLot' /\ SafetyLotWasAcked' BY <1>7, RevertRunLot DEF UndoRun
  <2>2. \A v \in Reverter : undo'[v].pc = undo[v].pc /\ undo'[v].lot = undo[v].lot
    BY <1>7, <1>u DEF UndoRun, TypeOK, Undoing
  <2> QED BY <2>1, <2>2, <1>7 DEF UndoRun, LotInv, UndoSound
<1> QED BY <1>1, <1>2, <1>3, <1>4, <1>5, <1>6, <1>7 DEF UndoStep

LEMMA PersonLot ==
  ASSUME TypeOK, LotInv, PersonStep
  PROVE  LotInv'
<1>f. ASSUME UNCHANGED <<lots, tick, undo>>, SettledUnderPassedLot', SafetyLotWasAcked'
      PROVE  LotInv'
  BY <1>f DEF LotInv, UndoSound
<1>1. ASSUME NEW o \in Object, NEW v \in {"clean", "defect"}, Rule(o, v) PROVE LotInv'
  BY <1>1 DEF Rule, LotInv, UndoSound, SettledUnderPassedLot, SafetyLotWasAcked, SettlementRuns
<1>2. ASSUME NEW S \in Batches, NEW v \in {"clean", "defect"}, NEW r \in RunId, RuleBatch(S, v, r)
      PROVE  LotInv'
  <2> PICK was : runs' = [runs EXCEPT ![r] = [status |-> "committed", lot |-> NoLot,
                                              objs |-> S, was |-> was]]
    BY <1>2 DEF RuleBatch
  <2>1. \A q \in SettlementRuns' : q \in SettlementRuns /\ runs'[q] = runs[q]
    BY NullAssumption DEF SettlementRuns, TypeOK
  <2> QED BY <2>1, <1>2, <1>f DEF RuleBatch, LotInv, SettledUnderPassedLot, SafetyLotWasAcked
<1>3. ASSUME NEW r \in RunId, RevertByName(r) PROVE LotInv'
  BY <1>3, <1>f, RevertRunLot DEF RevertByName
<1>4. ASSUME NEW k \in Lot, Ack(k) PROVE LotInv'
  <2> DEFINE new == [lots[k] EXCEPT !.ack = TRUE]
  <2>1. lots' = [lots EXCEPT ![k] = new] /\ lots[k].status = "accepted" BY <1>4 DEF Ack
  <2>2. /\ new.status = lots[k].status /\ new.epoch = lots[k].epoch
        /\ new.sample = lots[k].sample /\ new.ack
    BY DEF TypeOK, LotRow
  <2> HIDE DEF new
  <2>3. Moved(lots, lots', k) /\ lots'[k].status = lots[k].status
    BY <2>1, <2>2 DEF Moved, TypeOK
  <2>4. ASSUME NEW s \in Ticker PROVE SessionSound(tick'[s], lots')
    <3>1. tick[s] \in Ticking /\ SessionSound(tick[s], lots) BY DEF TypeOK, LotInv
    <3>2. SessionSound(tick[s], lots') BY <2>3, <3>1, SessionMoved
    <3> QED BY <3>2, <1>4 DEF Ack
  <2>5. UndoSound' /\ SafetyLotWasAcked' BY <2>1, <2>3, <1>4, RestMoved DEF Ack
  <2>6. SettledUnderPassedLot'
    BY <2>3, <1>4, RunsMoved DEF Ack, data, LotInv, SettlementRuns
  <2> QED BY <2>4, <2>5, <2>6 DEF LotInv
<1>5. ASSUME NEW h \in Hand, SetByHand(h) PROVE LotInv'
  BY <1>5 DEF SetByHand, data, LotInv, UndoSound, SettledUnderPassedLot, SafetyLotWasAcked,
              SettlementRuns
<1> QED BY <1>1, <1>2, <1>3, <1>4, <1>5 DEF PersonStep

LEMMA GovernLot ==
  ASSUME LotInv, GovernStep \/ UNCHANGED vars
  PROVE  LotInv'
<1>1. UNCHANGED <<lots, runs, tick, undo>>
  BY DEF GovernStep, CooldownExpires, ChampionPromoted, OnChampionChange, ChampionChangeLost,
         Engage, Release, OptIn, data, vars
<1> QED BY <1>1 DEF LotInv, UndoSound, SettledUnderPassedLot, SafetyLotWasAcked, SettlementRuns

LEMMA CrashLot ==
  ASSUME TypeOK, LotInv, Crash
  PROVE  LotInv'
<1>1. \A s \in Ticker : tick'[s] \in {tick[s], NoTick} BY DEF Crash, TypeOK
<1>2. \A w \in Reverter : undo'[w] \in {undo[w], NoUndo} BY DEF Crash, TypeOK
<1>3. \A s \in Ticker : SessionSound(tick'[s], lots) BY <1>1, NoTickSound DEF LotInv
<1>4. UNCHANGED <<lots, runs>> BY DEF Crash, data
<1>5. UndoSound' BY <1>2, <1>4 DEF LotInv, UndoSound, NoUndo
<1> QED BY <1>3, <1>4, <1>5 DEF LotInv, SettledUnderPassedLot, SafetyLotWasAcked, SettlementRuns

LEMMA LotStep ==
  ASSUME OneTicker
  PROVE  TypeOK /\ LotInv /\ [Next]_vars => LotInv'
<1> SUFFICES ASSUME TypeOK, LotInv, [Next]_vars PROVE LotInv' OBVIOUS
<1>1. CASE UNCHANGED vars BY <1>1, GovernLot
<1>2. ASSUME NEW s \in Ticker, TickStep(s) \/ NightStep(s) PROVE LotInv'
  BY <1>2, BeginLot, TallyLot, SettleLot DEF TickStep
<1>3. CASE Next
  BY <1>2, <1>3, PlanLot, UndoLot, PersonLot, GovernLot, CrashLot DEF Next
<1> QED BY <1>1, <1>3

\* Whatever the machine closed, it closed under a lot that passed, from that lot's
\* stratum and outside the sample that decided it, if ticks do not overlap: tally_lot,
\* settle_lot and revert_lot, with any number of lots, planners, reverters and crashes.
THEOREM SettledUnderPassedLotAlways ==
  ASSUME OneTicker
  PROVE  Spec => []SettledUnderPassedLot
<1>1. Init => TypeOK /\ LotInv BY InitType, InitLot
<1>2. TypeOK /\ LotInv /\ [Next]_vars => (TypeOK /\ LotInv)' BY TypeStep, LotStep
<1>3. TypeOK /\ LotInv => SettledUnderPassedLot BY DEF LotInv
<1> QED BY <1>1, <1>2, <1>3, PTL DEF Spec

\* The first lot a safety class settles in an epoch was acknowledged by a person, if ticks
\* do not overlap (_first_epoch_lot and the ack endpoint).
THEOREM SafetyLotWasAckedAlways ==
  ASSUME OneTicker
  PROVE  Spec => []SafetyLotWasAcked
<1>1. Init => TypeOK /\ LotInv BY InitType, InitLot
<1>2. TypeOK /\ LotInv /\ [Next]_vars => (TypeOK /\ LotInv)' BY TypeStep, LotStep
<1>3. TypeOK /\ LotInv => SafetyLotWasAcked BY DEF LotInv
<1> QED BY <1>1, <1>2, <1>3, PTL DEF Spec

-------------------------------------------------------------------------------
(* Reverts, where nobody rules on several labels at once: taking such a batch back *)
(* gives a settled label its state again and not its run (SettledIsRevertible does *)
(* not hold then).                                                                 *)

NoBatches == Batches = {}

\* Every run closed labels that were in review.
RunsFromReview == \A r \in RunId : runs[r].was = FromReview

RevertInv == RunsFromReview /\ SettledIsRevertible

\* A run's labels are given back to review, or were another's.
LEMMA RestoredLabels ==
  ASSUME RunsFromReview, NEW r \in RunId, NEW o \in Object
  PROVE  IF o \in Owned(r) THEN Restored(r)[o] = [state |-> "review", human |-> FALSE, run |-> NoRun]
                           ELSE Restored(r)[o] = objects[o]
<1>1. runs[r].was[o] = [state |-> "review", human |-> FALSE] BY DEF RunsFromReview, FromReview
<1>2. Restored(r)[o] =
        IF o \in Owned(r)
        THEN [state |-> runs[r].was[o].state, human |-> runs[r].was[o].human, run |-> NoRun]
        ELSE objects[o]
  BY DEF Restored
<1>3. runs[r].was[o].state = "review" /\ runs[r].was[o].human = FALSE BY <1>1
<1> HIDE <1>1
<1> QED BY <1>2, <1>3

\* The step of a run: the labels of r go back, and r is reverted.
LEMMA RevertRunFields ==
  ASSUME TypeOK, NEW r \in RunId, RevertRun(r)
  PROVE  /\ \A q \in RunId : q # r => runs'[q] = runs[q]
         /\ runs'[r].status = "reverted" /\ runs'[r].lot = runs[r].lot
         /\ runs'[r].objs = runs[r].objs /\ runs'[r].was = runs[r].was
<1> DEFINE new == [runs[r] EXCEPT !.status = "reverted"]
<1>1. /\ new.status = "reverted" /\ new.lot = runs[r].lot
      /\ new.objs = runs[r].objs /\ new.was = runs[r].was
  BY DEF TypeOK, Run
<1>2. runs' = [runs EXCEPT ![r] = new] BY DEF RevertRun
<1> HIDE DEF new
<1> QED BY <1>1, <1>2 DEF TypeOK

LEMMA RevertRunRevertible ==
  ASSUME TypeOK, RevertInv, NEW r \in RunId, RevertRun(r)
  PROVE  RevertInv'
<1>1. /\ \A q \in RunId : q # r => runs'[q] = runs[q]
      /\ runs'[r].objs = runs[r].objs /\ runs'[r].was = runs[r].was
  BY RevertRunFields
<1>2. RunsFromReview' BY <1>1 DEF RevertInv, RunsFromReview
<1>3. ASSUME NEW o \in Object, objects'[o].state = "settled", ~objects'[o].human
      PROVE  \E q \in RunId : q = objects'[o].run /\ runs'[q].status = "committed"
                              /\ o \in runs'[q].objs
  <2>1. objects'[o] = Restored(r)[o] BY DEF RevertRun
  <2>2. o \notin Owned(r) /\ objects'[o] = objects[o]
    BY <2>1, <1>3, RestoredLabels DEF RevertInv
  <2>3. PICK q \in RunId : q = objects[o].run /\ runs[q].status = "committed"
                           /\ o \in runs[q].objs
    BY <1>3, <2>2 DEF RevertInv, SettledIsRevertible
  <2>4. q # r BY <1>3, <2>2, <2>3 DEF Owned
  <2> QED BY <1>1, <2>2, <2>3, <2>4
<1> QED BY <1>2, <1>3 DEF RevertInv, SettledIsRevertible

\* What a chunk writes.
LEMMA WriteChunkFields ==
  ASSUME TypeOK, NEW s \in Ticker, NEW r \in RunId, WriteChunk(s, r)
  PROVE  /\ runs[r].status = "free" /\ runs'[r].status = "committed"
         /\ runs'[r].lot = tick[s].lot /\ runs'[r].objs = tick[s].now
         /\ runs'[r].was = FromReview
         /\ \A q \in RunId : q # r => runs'[q] = runs[q]
         /\ \A o \in Object : IF o \in tick[s].now
              THEN objects'[o].state = "settled" /\ objects'[o].run = r
                   /\ objects'[o].human = objects[o].human
              ELSE objects'[o] = objects[o]
<1> DEFINE new == [FreeRun EXCEPT !.status = "committed", !.lot = tick[s].lot,
                                  !.objs = tick[s].now]
<1>1. runs' = [runs EXCEPT ![r] = new] /\ runs[r].status = "free"
  BY DEF WriteChunk, IsNextRun
<1>2. /\ new.status = "committed" /\ new.lot = tick[s].lot /\ new.objs = tick[s].now
      /\ new.was = FromReview
  BY DEF FreeRun
<1> HIDE DEF new
<1>3. \A o \in Object : IF o \in tick[s].now
        THEN objects'[o].state = "settled" /\ objects'[o].run = r
             /\ objects'[o].human = objects[o].human
        ELSE objects'[o] = objects[o]
  <2> TAKE o \in Object
  <2>1. objects[o] \in Label BY DEF TypeOK
  <2>2. objects'[o] = IF o \in tick[s].now
                      THEN [objects[o] EXCEPT !.state = "settled", !.run = r] ELSE objects[o]
    BY DEF WriteChunk
  <2> QED BY <2>1, <2>2 DEF Label
<1> QED BY <1>1, <1>2, <1>3 DEF TypeOK

\* Every other step leaves the runs alone, and leaves the labels alone or gives one to a
\* person.
LEMMA FrameRevertible ==
  ASSUME NoBatches, [Next]_vars
  PROVE  \/ \E s \in Ticker, r \in RunId : WriteChunk(s, r)
         \/ \E r \in RunId : RevertRun(r) /\ runs[r].status = "committed" /\ UNCHANGED tick
         \/ /\ UNCHANGED runs
            /\ UNCHANGED objects \/ \E o \in Object, v \in {"clean", "defect"} : Rule(o, v)
<1>1. CASE UNCHANGED vars BY <1>1 DEF vars
<1>2. ASSUME NEW s \in Ticker, TickStep(s)
      PROVE  UNCHANGED <<objects, runs>> \/ \E r \in RunId : WriteChunk(s, r)
  BY <1>2 DEF TickStep, TickBegin, ListLots, TallyStep, TallyWaits, Tally, PromoteCheck,
    Promote, RejectCheck, RejectStepDown, SettleStep, Permit, SettleList, ReadChunk, SettleEnd,
    TickEnd, data
<1>3. ASSUME NEW s \in Ticker, NightStep(s) PROVE UNCHANGED <<objects, runs>>
  BY <1>3 DEF NightStep, BuildLot, SpotCheck, data
<1>4. ASSUME NEW p \in Planner, PlanStep(p) PROVE UNCHANGED <<objects, runs>>
  BY <1>4 DEF PlanStep, PlanCheck, PlanRefused, PlanInsert, data
<1>5. ASSUME NEW w \in Reverter, UndoStep(w)
      PROVE  \/ UNCHANGED <<objects, runs>>
             \/ \E r \in RunId : RevertRun(r) /\ runs[r].status = "committed" /\ UNCHANGED tick
  BY <1>5 DEF UndoStep, ManualRevert, WorkerNext, WorkerEnd, UndoEnd, StepCheck, StepDown,
    UndoRun, data
<1>6. ASSUME PersonStep
      PROVE  \/ UNCHANGED <<objects, runs>>
             \/ \E r \in RunId : RevertRun(r) /\ runs[r].status = "committed" /\ UNCHANGED tick
             \/ UNCHANGED runs /\ \E o \in Object, v \in {"clean", "defect"} : Rule(o, v)
  BY <1>6 DEF PersonStep, RevertByName, Ack, SetByHand, Rule, NoBatches, data
<1>7. ASSUME GovernStep PROVE UNCHANGED <<objects, runs>>
  BY <1>7 DEF GovernStep, CooldownExpires, ChampionPromoted, OnChampionChange,
    ChampionChangeLost, Engage, Release, OptIn, data
<1>8. ASSUME Crash PROVE UNCHANGED <<objects, runs>> BY <1>8 DEF Crash, data
<1> QED BY <1>1, <1>2, <1>3, <1>4, <1>5, <1>6, <1>7, <1>8 DEF Next

LEMMA RevertibleStep ==
  ASSUME NoBatches
  PROVE  TypeOK /\ RevertInv /\ [Next]_vars => RevertInv'
<1> SUFFICES ASSUME TypeOK, RevertInv, [Next]_vars PROVE RevertInv' OBVIOUS
<1>1. ASSUME NEW s \in Ticker, NEW r \in RunId, WriteChunk(s, r) PROVE RevertInv'
  <2>1. /\ runs[r].status = "free" /\ runs'[r].status = "committed"
        /\ runs'[r].objs = tick[s].now /\ runs'[r].was = FromReview
        /\ \A q \in RunId : q # r => runs'[q] = runs[q]
        /\ \A o \in Object : IF o \in tick[s].now
             THEN objects'[o].state = "settled" /\ objects'[o].run = r
             ELSE objects'[o] = objects[o]
    BY <1>1, WriteChunkFields
  <2>2. RunsFromReview' BY <2>1 DEF RevertInv, RunsFromReview
  <2>3. ASSUME NEW o \in Object, objects'[o].state = "settled", ~objects'[o].human
        PROVE  \E q \in RunId : q = objects'[o].run /\ runs'[q].status = "committed"
                                /\ o \in runs'[q].objs
    <3>1. CASE o \in tick[s].now BY <2>1, <3>1
    <3>2. CASE o \notin tick[s].now
      <4>1. objects'[o] = objects[o] BY <2>1, <3>2
      <4>2. PICK q \in RunId : q = objects[o].run /\ runs[q].status = "committed"
                               /\ o \in runs[q].objs
        BY <2>3, <4>1 DEF RevertInv, SettledIsRevertible
      <4> QED BY <2>1, <4>1, <4>2
    <3> QED BY <3>1, <3>2
  <2> QED BY <2>2, <2>3 DEF RevertInv, SettledIsRevertible
<1>2. ASSUME NEW r \in RunId, RevertRun(r) PROVE RevertInv' BY <1>2, RevertRunRevertible
<1>3. ASSUME UNCHANGED <<objects, runs>> PROVE RevertInv'
  BY <1>3 DEF RevertInv, RunsFromReview, SettledIsRevertible
<1>4. ASSUME UNCHANGED runs, NEW o \in Object, NEW v \in {"clean", "defect"}, Rule(o, v)
      PROVE  RevertInv'
  <2>1. objects' = [objects EXCEPT ![o] = [objects[o] EXCEPT !.state = Ruling(v), !.human = TRUE]]
    BY <1>4 DEF Rule
  <2>2. objects[o] \in Label BY DEF TypeOK
  <2> DEFINE new == [objects[o] EXCEPT !.state = Ruling(v), !.human = TRUE]
  <2>3. new.human BY <2>2 DEF Label
  <2> HIDE DEF new
  <2>4. \A p \in Object : ~objects'[p].human => objects'[p] = objects[p]
    BY <2>1, <2>3 DEF TypeOK, new
  <2> QED BY <2>4, <1>4 DEF RevertInv, RunsFromReview, SettledIsRevertible
<1> QED BY <1>1, <1>2, <1>3, <1>4, FrameRevertible

\* Every label the machine closed carries a committed run that lists it, and can be
\* reopened by reverting that run, unless somebody takes back a batch of rulings:
\* settle_lot and revert_run, with overlapping ticks and crashes between chunks.
THEOREM SettledIsRevertibleAlways ==
  ASSUME NoBatches
  PROVE  Spec => []SettledIsRevertible
<1>1. Init => RevertInv
  BY DEF Init, RevertInv, RunsFromReview, SettledIsRevertible, FreeRun
<1>2. Init => TypeOK BY InitType
<1>3. TypeOK /\ RevertInv /\ [Next]_vars => (TypeOK /\ RevertInv)' BY TypeStep, RevertibleStep
<1>4. RevertInv => SettledIsRevertible BY DEF RevertInv
<1> QED BY <1>1, <1>2, <1>3, <1>4, PTL DEF Spec

\* A session comes to hold a chunk by reading it, and in no other way.
LEMMA ChunkRead ==
  ASSUME TypeOK, [Next]_vars, NEW s \in Ticker, tick'[s].pc = "chunk", tick'[s] # tick[s]
  PROVE  ReadChunk(s)
<1> SUFFICES ASSUME ~ReadChunk(s) PROVE FALSE OBVIOUS
<1>t. tick[s] \in Ticking BY DEF TypeOK
<1>v. /\ \A l : Visited(s, l).pc = "walk"
      /\ \A l : \A pc \in {"passed", "cleared", "failed", "down", "permitted"} :
           At(s, l, pc).pc = pc
  <2>1. \A l : Visited(s, l).pc = "walk" BY DEF Visited, NoTick
  <2>2. ASSUME NEW l, NEW pc \in {"passed", "cleared", "failed", "down", "permitted"}
        PROVE  At(s, l, pc).pc = pc
    BY <1>t DEF At, Ticking
  <2> QED BY <2>1, <2>2
<1>0. ASSUME UNCHANGED tick PROVE FALSE BY <1>0
<1>1. ASSUME NEW u \in Ticker, TickStep(u) PROVE FALSE
  <2>1. u = s
    BY <1>1 DEF TickStep, TickBegin, ListLots, TallyStep, TallyWaits, Tally, PromoteCheck,
      Promote, RejectCheck, RejectStepDown, SettleStep, Permit, SettleList, ReadChunk,
      WriteChunk, SettleEnd, TickEnd, TypeOK
  <2>2. ~TickBegin(s) /\ ~TickEnd(s)
    <3>1. [NoTick EXCEPT !.pc = "begun", !.flags = flags].pc = "begun" BY DEF NoTick
    <3>2. NoTick.pc = "idle" BY DEF NoTick
    <3> QED BY <3>1, <3>2 DEF TickBegin, TickEnd, TypeOK
  <2>3. ~ListLots(s) BY <1>t DEF ListLots, TypeOK, Ticking
  <2>4. ~TallyStep(s)
    <3>1. ASSUME NEW l \in Lot PROVE ~TallyWaits(s, l) /\ ~Tally(s, l)
      BY <1>v DEF TallyWaits, Tally, TypeOK
    <3>2. ~PromoteCheck(s) /\ ~Promote(s) BY <1>v DEF PromoteCheck, Promote, TypeOK
    <3>3. ~RejectCheck(s) /\ ~RejectStepDown(s) BY <1>v DEF RejectCheck, RejectStepDown, TypeOK
    <3> QED BY <3>1, <3>2, <3>3 DEF TallyStep
  <2>5. ~SettleStep(s)
    <3>1. ASSUME NEW l \in Lot PROVE ~Permit(s, l) BY <1>v DEF Permit, TypeOK
    <3>2. ~SettleList(s)
      <4> SUFFICES ASSUME SettleList(s) PROVE FALSE OBVIOUS
      <4> DEFINE ids == Remainder(tick[s].rows[tick[s].lot])
      <4>1. tick'[s] = [tick[s] EXCEPT !.pc = "settle", !.ids = ids]
        BY DEF SettleList, TypeOK
      <4> HIDE DEF ids
      <4> QED BY <4>1, <1>t DEF Ticking
    <3>3. ~SettleEnd(s) BY <1>v DEF SettleEnd, TypeOK
    <3>4. ASSUME NEW r \in RunId, WriteChunk(s, r) PROVE FALSE
      <4> PICK rows, seen : tick'[s] = [tick[s] EXCEPT !.pc = "settle", !.now = {},
                              !.aliased = TRUE, !.rows = rows, !.spots = seen]
        BY <3>4 DEF WriteChunk, TypeOK
      <4> QED BY <1>t DEF Ticking
    <3> QED BY <3>1, <3>2, <3>3, <3>4 DEF SettleStep
  <2> QED BY <1>1, <2>1, <2>2, <2>3, <2>4, <2>5 DEF TickStep
<1>2. ASSUME NEW u \in Ticker, NightStep(u) PROVE FALSE
  <2>1. NoTick.pc # "chunk" BY DEF NoTick
  <2>2. ASSUME NEW w \in Reverter, SpotCheck(u, w) PROVE FALSE
    BY <2>1, <2>2 DEF SpotCheck, TypeOK
  <2>3. ASSUME NEW p \in Planner, NEW e \in Epoch, BuildLot(u, p, e) PROVE FALSE
    BY <1>0, <2>3 DEF BuildLot
  <2> QED BY <1>2, <2>2, <2>3 DEF NightStep
<1>3. ASSUME NEW p \in Planner, PlanStep(p) PROVE FALSE
  BY <1>0, <1>3 DEF PlanStep, PlanCheck, PlanRefused, PlanInsert
<1>4. ASSUME NEW w \in Reverter, UndoStep(w) PROVE FALSE
  BY <1>0, <1>4 DEF UndoStep, ManualRevert, WorkerNext, WorkerEnd, UndoEnd, StepCheck,
    StepDown, UndoRun
<1>5. ASSUME PersonStep PROVE FALSE
  BY <1>0, <1>5 DEF PersonStep, Rule, RuleBatch, RevertByName, Ack, SetByHand
<1>6. ASSUME GovernStep \/ UNCHANGED vars PROVE FALSE
  BY <1>0, <1>6 DEF GovernStep, CooldownExpires, ChampionPromoted, OnChampionChange,
    ChampionChangeLost, Engage, Release, OptIn, vars
<1>7. ASSUME Crash PROVE FALSE BY <1>7 DEF Crash, TypeOK, NoTick
<1> QED BY <1>1, <1>2, <1>3, <1>4, <1>5, <1>6, <1>7 DEF Next

-------------------------------------------------------------------------------
(* The promise: a lot lives in order.                                             *)

\* What a tally or the end of a settlement writes to a row is its status alone.
LEMMA StatusFlushed ==
  ASSUME NEW row \in LotRow, NEW old \in LotRow, NEW st \in Status,
         NEW new, new = [old EXCEPT !.status = st]
  PROVE  /\ new \in LotRow /\ Flush(row, old, new).runs = row.runs
         /\ Flush(row, old, new).status = IF st # old.status THEN st ELSE row.status
BY DEF LotRow, Flush

\* A step that is not a tally, the end of a settlement, the plan of a lot or the end of a
\* revert leaves every status.
LEMMA StatusKept ==
  ASSUME TypeOK, [Next]_vars
  PROVE  \/ UNCHANGED lots
         \/ \E k \in Lot : Ack(k)
         \/ \E s \in Ticker, r \in RunId : WriteChunk(s, r)
         \/ \E s \in Ticker, l \in Lot : Tally(s, l)
         \/ \E s \in Ticker : SettleEnd(s)
         \/ \E p \in Planner, l \in Lot : PlanInsert(p, l)
         \/ \E w \in Reverter : UndoEnd(w)
<1>1. CASE UNCHANGED vars BY <1>1 DEF vars
<1>2. ASSUME NEW s \in Ticker, TickStep(s)
      PROVE  \/ UNCHANGED lots \/ \E r \in RunId : WriteChunk(s, r)
             \/ \E l \in Lot : Tally(s, l)
             \/ SettleEnd(s)
  BY <1>2 DEF TickStep, TickBegin, ListLots, TallyStep, TallyWaits, PromoteCheck,
    Promote, RejectCheck, RejectStepDown, SettleStep, Permit, SettleList, ReadChunk,
    TickEnd
<1>3. ASSUME NEW s \in Ticker, NightStep(s) PROVE UNCHANGED lots
  BY <1>3 DEF NightStep, BuildLot, SpotCheck
<1>4. ASSUME NEW p \in Planner, PlanStep(p) PROVE UNCHANGED lots \/ \E l \in Lot : PlanInsert(p, l)
  BY <1>4 DEF PlanStep, PlanCheck, PlanRefused
<1>5. ASSUME NEW w \in Reverter, UndoStep(w) PROVE UNCHANGED lots \/ UndoEnd(w)
  BY <1>5 DEF UndoStep, ManualRevert, WorkerNext, WorkerEnd, StepCheck, StepDown, UndoRun
<1>6. ASSUME PersonStep PROVE UNCHANGED lots \/ \E k \in Lot : Ack(k)
  BY <1>6 DEF PersonStep, RevertByName, SetByHand, Rule, RuleBatch
<1>7. ASSUME GovernStep PROVE UNCHANGED lots
  BY <1>7 DEF GovernStep, CooldownExpires, ChampionPromoted, OnChampionChange,
    ChampionChangeLost, Engage, Release, OptIn
<1>8. ASSUME Crash PROVE UNCHANGED lots BY <1>8 DEF Crash
<1> QED BY <1>1, <1>2, <1>3, <1>4, <1>5, <1>6, <1>7, <1>8 DEF Next

Steady == \A l \in Lot : lots'[l].status = lots[l].status
MovesOn(k) ==
  /\ <<lots[k].status, lots'[k].status>> \in Promise!Moves
  /\ \A l \in Lot \ {k} : lots'[l] = lots[l]
  /\ UNCHANGED <<objects, runs>>

\* One lot moves along its life, and no label with it; or none does.
LEMMA LotMoves ==
  ASSUME TypeOK, LotInv, [Next]_vars
  PROVE  Steady \/ \E k \in Lot : MovesOn(k)
<1>1. CASE UNCHANGED lots BY <1>1 DEF Steady
<1>2. ASSUME NEW k \in Lot, Ack(k) PROVE Steady
  <2> DEFINE new == [lots[k] EXCEPT !.ack = TRUE]
  <2>1. new.status = lots[k].status BY DEF TypeOK, LotRow
  <2>2. lots' = [lots EXCEPT ![k] = new] BY <1>2 DEF Ack
  <2> HIDE DEF new
  <2> QED BY <2>1, <2>2 DEF TypeOK, Steady
<1>3. ASSUME NEW s \in Ticker, NEW r \in RunId, WriteChunk(s, r) PROVE Steady
  <2> PICK l : l = tick[s].lot OBVIOUS
  <2> DEFINE old == tick[s].rows[l]
             new == [old EXCEPT !.runs = old.runs \cup {r}]
  <2>1. lots' = [lots EXCEPT ![l] = Flush(lots[l], LoadedRuns(s, old, new), new)]
        /\ tick[s].pc = "chunk"
    BY <1>3 DEF WriteChunk
  <2>2. tick[s] \in Ticking /\ SessionSound(tick[s], lots) BY DEF TypeOK, LotInv
  <2>3. l \in Lot BY <2>1, <2>2 DEF SessionSound, OnLot, Working, Ticking
  <2>4. old \in LotRow /\ lots[l] \in LotRow BY <2>2, <2>3 DEF Ticking, TypeOK
  <2> HIDE DEF old
  <2>5. new \in LotRow /\ new.status = old.status BY <2>4 DEF LotRow
  <2> HIDE DEF new
  <2>6. lots'[l].status = lots[l].status
    BY <2>1, <2>3, <2>4, <2>5, FlushFields DEF TypeOK, LoadedRuns
  <2> QED BY <2>1, <2>6 DEF TypeOK, Steady
<1>4. ASSUME NEW s \in Ticker, NEW l \in Lot, Tally(s, l) PROVE Steady \/ MovesOn(l)
  <2> DEFINE old == tick[s].rows[l]
             st == Decision(old.sample)
             new == [old EXCEPT !.status = st]
  <2>1. lots' = [lots EXCEPT ![l] = Flush(lots[l], old, new)] /\ UNCHANGED <<objects, runs>>
        /\ Visits(s, l, "judging")
    BY <1>4 DEF Tally, data
  <2>2. tick[s] \in Ticking /\ SessionSound(tick[s], lots) BY DEF TypeOK, LotInv
  <2>3. old \in LotRow /\ lots[l] \in LotRow BY <2>2 DEF Ticking, TypeOK
  <2>4. old.status = "judging" /\ lots[l].status = "judging"
    BY <2>1, <2>2, NullAssumption DEF Visits, SessionSound, OnLot, Working, Fresh
  <2>5. st \in {"accepted", "rejected", "parked"} BY DEF Decision
  <2> HIDE DEF old, st
  <2>6. Flush(lots[l], old, new).status = st BY <2>3, <2>4, <2>5, StatusFlushed DEF Status
  <2> HIDE DEF new
  <2>7. lots'[l].status = st /\ \A k \in Lot \ {l} : lots'[k] = lots[k] BY <2>1, <2>6 DEF TypeOK
  <2> QED BY <2>1, <2>4, <2>5, <2>7 DEF MovesOn, Promise!Moves
<1>5. ASSUME NEW s \in Ticker, SettleEnd(s) PROVE \E k \in Lot : MovesOn(k)
  <2> PICK l : l = tick[s].lot OBVIOUS
  <2> DEFINE old == tick[s].rows[l]
             new == [old EXCEPT !.status = "settled"]
  <2>1. lots' = [lots EXCEPT ![l] = Flush(lots[l], old, new)] /\ UNCHANGED <<objects, runs>>
        /\ tick[s].pc = "settle"
    BY <1>5 DEF SettleEnd
  <2>2. tick[s] \in Ticking /\ SessionSound(tick[s], lots) BY DEF TypeOK, LotInv
  <2>3. /\ l \in Lot /\ old.status = "accepted" /\ lots[l].status = "accepted"
    BY <2>1, <2>2 DEF SessionSound, OnLot, Working, InHand, Settling, Ticking
  <2>4. old \in LotRow /\ lots[l] \in LotRow BY <2>2, <2>3 DEF Ticking, TypeOK
  <2> HIDE DEF old
  <2>5. Flush(lots[l], old, new).status = "settled" BY <2>3, <2>4, StatusFlushed DEF Status
  <2> HIDE DEF new
  <2>6. lots'[l].status = "settled" /\ \A k \in Lot \ {l} : lots'[k] = lots[k]
    BY <2>1, <2>3, <2>5 DEF TypeOK
  <2>7. MovesOn(l) BY <2>1, <2>3, <2>6 DEF MovesOn, Promise!Moves
  <2> QED BY <2>3, <2>7
<1>6. ASSUME NEW p \in Planner, NEW l \in Lot, PlanInsert(p, l) PROVE MovesOn(l)
  <2> DEFINE new == [BlankLot EXCEPT !.status = "judging", !.epoch = plan[p].epoch,
                                     !.sample = plan[p].sample]
  <2>1. lots' = [lots EXCEPT ![l] = new] /\ lots[l].status = "none" /\ UNCHANGED <<objects, runs>>
    BY <1>6 DEF PlanInsert, data
  <2>2. new.status = "judging" BY DEF BlankLot
  <2> HIDE DEF new
  <2>3. lots'[l].status = "judging" /\ \A k \in Lot \ {l} : lots'[k] = lots[k]
    BY <2>1, <2>2 DEF TypeOK
  <2> QED BY <2>1, <2>3 DEF MovesOn, Promise!Moves
<1>7. ASSUME NEW w \in Reverter, UndoEnd(w) PROVE Steady \/ \E k \in Lot : MovesOn(k)
  <2> PICK l : l = undo[w].lot OBVIOUS
  <2> DEFINE new == [lots[l] EXCEPT !.status = "reverted"]
  <2>1. lots' = [lots EXCEPT ![l] = new] /\ UNCHANGED <<objects, runs>> /\ undo[w].pc = "undo"
    BY <1>7 DEF UndoEnd, data
  <2>2. l \in Lot /\ lots[l].status \in {"settled", "reverted"} BY <2>1 DEF LotInv, UndoSound
  <2>3. new.status = "reverted" BY <2>2 DEF TypeOK, LotRow
  <2> HIDE DEF new
  <2>4. lots'[l].status = "reverted" /\ \A k \in Lot \ {l} : lots'[k] = lots[k]
    BY <2>1, <2>2, <2>3 DEF TypeOK
  <2>5. CASE lots[l].status = "reverted" BY <2>4, <2>5 DEF Steady
  <2>6. CASE lots[l].status = "settled"
    <3>1. MovesOn(l) BY <2>1, <2>4, <2>6 DEF MovesOn, Promise!Moves
    <3> QED BY <2>2, <3>1
  <2> QED BY <2>2, <2>5, <2>6
<1> QED BY <1>1, <1>2, <1>3, <1>4, <1>5, <1>6, <1>7, StatusKept

\* A lot is decided once and moves only along the life models.py gives it, if ticks do not
\* overlap: tally_lot, settle_lot and revert_lot, with crashes anywhere between them.
THEOREM LotLifeInOrderAlways == ASSUME OneTicker PROVE Spec => LotLifeInOrder
<1> DEFINE InOrder == \A l \in Lot : lots'[l].status # lots[l].status =>
                        <<lots[l].status, lots'[l].status>> \in Promise!Moves
<1>1. Init => TypeOK /\ LotInv BY InitType, InitLot
<1>2. TypeOK /\ LotInv /\ [Next]_vars => (TypeOK /\ LotInv)' BY TypeStep, LotStep
<1>3. TypeOK /\ LotInv /\ [Next]_vars => [InOrder]_vars BY LotMoves DEF Steady, MovesOn
<1>4. LotLifeInOrder <=> [][InOrder]_vars BY DEF LotLifeInOrder
<1> HIDE DEF InOrder
<1> QED BY <1>1, <1>2, <1>3, <1>4, PTL DEF Spec

-------------------------------------------------------------------------------
(* The promise: whose a label is.                                                 *)

\* Nobody takes a batch of rulings back by name: that gives labels back to the machine.
RulingsStay == Batches = {} \/ Clicks = {}

\* The run stamped on a label is one that was written.
StampKnown == \A o \in Object : objects[o].run # NoRun => runs[objects[o].run].status # "free"

\* A lot's run closed labels that were in review.
LotRunsFromReview == \A r \in RunId : runs[r].lot # NoLot => runs[r].was = FromReview

\* The runs a lot's row names, in the table, in a session's copy and in a revert, are the lot's.
Theirs(S, l) == \A r \in S : runs[r].status # "free" /\ runs[r].lot = l
RowsTheirs == \A l \in Lot : Theirs(lots[l].runs, l)
CopiesTheirs == \A s \in Ticker, l \in Lot : Theirs(tick[s].rows[l].runs, l)
UndosTheirs == \A w \in Reverter : undo[w].pc = "undo" => Theirs(undo[w].todo, undo[w].lot)

\* A label in hand is in review, or became a person's since it was read.
HandOpen ==
  \A s \in Ticker : tick[s].pc = "chunk" =>
    \A o \in tick[s].now : objects[o].human \/ objects[o].state = "review"

\* Runs are a lot's.
RunsOfLots == \A r \in RunId : runs[r].status = "committed" => runs[r].lot # NoLot

\* What a person may take back by name is a lot's.
ByName == Clicks # {} => RunsOfLots

OwnInv == /\ StampKnown /\ LotRunsFromReview /\ RowsTheirs /\ CopiesTheirs /\ UndosTheirs
          /\ HandOpen /\ ByName

LEMMA InitOwn == Init => OwnInv
<1> SUFFICES ASSUME Init PROVE OwnInv OBVIOUS
<1>1. StampKnown BY DEF Init, StampKnown
<1>2. LotRunsFromReview BY DEF Init, LotRunsFromReview, FreeRun
<1>3. RowsTheirs BY DEF Init, RowsTheirs, Theirs, BlankLot
<1>4. CopiesTheirs BY DEF Init, CopiesTheirs, Theirs, BlankLot, NoTick
<1>5. UndosTheirs BY DEF Init, UndosTheirs, NoUndo
<1>6. HandOpen BY DEF Init, HandOpen, NoTick
<1>7. ByName BY DEF Init, ByName, RunsOfLots, FreeRun
<1> QED BY <1>1, <1>2, <1>3, <1>4, <1>5, <1>6, <1>7 DEF OwnInv

\* What each step does to labels and runs.
Reverts(r) == /\ RevertRun(r) /\ runs[r].status = "committed" /\ UNCHANGED <<lots, tick>>
              /\ r \in Clicks \/ \E w \in Reverter : undo[w].pc = "undo" /\ r \in undo[w].todo
Batched == \E S \in Batches, v \in {"clean", "defect"}, r \in RunId : RuleBatch(S, v, r)

LEMMA LabelSteps ==
  ASSUME [Next]_vars
  PROVE  \/ \E s \in Ticker, r \in RunId : WriteChunk(s, r)
         \/ \E r \in RunId : Reverts(r)
         \/ Batched
         \/ \E o \in Object, v \in {"clean", "defect"} : Rule(o, v)
         \/ UNCHANGED <<objects, runs>>
<1>1. CASE UNCHANGED vars BY <1>1 DEF vars
<1>2. ASSUME NEW s \in Ticker, TickStep(s)
      PROVE  UNCHANGED <<objects, runs>> \/ \E r \in RunId : WriteChunk(s, r)
  BY <1>2 DEF TickStep, TickBegin, ListLots, TallyStep, TallyWaits, Tally, PromoteCheck,
    Promote, RejectCheck, RejectStepDown, SettleStep, Permit, SettleList, ReadChunk, SettleEnd,
    TickEnd, data
<1>3. ASSUME NEW s \in Ticker, NightStep(s) PROVE UNCHANGED <<objects, runs>>
  BY <1>3 DEF NightStep, BuildLot, SpotCheck, data
<1>4. ASSUME NEW p \in Planner, PlanStep(p) PROVE UNCHANGED <<objects, runs>>
  BY <1>4 DEF PlanStep, PlanCheck, PlanRefused, PlanInsert, data
<1>5. ASSUME NEW w \in Reverter, UndoStep(w)
      PROVE  UNCHANGED <<objects, runs>> \/ \E r \in RunId : Reverts(r)
  BY <1>5 DEF UndoStep, ManualRevert, WorkerNext, WorkerEnd, UndoEnd, StepCheck, StepDown,
    UndoRun, data, Reverts
<1>6. ASSUME PersonStep
      PROVE  \/ UNCHANGED <<objects, runs>> \/ Batched \/ \E r \in RunId : Reverts(r)
             \/ \E o \in Object, v \in {"clean", "defect"} : Rule(o, v)
  BY <1>6 DEF PersonStep, RevertByName, Ack, SetByHand, Batched, Reverts, data
<1>7. ASSUME GovernStep PROVE UNCHANGED <<objects, runs>>
  BY <1>7 DEF GovernStep, CooldownExpires, ChampionPromoted, OnChampionChange,
    ChampionChangeLost, Engage, Release, OptIn, data
<1>8. ASSUME Crash PROVE UNCHANGED <<objects, runs>> BY <1>8 DEF Crash, data
<1> QED BY <1>1, <1>2, <1>3, <1>4, <1>5, <1>6, <1>7, <1>8 DEF Next

\* What a ruling on several labels writes.
LEMMA RuleBatchFields ==
  ASSUME TypeOK, NEW S, NEW v, NEW r \in RunId, RuleBatch(S, v, r)
  PROVE  /\ runs[r].status = "free" /\ runs'[r].status = "committed" /\ runs'[r].lot = NoLot
         /\ \A q \in RunId : q # r => runs'[q] = runs[q]
         /\ \A o \in Object : IF o \in S THEN objects'[o].human /\ objects'[o].run = r
                              ELSE objects'[o] = objects[o]
<1> PICK was : runs' = [runs EXCEPT ![r] = [status |-> "committed", lot |-> NoLot,
                                            objs |-> S, was |-> was]]
  BY DEF RuleBatch
<1>1. runs[r].status = "free" BY DEF RuleBatch, IsNextRun
<1>2. \A o \in Object : IF o \in S THEN objects'[o].human /\ objects'[o].run = r
                        ELSE objects'[o] = objects[o]
  BY DEF RuleBatch
<1> QED BY <1>1, <1>2 DEF TypeOK

\* What a ruling on one label writes.
LEMMA RuleFields ==
  ASSUME TypeOK, NEW o \in Object, NEW v, Rule(o, v)
  PROVE  /\ objects'[o].human /\ objects'[o].run = objects[o].run
         /\ \A p \in Object \ {o} : objects'[p] = objects[p]
<1> DEFINE new == [objects[o] EXCEPT !.state = Ruling(v), !.human = TRUE]
<1>1. objects' = [objects EXCEPT ![o] = new] BY DEF Rule
<1>2. new.human /\ new.run = objects[o].run BY DEF TypeOK, Label
<1> HIDE DEF new
<1> QED BY <1>1, <1>2 DEF TypeOK

\* A run is taken back only if it is a lot's, and its labels go to review.
LEMMA RevertsFields ==
  ASSUME TypeOK, LotInv, OwnInv, NEW r \in RunId, Reverts(r)
  PROVE  /\ runs[r].lot \in Lot /\ runs[r].was = FromReview
         /\ runs'[r].status = "reverted" /\ runs'[r].lot = runs[r].lot /\ runs'[r].was = runs[r].was
         /\ \A q \in RunId : q # r => runs'[q] = runs[q]
         /\ \A o \in Object :
              IF o \in Owned(r)
              THEN /\ ~objects[o].human /\ objects[o].run = r
                   /\ objects'[o] = [state |-> "review", human |-> FALSE, run |-> NoRun]
              ELSE objects'[o] = objects[o]
<1>1. runs[r].lot # NoLot
  <2>1. CASE r \in Clicks BY <2>1 DEF OwnInv, ByName, RunsOfLots, Reverts
  <2>2. ASSUME NEW w \in Reverter, undo[w].pc = "undo", r \in undo[w].todo PROVE runs[r].lot # NoLot
    BY <2>2, NullAssumption DEF OwnInv, UndosTheirs, Theirs, LotInv, UndoSound
  <2> QED BY <2>1, <2>2 DEF Reverts
<1>2. runs[r].lot \in Lot /\ runs[r].was = FromReview
  BY <1>1 DEF TypeOK, Run, OwnInv, LotRunsFromReview
<1>3. \A o \in Object : objects'[o] = IF o \in Owned(r)
        THEN [state |-> runs[r].was[o].state, human |-> runs[r].was[o].human, run |-> NoRun]
        ELSE objects[o]
  BY DEF Reverts, RevertRun, Restored
<1>4. \A o \in Object : runs[r].was[o].state = "review" /\ runs[r].was[o].human = FALSE
  BY <1>2 DEF FromReview
<1>5. ASSUME NEW o \in Object
      PROVE  IF o \in Owned(r)
             THEN /\ ~objects[o].human /\ objects[o].run = r
                  /\ objects'[o] = [state |-> "review", human |-> FALSE, run |-> NoRun]
             ELSE objects'[o] = objects[o]
  <2>1. CASE o \in Owned(r)
    <3>1. ~objects[o].human /\ objects[o].run = r BY <1>1, <2>1 DEF Owned
    <3>2. objects'[o] = [state |-> "review", human |-> FALSE, run |-> NoRun]
      BY <1>3, <1>4, <2>1
    <3> QED BY <2>1, <3>1, <3>2
  <2>2. CASE o \notin Owned(r) BY <1>3, <2>2
  <2> QED BY <2>1, <2>2
<1>6. RevertRun(r) BY DEF Reverts
<1> QED BY <1>2, <1>5, <1>6, RevertRunFields

\* A run that was written keeps its lot, and what it found.
LEMMA RunsStay ==
  ASSUME TypeOK, LotInv, OwnInv, [Next]_vars, NEW q \in RunId, runs[q].status # "free"
  PROVE  runs'[q].status # "free" /\ runs'[q].lot = runs[q].lot /\ runs'[q].was = runs[q].was
<1>1. ASSUME NEW s \in Ticker, NEW r \in RunId, WriteChunk(s, r) PROVE q # r /\ runs'[q] = runs[q]
  BY <1>1, WriteChunkFields
<1>2. ASSUME NEW r \in RunId, Reverts(r)
      PROVE  runs'[q].status # "free" /\ runs'[q].lot = runs[q].lot /\ runs'[q].was = runs[q].was
  BY <1>2, RevertsFields
<1>3. CASE Batched
  <2>1. PICK S \in Batches, v \in {"clean", "defect"}, r \in RunId : RuleBatch(S, v, r)
    BY <1>3 DEF Batched
  <2> QED BY <2>1, RuleBatchFields
<1>4. CASE \E o \in Object, v \in {"clean", "defect"} : Rule(o, v) BY <1>4 DEF Rule
<1> QED BY <1>1, <1>2, <1>3, <1>4, LabelSteps

\* The runs of rows, copies and reverts come from rows, but for the run of a chunk.
LEMMA RowRunsKept ==
  ASSUME TypeOK, LotInv, [Next]_vars
  PROVE  \/ \E s \in Ticker, r \in RunId : WriteChunk(s, r)
         \/ \A l \in Lot : lots'[l].runs \in {lots[l].runs, {}}
<1>1. CASE UNCHANGED lots BY <1>1
<1>2. ASSUME NEW k \in Lot, Ack(k) PROVE \A l \in Lot : lots'[l].runs = lots[l].runs
  <2> DEFINE new == [lots[k] EXCEPT !.ack = TRUE]
  <2>1. new.runs = lots[k].runs BY DEF TypeOK, LotRow
  <2>2. lots' = [lots EXCEPT ![k] = new] BY <1>2 DEF Ack
  <2> HIDE DEF new
  <2> QED BY <2>1, <2>2 DEF TypeOK
<1>3. ASSUME NEW s \in Ticker, NEW k \in Lot, Tally(s, k) PROVE \A l \in Lot : lots'[l].runs = lots[l].runs
  <2> DEFINE old == tick[s].rows[k]
             st == Decision(old.sample)
             new == [old EXCEPT !.status = st]
  <2>1. lots' = [lots EXCEPT ![k] = Flush(lots[k], old, new)] BY <1>3 DEF Tally
  <2>2. old \in LotRow /\ lots[k] \in LotRow BY DEF Ticking, TypeOK
  <2>3. st \in Status BY DEF Decision, Status
  <2> HIDE DEF old, st
  <2>4. Flush(lots[k], old, new).runs = lots[k].runs BY <2>2, <2>3, StatusFlushed
  <2> HIDE DEF new
  <2> QED BY <2>1, <2>4 DEF TypeOK
<1>4. ASSUME NEW s \in Ticker, SettleEnd(s) PROVE \A l \in Lot : lots'[l].runs = lots[l].runs
  <2> PICK k : k = tick[s].lot OBVIOUS
  <2> DEFINE old == tick[s].rows[k]
             new == [old EXCEPT !.status = "settled"]
  <2>1. lots' = [lots EXCEPT ![k] = Flush(lots[k], old, new)] /\ tick[s].pc = "settle"
    BY <1>4 DEF SettleEnd
  <2>2. tick[s] \in Ticking /\ SessionSound(tick[s], lots) BY DEF TypeOK, LotInv
  <2>3. k \in Lot BY <2>1, <2>2 DEF SessionSound, OnLot, Working, Ticking
  <2>4. old \in LotRow /\ lots[k] \in LotRow BY <2>2, <2>3 DEF Ticking, TypeOK
  <2> HIDE DEF old
  <2>5. Flush(lots[k], old, new).runs = lots[k].runs BY <2>4, StatusFlushed DEF Status
  <2> HIDE DEF new
  <2> QED BY <2>1, <2>5 DEF TypeOK
<1>5. ASSUME NEW p \in Planner, NEW k \in Lot, PlanInsert(p, k)
      PROVE  \A l \in Lot : lots'[l].runs \in {lots[l].runs, {}}
  <2> DEFINE new == [BlankLot EXCEPT !.status = "judging", !.epoch = plan[p].epoch,
                                     !.sample = plan[p].sample]
  <2>1. lots' = [lots EXCEPT ![k] = new] BY <1>5 DEF PlanInsert
  <2>2. new.runs = {} BY DEF BlankLot
  <2> HIDE DEF new
  <2> QED BY <2>1, <2>2 DEF TypeOK
<1>6. ASSUME NEW w \in Reverter, UndoEnd(w) PROVE \A l \in Lot : lots'[l].runs = lots[l].runs
  <2> PICK k : k = undo[w].lot OBVIOUS
  <2> DEFINE new == [lots[k] EXCEPT !.status = "reverted"]
  <2>1. lots' = [lots EXCEPT ![k] = new] /\ k \in Lot BY <1>6 DEF UndoEnd, LotInv, UndoSound
  <2>2. new.runs = lots[k].runs BY <2>1 DEF TypeOK, LotRow
  <2> HIDE DEF new
  <2> QED BY <2>1, <2>2 DEF TypeOK
<1> QED BY <1>1, <1>2, <1>3, <1>4, <1>5, <1>6, StatusKept

\* A session's copy of a row's runs is what it was, the row's, or blank.
Copied(t, u, l) == u.rows[l].runs \in {t.rows[l].runs, lots[l].runs, {}}

LEMMA CopyRunsKept ==
  ASSUME TypeOK, LotInv, [Next]_vars
  PROVE  \/ \E s \in Ticker, r \in RunId : WriteChunk(s, r)
         \/ \A s \in Ticker, l \in Lot : Copied(tick[s], tick'[s], l)
<1>0. ASSUME UNCHANGED tick PROVE \A s \in Ticker, l \in Lot : Copied(tick[s], tick'[s], l)
  BY <1>0 DEF Copied
<1>f. ASSUME NEW s \in Ticker, NEW u, tick' = [tick EXCEPT ![s] = u], \A l \in Lot : Copied(tick[s], u, l)
      PROVE  \A q \in Ticker, l \in Lot : Copied(tick[q], tick'[q], l)
  <2>1. \A q \in Ticker : tick'[q] = IF q = s THEN u ELSE tick[q] BY <1>f DEF TypeOK
  <2> QED BY <1>f, <2>1 DEF Copied
<1>n. ASSUME NEW s \in Ticker PROVE \A l \in Lot : Copied(tick[s], NoTick, l)
  BY DEF Copied, NoTick, BlankLot
<1>a. ASSUME NEW s \in Ticker, NEW k \in Lot \cup {NoLot}, NEW l \in Lot
      PROVE  /\ Copied(tick[s], Visited(s, k), l)
             /\ \A pc : Copied(tick[s], At(s, k, pc), l)
  <2>1. tick[s] \in Ticking BY DEF TypeOK
  <2>2. Visited(s, k).rows = [tick[s].rows EXCEPT ![k] = BlankLot] BY DEF Visited, NoTick
  <2>3. \A pc : At(s, k, pc).rows = tick[s].rows BY <2>1 DEF At, Ticking
  <2>4. Visited(s, k).rows[l] \in {tick[s].rows[l], BlankLot} BY <2>1, <2>2 DEF Ticking
  <2>5. BlankLot.runs = {} BY DEF BlankLot
  <2> QED BY <2>3, <2>4, <2>5 DEF Copied
<1>l. \A s \in Ticker : tick[s].lot \in Lot \cup {NoLot} BY DEF TypeOK, Ticking
<1>1. ASSUME NEW s \in Ticker, TallyStep(s)
      PROVE  \A q \in Ticker, l \in Lot : Copied(tick[q], tick'[q], l)
  <2>1. ASSUME NEW l \in Lot, TallyWaits(s, l) PROVE tick' = [tick EXCEPT ![s] = Visited(s, l)]
    BY <2>1 DEF TallyWaits
  <2>2. ASSUME NEW l \in Lot, Tally(s, l)
        PROVE  \/ \E pc : tick' = [tick EXCEPT ![s] = At(s, l, pc)]
               \/ tick' = [tick EXCEPT ![s] = Visited(s, l)]
    BY <2>2 DEF Tally
  <2>3. ASSUME PromoteCheck(s) \/ Promote(s) \/ RejectCheck(s) \/ RejectStepDown(s)
        PROVE  \/ \E pc : tick' = [tick EXCEPT ![s] = At(s, tick[s].lot, pc)]
               \/ tick' = [tick EXCEPT ![s] = Visited(s, tick[s].lot)]
    BY <2>3 DEF PromoteCheck, Promote, RejectCheck, RejectStepDown
  <2>4. PICK k \in Lot \cup {NoLot} : \/ \E pc : tick' = [tick EXCEPT ![s] = At(s, k, pc)]
                                      \/ tick' = [tick EXCEPT ![s] = Visited(s, k)]
    BY <1>1, <1>l, <2>1, <2>2, <2>3 DEF TallyStep
  <2> QED BY <2>4, <1>a, <1>f
<1>2. ASSUME NEW s \in Ticker, SettleStep(s), ~\E r \in RunId : WriteChunk(s, r)
      PROVE  \A q \in Ticker, l \in Lot : Copied(tick[q], tick'[q], l)
  <2>t. tick[s] \in Ticking BY DEF TypeOK
  <2>1. ASSUME NEW k \in Lot, Permit(s, k) PROVE \A q \in Ticker, l \in Lot : Copied(tick[q], tick'[q], l)
    <3>1. \/ tick' = [tick EXCEPT ![s] = At(s, k, "permitted")]
          \/ tick' = [tick EXCEPT ![s] = Visited(s, k)]
      BY <2>1 DEF Permit
    <3> QED BY <3>1, <1>a, <1>f
  <2>2. CASE SettleList(s)
    <3> PICK ids : tick' = [tick EXCEPT ![s] = [tick[s] EXCEPT !.pc = "settle", !.ids = ids]]
      BY <2>2 DEF SettleList
    <3>1. [tick[s] EXCEPT !.pc = "settle", !.ids = ids].rows = tick[s].rows BY <2>t DEF Ticking
    <3> QED BY <3>1, <1>f DEF Copied
  <2>3. CASE ReadChunk(s)
    <3> PICK ids, now : tick' = [tick EXCEPT ![s] = [tick[s] EXCEPT !.pc = "chunk", !.ids = ids, !.now = now]]
      BY <2>3 DEF ReadChunk
    <3>1. [tick[s] EXCEPT !.pc = "chunk", !.ids = ids, !.now = now].rows = tick[s].rows
      BY <2>t DEF Ticking
    <3> QED BY <3>1, <1>f DEF Copied
  <2>4. CASE SettleEnd(s)
    <3>1. tick' = [tick EXCEPT ![s] = Visited(s, tick[s].lot)] BY <2>4 DEF SettleEnd
    <3> QED BY <3>1, <1>a, <1>f, <1>l
  <2> QED BY <1>2, <2>1, <2>2, <2>3, <2>4 DEF SettleStep
<1>3. ASSUME NEW s \in Ticker, TickBegin(s) \/ ListLots(s) \/ TickEnd(s)
      PROVE  \A q \in Ticker, l \in Lot : Copied(tick[q], tick'[q], l)
  <2>1. CASE TickBegin(s)
    <3> DEFINE u == [NoTick EXCEPT !.pc = "begun", !.flags = flags]
    <3>1. tick' = [tick EXCEPT ![s] = u] BY <2>1 DEF TickBegin
    <3>2. u.rows = NoTick.rows BY DEF NoTick
    <3> HIDE DEF u
    <3> QED BY <3>1, <3>2, <1>n, <1>f DEF Copied
  <2>2. CASE ListLots(s)
    <3> DEFINE rows == [l \in Lot |-> IF IsOpen(l) THEN lots[l] ELSE BlankLot]
               open == {l \in Lot : IsOpen(l)}
               u == [tick[s] EXCEPT !.pc = "walk", !.todo = open, !.rows = rows]
    <3>1. tick' = [tick EXCEPT ![s] = u] BY <2>2 DEF ListLots
    <3>2. \A l \in Lot : rows[l] \in {lots[l], BlankLot} OBVIOUS
    <3>3. BlankLot.runs = {} BY DEF BlankLot
    <3> HIDE DEF rows, open
    <3>4. u.rows = rows BY DEF TypeOK, Ticking
    <3> HIDE DEF u
    <3> QED BY <3>1, <3>2, <3>3, <3>4, <1>f DEF Copied
  <2>3. CASE TickEnd(s)
    <3>1. tick' = [tick EXCEPT ![s] = NoTick] BY <2>3 DEF TickEnd
    <3> QED BY <3>1, <1>n, <1>f
  <2> QED BY <1>3, <2>1, <2>2, <2>3
<1>4. ASSUME NEW s \in Ticker, NightStep(s)
      PROVE  \A q \in Ticker, l \in Lot : Copied(tick[q], tick'[q], l)
  <2>1. UNCHANGED tick \/ tick' = [tick EXCEPT ![s] = NoTick] BY <1>4 DEF NightStep, BuildLot, SpotCheck
  <2> QED BY <2>1, <1>0, <1>n, <1>f
<1>5. ASSUME NEW p \in Planner, PlanStep(p) PROVE UNCHANGED tick
  BY <1>5 DEF PlanStep, PlanCheck, PlanRefused, PlanInsert
<1>6. ASSUME NEW w \in Reverter, UndoStep(w) PROVE UNCHANGED tick
  BY <1>6 DEF UndoStep, ManualRevert, WorkerNext, WorkerEnd, UndoEnd, StepCheck,
    StepDown, UndoRun
<1>7. ASSUME PersonStep \/ GovernStep \/ UNCHANGED vars PROVE UNCHANGED tick
  BY <1>7 DEF PersonStep, Rule, RuleBatch, RevertByName, Ack, SetByHand, GovernStep,
    CooldownExpires, ChampionPromoted, OnChampionChange, ChampionChangeLost, Engage, Release,
    OptIn, vars
<1>8. ASSUME Crash PROVE \A q \in Ticker, l \in Lot : Copied(tick[q], tick'[q], l)
  <2>1. UNCHANGED tick \/ \E s \in Ticker : tick' = [tick EXCEPT ![s] = NoTick] BY <1>8 DEF Crash
  <2> QED BY <2>1, <1>0, <1>n, <1>f
<1> QED BY <1>0, <1>1, <1>2, <1>3, <1>4, <1>5, <1>6, <1>7, <1>8 DEF Next, TickStep

\* What a revert has to do is what it had, or all the runs of a row.
LEMMA UndoRunsKept ==
  ASSUME TypeOK, [Next]_vars, NEW w \in Reverter, undo'[w].pc = "undo"
  PROVE  \/ undo[w].pc = "undo" /\ undo'[w].lot = undo[w].lot /\ undo'[w].todo \subseteq undo[w].todo
         \/ undo'[w].lot \in Lot /\ undo'[w].todo = lots[undo'[w].lot].runs
<1>u. \A v \in Reverter : undo[v] \in Undoing BY DEF TypeOK
<1>n. NoUndo.pc = "idle" /\ \A h : NoUndo # h \/ h.pc = "idle" BY DEF NoUndo
<1>1. CASE UNCHANGED undo BY <1>1
<1>2. ASSUME NEW v \in Reverter, UndoStep(v)
      PROVE  \/ undo[w].pc = "undo" /\ undo'[w].lot = undo[w].lot /\ undo'[w].todo \subseteq undo[w].todo
             \/ undo'[w].lot \in Lot /\ undo'[w].todo = lots[undo'[w].lot].runs
  <2>1. CASE v # w
    <3>1. undo'[w] = undo[w]
      BY <1>2, <2>1 DEF UndoStep, ManualRevert, WorkerNext, WorkerEnd, UndoEnd, StepCheck,
        StepDown, UndoRun, TypeOK
    <3> QED BY <3>1
  <2>2. CASE v = w
    <3>1. ASSUME NEW l \in Lot, ManualRevert(w, l)
          PROVE  undo'[w].lot = l /\ undo'[w].todo = lots[l].runs
      BY <3>1 DEF ManualRevert, TypeOK, NoUndo
    <3>2. ASSUME NEW l \in Lot, WorkerNext(w, l)
          PROVE  undo'[w].lot = l /\ undo'[w].todo = lots[l].runs
      <4> DEFINE rest == undo[w].queue \ {l}
                 todo == lots[l].runs
      <4>1. undo[w].pc = "next" /\
            undo'[w] = IF undo[w].engaged THEN [undo[w] EXCEPT !.queue = rest]
                       ELSE IF lots[l].status = "settled"
                       THEN [undo[w] EXCEPT !.pc = "undo", !.queue = rest, !.lot = l, !.todo = todo]
                       ELSE [undo[w] EXCEPT !.pc = "step", !.queue = rest, !.lot = l]
        BY <3>2 DEF WorkerNext, TypeOK
      <4> HIDE DEF rest, todo
      <4>2. undo'[w].lot = l /\ undo'[w].todo = todo BY <1>u, <4>1 DEF Undoing
      <4> QED BY <4>2 DEF todo
    <3>3. ASSUME NEW r \in RunId, UndoRun(w, r)
          PROVE  undo[w].pc = "undo" /\ undo'[w].lot = undo[w].lot /\ undo'[w].todo \subseteq undo[w].todo
      <4> DEFINE rest == undo[w].todo \ {r}
      <4>1. undo'[w] = [undo[w] EXCEPT !.todo = rest] /\ undo[w].pc = "undo"
        BY <3>3 DEF UndoRun, TypeOK
      <4>2. rest \subseteq undo[w].todo OBVIOUS
      <4> HIDE DEF rest
      <4>3. undo'[w].lot = undo[w].lot /\ undo'[w].todo = rest BY <1>u, <4>1 DEF Undoing
      <4> QED BY <4>1, <4>2, <4>3
    <3>4. ~UndoEnd(w) BY <1>u DEF UndoEnd, TypeOK, Undoing
    <3>s. Stepped(w).pc # "undo" /\ [undo[w] EXCEPT !.pc = "down"].pc = "down"
      <4>1. [undo[w] EXCEPT !.pc = "next", !.lot = NoLot].pc = "next" BY <1>u DEF Undoing
      <4>2. [undo[w] EXCEPT !.pc = "down"].pc = "down" BY <1>u DEF Undoing
      <4> QED BY <1>n, <4>1, <4>2 DEF Stepped
    <3>5. ~StepCheck(w) BY <3>s DEF StepCheck, TypeOK
    <3>6. ~StepDown(w) BY <3>s DEF StepDown, TypeOK
    <3>7. ~WorkerEnd(w) BY <1>u, <1>n DEF WorkerEnd, TypeOK
    <3> QED BY <1>2, <2>2, <3>1, <3>2, <3>3, <3>4, <3>5, <3>6, <3>7 DEF UndoStep
  <2> QED BY <2>1, <2>2
<1>3. ASSUME NEW s \in Ticker, NEW v \in Reverter, SpotCheck(s, v) PROVE undo'[w] = undo[w]
  <2>1. \A h : undo' = [undo EXCEPT ![v] = h] /\ h.pc = "next" => v # w /\ undo'[w] = undo[w]
    BY DEF TypeOK
  <2> DEFINE h == [NoUndo EXCEPT !.pc = "next", !.queue = Breached, !.engaged = ~tick[s].flags.loop]
  <2>2. undo' = [undo EXCEPT ![v] = h] BY <1>3 DEF SpotCheck
  <2>3. h.pc = "next" BY DEF NoUndo
  <2> HIDE DEF h
  <2> QED BY <2>1, <2>2, <2>3
<1>4. ASSUME Crash PROVE undo'[w] = undo[w] BY <1>4, <1>n DEF Crash, TypeOK
<1>5. ASSUME NEW s \in Ticker, TickStep(s) PROVE UNCHANGED undo
  BY <1>5 DEF TickStep, TickBegin, ListLots, TallyStep, TallyWaits, Tally, PromoteCheck,
    Promote, RejectCheck, RejectStepDown, SettleStep, Permit, SettleList, ReadChunk, SettleEnd,
    WriteChunk, TickEnd
<1>6. ASSUME NEW s \in Ticker, NEW p \in Planner, NEW e \in Epoch, BuildLot(s, p, e) PROVE UNCHANGED undo
  BY <1>6 DEF BuildLot
<1>7. ASSUME NEW p \in Planner, PlanStep(p) PROVE UNCHANGED undo
  BY <1>7 DEF PlanStep, PlanCheck, PlanRefused, PlanInsert
<1>8. ASSUME PersonStep \/ GovernStep \/ UNCHANGED vars PROVE UNCHANGED undo
  BY <1>8 DEF PersonStep, Rule, RuleBatch, RevertByName, Ack, SetByHand, GovernStep,
    CooldownExpires, ChampionPromoted, OnChampionChange, ChampionChangeLost, Engage, Release,
    OptIn, vars
<1> QED BY <1>1, <1>2, <1>3, <1>4, <1>5, <1>6, <1>7, <1>8 DEF Next, NightStep

\* A chunk adds its run to the row and to the session's copy, if to any.
LEMMA ChunkRuns ==
  ASSUME TypeOK, LotInv, NEW s \in Ticker, NEW r \in RunId, WriteChunk(s, r),
         NEW l, l = tick[s].lot
  PROVE  /\ l \in Lot /\ lots[l].status = "accepted" /\ tick[s].pc = "chunk" /\ UNCHANGED undo
         /\ \A k \in Lot : /\ lots'[k].runs \subseteq lots[k].runs \cup tick[s].rows[k].runs \cup {r}
                           /\ k # l => lots'[k].runs = lots[k].runs
                           /\ tick'[s].rows[k].runs \subseteq tick[s].rows[k].runs \cup {r}
                           /\ k # l => tick'[s].rows[k].runs = tick[s].rows[k].runs
<1> DEFINE old == tick[s].rows[l]
           new == [old EXCEPT !.runs = old.runs \cup {r}]
           rows == [tick[s].rows EXCEPT ![l] = new]
<1>1. lots' = [lots EXCEPT ![l] = Flush(lots[l], LoadedRuns(s, old, new), new)]
      /\ tick[s].pc = "chunk" /\ UNCHANGED undo
      /\ \E seen : tick' = [tick EXCEPT ![s] = [tick[s] EXCEPT !.pc = "settle", !.now = {},
                      !.aliased = TRUE, !.rows = rows, !.spots = seen]]
  BY DEF WriteChunk
<1>2. tick[s] \in Ticking /\ SessionSound(tick[s], lots) BY DEF TypeOK, LotInv
<1>3. l \in Lot /\ lots[l].status = "accepted"
  BY <1>1, <1>2 DEF SessionSound, OnLot, Working, InHand, Settling, Ticking
<1>4. old \in LotRow /\ lots[l] \in LotRow BY <1>2, <1>3 DEF Ticking, TypeOK
<1>5. new \in LotRow /\ new.runs = old.runs \cup {r}
  <2> HIDE DEF old
  <2> QED BY <1>4 DEF LotRow
<1>6. \A k \in Lot : rows[k] = IF k = l THEN new ELSE tick[s].rows[k]
  <2> HIDE DEF new
  <2> QED BY <1>2, <1>3 DEF Ticking
<1> HIDE DEF rows, new
<1>7. tick'[s].rows = rows
  <2> PICK seen : tick' = [tick EXCEPT ![s] = [tick[s] EXCEPT !.pc = "settle", !.now = {},
                      !.aliased = TRUE, !.rows = rows, !.spots = seen]]
    BY <1>1
  <2> QED BY <1>2 DEF TypeOK, Ticking
<1>8. Flush(lots[l], LoadedRuns(s, old, new), new).runs \in {new.runs, lots[l].runs}
  BY <1>4 DEF Flush, LotRow
<1>9. \A k \in Lot : lots'[k].runs \in IF k = l THEN {new.runs, lots[k].runs} ELSE {lots[k].runs}
  BY <1>1, <1>3, <1>8 DEF TypeOK
<1>10. ASSUME NEW k \in Lot
       PROVE  /\ lots'[k].runs \subseteq lots[k].runs \cup tick[s].rows[k].runs \cup {r}
              /\ k # l => lots'[k].runs = lots[k].runs
              /\ tick'[s].rows[k].runs \subseteq tick[s].rows[k].runs \cup {r}
              /\ k # l => tick'[s].rows[k].runs = tick[s].rows[k].runs
  <2>1. CASE k = l
    <3>1. lots'[k].runs \in {new.runs, lots[k].runs} /\ tick'[s].rows[k] = new BY <1>6, <1>7, <1>9, <2>1
    <3>2. new.runs = tick[s].rows[k].runs \cup {r} BY <1>5, <2>1
    <3> QED BY <2>1, <3>1, <3>2
  <2>2. CASE k # l BY <1>6, <1>7, <1>9, <2>2
  <2> QED BY <2>1, <2>2
<1> HIDE DEF old
<1> QED BY <1>1, <1>3, <1>10

LEMMA TheirsStay ==
  ASSUME TypeOK, LotInv, OwnInv, [Next]_vars, NEW S \in SUBSET RunId, NEW l, Theirs(S, l)
  PROVE  \A r \in S : runs'[r].status # "free" /\ runs'[r].lot = l
<1> TAKE r \in S
<1>1. r \in RunId /\ runs[r].status # "free" /\ runs[r].lot = l BY DEF Theirs
<1> QED BY <1>1, RunsStay

LEMMA OwnStep ==
  ASSUME OneTicker, RulingsStay, TypeOK, LotInv, OwnInv, [Next]_vars
  PROVE  OwnInv'
<1>0. StampKnown /\ LotRunsFromReview /\ RowsTheirs /\ CopiesTheirs /\ UndosTheirs /\ HandOpen /\ ByName
  BY DEF OwnInv
<1>t. /\ \A l \in Lot : lots[l].runs \subseteq RunId
      /\ \A s \in Ticker, l \in Lot : tick[s].rows[l].runs \subseteq RunId
      /\ \A w \in Reverter : undo[w].todo \subseteq RunId
      /\ \A o \in Object : objects[o].run = NoRun \/ objects[o].run \in RunId
  BY DEF TypeOK, LotRow, Ticking, Undoing, Label
<1>r. \A l \in Lot, r \in RunId : r \in lots[l].runs => runs'[r].status # "free" /\ runs'[r].lot = l
  <2> SUFFICES ASSUME NEW l \in Lot, NEW r \in lots[l].runs
               PROVE  runs'[r].status # "free" /\ runs'[r].lot = l
    OBVIOUS
  <2>1. Theirs(lots[l].runs, l) BY <1>0 DEF RowsTheirs
  <2> QED BY <1>t, <2>1, TheirsStay
<1>c. \A s \in Ticker, l \in Lot, r \in RunId :
        r \in tick[s].rows[l].runs => runs'[r].status # "free" /\ runs'[r].lot = l
  <2> SUFFICES ASSUME NEW s \in Ticker, NEW l \in Lot, NEW r \in tick[s].rows[l].runs
               PROVE  runs'[r].status # "free" /\ runs'[r].lot = l
    OBVIOUS
  <2>1. Theirs(tick[s].rows[l].runs, l) BY <1>0 DEF CopiesTheirs
  <2> QED BY <1>t, <2>1, TheirsStay
\* What every kind of step does to the labels and the runs.
<1>1. StampKnown' /\ LotRunsFromReview' /\ ByName'
  <2>f. \A q \in RunId : runs[q].status # "free" =>
          runs'[q].status # "free" /\ runs'[q].lot = runs[q].lot /\ runs'[q].was = runs[q].was
    BY RunsStay
  <2>1. ASSUME NEW s \in Ticker, NEW r \in RunId, WriteChunk(s, r)
        PROVE  StampKnown' /\ LotRunsFromReview' /\ ByName'
    <3>1. /\ runs'[r].status = "committed" /\ runs'[r].lot = tick[s].lot /\ runs'[r].was = FromReview
          /\ \A q \in RunId : q # r => runs'[q] = runs[q]
          /\ \A o \in Object : (objects'[o].run = r) \/ objects'[o] = objects[o]
      BY <2>1, WriteChunkFields
    <3>2. tick[s].lot # NoLot BY <2>1, ChunkRuns, NullAssumption
    <3>3. StampKnown' BY <1>0, <1>t, <2>f, <3>1 DEF StampKnown
    <3>4. LotRunsFromReview' BY <1>0, <3>1 DEF LotRunsFromReview
    <3>5. ByName' BY <1>0, <3>1, <3>2 DEF ByName, RunsOfLots
    <3> QED BY <3>3, <3>4, <3>5
  <2>2. ASSUME NEW r \in RunId, Reverts(r) PROVE StampKnown' /\ LotRunsFromReview' /\ ByName'
    <3>1. /\ runs'[r].status = "reverted" /\ runs'[r].lot = runs[r].lot /\ runs'[r].was = runs[r].was
          /\ \A q \in RunId : q # r => runs'[q] = runs[q]
          /\ \A o \in Object : objects'[o].run = NoRun \/ objects'[o] = objects[o]
      BY <2>2, RevertsFields
    <3>3. StampKnown' BY <1>0, <1>t, <2>f, <3>1 DEF StampKnown
    <3>4. LotRunsFromReview' BY <1>0, <3>1 DEF LotRunsFromReview
    <3>5. ByName' BY <1>0, <3>1 DEF ByName, RunsOfLots
    <3> QED BY <3>3, <3>4, <3>5
  <2>3. CASE Batched
    <3> PICK S \in Batches, v \in {"clean", "defect"}, r \in RunId : RuleBatch(S, v, r)
      BY <2>3 DEF Batched
    <3>1. /\ runs'[r].status = "committed" /\ runs'[r].lot = NoLot
          /\ \A q \in RunId : q # r => runs'[q] = runs[q]
          /\ \A o \in Object : (objects'[o].run = r) \/ objects'[o] = objects[o]
      BY RuleBatchFields
    <3>2. Clicks = {} BY DEF RulingsStay
    <3>3. StampKnown' BY <1>0, <1>t, <2>f, <3>1 DEF StampKnown
    <3>4. LotRunsFromReview' BY <1>0, <3>1 DEF LotRunsFromReview
    <3>5. ByName' BY <3>2 DEF ByName
    <3> QED BY <3>3, <3>4, <3>5
  <2>4. ASSUME NEW o \in Object, NEW v \in {"clean", "defect"}, Rule(o, v)
        PROVE  StampKnown' /\ LotRunsFromReview' /\ ByName'
    <3>1. UNCHANGED runs BY <2>4 DEF Rule
    <3>2. \A p \in Object : objects'[p].run = objects[p].run BY <2>4, RuleFields
    <3> QED BY <1>0, <3>1, <3>2 DEF StampKnown, LotRunsFromReview, ByName, RunsOfLots
  <2>5. CASE UNCHANGED <<objects, runs>>
    BY <1>0, <2>5 DEF StampKnown, LotRunsFromReview, ByName, RunsOfLots
  <2> QED BY <2>1, <2>2, <2>3, <2>4, <2>5, LabelSteps
<1>2. RowsTheirs'
  <2>1. CASE \A l \in Lot : lots'[l].runs \in {lots[l].runs, {}}
    BY <1>r, <1>t, <2>1 DEF RowsTheirs, Theirs
  <2>2. ASSUME NEW s \in Ticker, NEW r \in RunId, WriteChunk(s, r) PROVE RowsTheirs'
    <3>1. runs'[r].status = "committed" /\ runs'[r].lot = tick[s].lot BY <2>2, WriteChunkFields
    <3>2. \A k \in Lot : /\ lots'[k].runs \subseteq lots[k].runs \cup tick[s].rows[k].runs \cup {r}
                         /\ k # tick[s].lot => lots'[k].runs = lots[k].runs
      BY <2>2, ChunkRuns
    <3> QED BY <1>r, <1>c, <1>t, <3>1, <3>2 DEF RowsTheirs, Theirs
  <2> QED BY <2>1, <2>2, RowRunsKept
<1>3. CopiesTheirs'
  <2>1. CASE \A s \in Ticker, l \in Lot : Copied(tick[s], tick'[s], l)
    BY <1>r, <1>c, <1>t, <2>1 DEF CopiesTheirs, Theirs, Copied
  <2>2. ASSUME NEW s \in Ticker, NEW r \in RunId, WriteChunk(s, r) PROVE CopiesTheirs'
    <3>1. runs'[r].status = "committed" /\ runs'[r].lot = tick[s].lot BY <2>2, WriteChunkFields
    <3>2. \A k \in Lot : /\ tick'[s].rows[k].runs \subseteq tick[s].rows[k].runs \cup {r}
                         /\ k # tick[s].lot => tick'[s].rows[k].runs = tick[s].rows[k].runs
      BY <2>2, ChunkRuns
    <3>3. \A q \in Ticker : q = s BY DEF OneTicker
    <3> QED BY <1>c, <1>t, <3>1, <3>2, <3>3 DEF CopiesTheirs, Theirs
  <2> QED BY <2>1, <2>2, CopyRunsKept
<1>4. UndosTheirs'
  <2> SUFFICES ASSUME NEW w \in Reverter, undo'[w].pc = "undo", NEW r \in undo'[w].todo
               PROVE  runs'[r].status # "free" /\ runs'[r].lot = undo'[w].lot
    BY DEF UndosTheirs, Theirs
  <2>1. CASE undo[w].pc = "undo" /\ undo'[w].lot = undo[w].lot /\ undo'[w].todo \subseteq undo[w].todo
    <3>1. Theirs(undo[w].todo, undo[w].lot) BY <1>0, <2>1 DEF UndosTheirs
    <3> QED BY <1>t, <2>1, <3>1, TheirsStay
  <2>2. CASE undo'[w].lot \in Lot /\ undo'[w].todo = lots[undo'[w].lot].runs BY <1>r, <1>t, <2>2
  <2> QED BY <2>1, <2>2, UndoRunsKept
<1>5. HandOpen'
  <2> SUFFICES ASSUME NEW s \in Ticker, tick'[s].pc = "chunk", NEW o \in tick'[s].now
               PROVE  objects'[o].human \/ objects'[o].state = "review"
    BY DEF HandOpen
  <2>o. o \in Object
    <3>1. TypeOK' BY TypeStep
    <3> QED BY <3>1 DEF TypeOK, Ticking
  <2>1. CASE tick'[s] # tick[s]
    <3> DEFINE chunk == FirstChunk(tick[s].ids)
               free == {p \in chunk : Reviewable(p)}
    <3>1. ReadChunk(s) BY <2>1, ChunkRead
    <3>2. tick'[s] = [tick[s] EXCEPT !.pc = "chunk", !.ids = tick[s].ids \ chunk, !.now = free]
          /\ UNCHANGED objects
      BY <3>1 DEF ReadChunk, TypeOK, data
    <3>3. \A p \in free : objects[p].state = "review" BY DEF Reviewable
    <3> HIDE DEF chunk, free
    <3>4. tick'[s].now = free BY <3>2 DEF TypeOK, Ticking
    <3> QED BY <3>2, <3>3, <3>4
  <2>2. CASE tick'[s] = tick[s]
    <3>0. objects[o].human \/ objects[o].state = "review" BY <1>0, <2>2 DEF HandOpen
    <3>1. ASSUME NEW u \in Ticker, NEW r \in RunId, WriteChunk(u, r) PROVE FALSE
      <4>1. u = s BY DEF OneTicker
      <4> PICK rows, seen : tick'[s] = [tick[s] EXCEPT !.pc = "settle", !.now = {},
                              !.aliased = TRUE, !.rows = rows, !.spots = seen]
        BY <3>1, <4>1 DEF WriteChunk, TypeOK
      <4> QED BY DEF TypeOK, Ticking
    <3>2. ASSUME NEW r \in RunId, Reverts(r) PROVE objects'[o].state = "review" \/ objects'[o] = objects[o]
      BY <2>o, <3>2, RevertsFields
    <3>3. CASE Batched
      <4> PICK S \in Batches, v \in {"clean", "defect"}, r \in RunId : RuleBatch(S, v, r)
        BY <3>3 DEF Batched
      <4> QED BY <2>o, <3>0, RuleBatchFields
    <3>4. ASSUME NEW p \in Object, NEW v \in {"clean", "defect"}, Rule(p, v)
          PROVE  objects'[o].human \/ objects'[o] = objects[o]
      BY <2>o, <3>4, RuleFields
    <3>5. CASE UNCHANGED objects BY <3>0, <3>5
    <3> QED BY <3>0, <3>1, <3>2, <3>3, <3>4, <3>5, LabelSteps
  <2> QED BY <2>1, <2>2
<1> QED BY <1>1, <1>2, <1>3, <1>4, <1>5 DEF OwnInv

-------------------------------------------------------------------------------
(* Claims: with one ticker, and rulings that stay, no label is counted as settled  *)
(* twice, and every settled one can be reopened.                                   *)

\* A label a lot's run claims is a person's by now, or settled under that run.
Claimed ==
  \A q \in SettlementRuns : \A o \in runs[q].objs :
    objects[o].human \/ (objects[o].state = "settled" /\ objects[o].run = q)

\* What a chunk is about to close is claimed by no run.
ChunkFree ==
  \A s \in Ticker : tick[s].pc = "chunk" =>
    \A q \in SettlementRuns : tick[s].now \cap runs[q].objs = {}

ClaimInv == Claimed /\ ChunkFree /\ NoDoubleClaim /\ SettledIsRevertible

LEMMA InitClaim == Init => ClaimInv
BY DEF Init, ClaimInv, Claimed, ChunkFree, NoDoubleClaim, SettledIsRevertible, SettlementRuns,
       FreeRun, NoTick

\* A chunk claims what no other run does.
LEMMA ChunkClaims ==
  ASSUME OneTicker, TypeOK, LotInv, ClaimInv, NEW s \in Ticker, NEW r \in RunId, WriteChunk(s, r)
  PROVE  ClaimInv'
<1>1. /\ runs[r].status = "free" /\ runs'[r].status = "committed"
      /\ runs'[r].lot = tick[s].lot /\ runs'[r].objs = tick[s].now
      /\ \A q \in RunId : q # r => runs'[q] = runs[q]
      /\ \A o \in Object : IF o \in tick[s].now
           THEN objects'[o].state = "settled" /\ objects'[o].run = r
           ELSE objects'[o] = objects[o]
  BY WriteChunkFields
<1>2. tick[s].pc = "chunk" /\ tick'[s].pc = "settle"
  <2>1. tick[s] \in Ticking /\ tick[s].pc = "chunk" BY DEF TypeOK, WriteChunk
  <2> PICK rows, seen : tick'[s] = [tick[s] EXCEPT !.pc = "settle", !.now = {},
                          !.aliased = TRUE, !.rows = rows, !.spots = seen]
    BY DEF WriteChunk, TypeOK
  <2> QED BY <2>1 DEF Ticking
<1>3. tick[s].lot \in Lot /\ tick[s].now \subseteq Object
  BY <1>2 DEF TypeOK, Ticking, LotInv, SessionSound, OnLot, Working
<1>4. \A q \in SettlementRuns : tick[s].now \cap runs[q].objs = {} /\ runs[q].objs \subseteq Object
  BY <1>2 DEF ClaimInv, ChunkFree, SettlementRuns, TypeOK, Run
<1>5. \A q \in SettlementRuns' : q = r \/ (q # r /\ q \in SettlementRuns /\ runs'[q] = runs[q])
  BY <1>1 DEF SettlementRuns
<1>6. Claimed'
  <2> SUFFICES ASSUME NEW q \in SettlementRuns', NEW o \in runs'[q].objs
               PROVE  objects'[o].human \/ (objects'[o].state = "settled" /\ objects'[o].run = q)
    BY DEF Claimed
  <2>1. CASE q = r BY <2>1, <1>1, <1>3
  <2>2. CASE q # r BY <2>2, <1>1, <1>4, <1>5 DEF ClaimInv, Claimed
  <2> QED BY <2>1, <2>2
<1>7. ChunkFree' BY <1>2 DEF ChunkFree, OneTicker
<1>8. NoDoubleClaim' BY <1>1, <1>4, <1>5 DEF ClaimInv, NoDoubleClaim
<1>9. SettledIsRevertible'
  <2> SUFFICES ASSUME NEW o \in Object, objects'[o].state = "settled", ~objects'[o].human
               PROVE  \E q \in RunId : q = objects'[o].run /\ runs'[q].status = "committed"
                                       /\ o \in runs'[q].objs
    BY DEF SettledIsRevertible
  <2>1. CASE o \in tick[s].now BY <1>1, <2>1
  <2>2. CASE o \notin tick[s].now
    <3>1. objects'[o] = objects[o] BY <1>1, <2>2
    <3>2. PICK q \in RunId : q = objects[o].run /\ runs[q].status = "committed"
                             /\ o \in runs[q].objs
      BY <3>1 DEF ClaimInv, SettledIsRevertible
    <3> QED BY <1>1, <3>1, <3>2
  <2> QED BY <2>1, <2>2
<1> QED BY <1>6, <1>7, <1>8, <1>9 DEF ClaimInv

\* A revert gives up the claims of its run and of no other.
LEMMA RevertClaims ==
  ASSUME TypeOK, LotInv, OwnInv, ClaimInv, NEW r \in RunId, Reverts(r)
  PROVE  ClaimInv'
<1>1. /\ runs'[r].status = "reverted" /\ runs[r].lot \in Lot
      /\ \A q \in RunId : q # r => runs'[q] = runs[q]
      /\ \A o \in Object :
           IF o \in Owned(r)
           THEN /\ ~objects[o].human /\ objects[o].run = r
                /\ objects'[o] = [state |-> "review", human |-> FALSE, run |-> NoRun]
           ELSE objects'[o] = objects[o]
  BY RevertsFields
<1>2. \A q \in SettlementRuns' : q \in RunId /\ q # r /\ q \in SettlementRuns /\ runs'[q] = runs[q]
  BY <1>1 DEF SettlementRuns
<1>3. Claimed'
  <2> SUFFICES ASSUME NEW q \in SettlementRuns', NEW o \in runs'[q].objs
               PROVE  objects'[o].human \/ (objects'[o].state = "settled" /\ objects'[o].run = q)
    BY DEF Claimed
  <2>1. q # r /\ q \in SettlementRuns /\ o \in runs[q].objs /\ o \in Object
    BY <1>2 DEF SettlementRuns, TypeOK, Run
  <2>2. objects[o].human \/ (objects[o].state = "settled" /\ objects[o].run = q)
    BY <2>1 DEF ClaimInv, Claimed
  <2>3. o \notin Owned(r) BY <1>1, <2>1, <2>2
  <2> QED BY <1>1, <2>1, <2>2, <2>3
<1>4. ChunkFree' BY <1>2 DEF ClaimInv, ChunkFree, Reverts
<1>5. NoDoubleClaim' BY <1>2 DEF ClaimInv, NoDoubleClaim
<1>6. SettledIsRevertible'
  <2> SUFFICES ASSUME NEW o \in Object, objects'[o].state = "settled", ~objects'[o].human
               PROVE  \E q \in RunId : q = objects'[o].run /\ runs'[q].status = "committed"
                                       /\ o \in runs'[q].objs
    BY DEF SettledIsRevertible
  <2>1. o \notin Owned(r)
    <3>1. CASE o \in Owned(r)
      <4>1. objects'[o] = [state |-> "review", human |-> FALSE, run |-> NoRun] BY <1>1, <3>1
      <4>2. objects'[o].state = "review" BY <4>1
      <4> QED BY <4>2
    <3> QED BY <3>1
  <2>2. objects'[o] = objects[o] BY <1>1, <2>1
  <2>3. PICK q \in RunId : q = objects[o].run /\ runs[q].status = "committed"
                           /\ o \in runs[q].objs
    BY <2>2 DEF ClaimInv, SettledIsRevertible
  <2>4. q # r BY <2>1, <2>2, <2>3 DEF Owned
  <2> QED BY <1>1, <2>2, <2>3, <2>4
<1> QED BY <1>3, <1>4, <1>5, <1>6 DEF ClaimInv

\* Every other step leaves the claims as they are and gives labels to people at most.
LEMMA RestClaims ==
  ASSUME TypeOK, ClaimInv, [Next]_vars,
         \A o \in Object : objects'[o].human \/ objects'[o] = objects[o],
         \A q \in RunId : runs'[q] = runs[q] \/ (runs[q].status = "free" /\ runs'[q].lot = NoLot)
  PROVE  ClaimInv'
<1>1. SettlementRuns' = SettlementRuns /\ \A q \in SettlementRuns : runs'[q] = runs[q]
  BY NullAssumption DEF SettlementRuns
<1>2. \A q \in SettlementRuns : runs[q].objs \subseteq Object
  BY DEF SettlementRuns, TypeOK, Run
<1>3. Claimed' BY <1>1, <1>2 DEF ClaimInv, Claimed
<1>4. NoDoubleClaim' BY <1>1 DEF ClaimInv, NoDoubleClaim
<1>5. ChunkFree'
  <2> SUFFICES ASSUME NEW s \in Ticker, tick'[s].pc = "chunk", NEW q \in SettlementRuns
               PROVE  tick'[s].now \cap runs[q].objs = {}
    BY <1>1 DEF ChunkFree
  <2>1. CASE tick'[s] = tick[s] BY <2>1 DEF ClaimInv, ChunkFree
  <2>2. CASE tick'[s] # tick[s]
    <3> DEFINE chunk == FirstChunk(tick[s].ids)
               free == {o \in chunk : Reviewable(o)}
    <3>1. tick'[s] = [tick[s] EXCEPT !.pc = "chunk", !.ids = tick[s].ids \ chunk, !.now = free]
      BY <2>2, ChunkRead DEF ReadChunk, TypeOK
    <3>2. \A o \in free : objects[o].state = "review" /\ ~objects[o].human
      BY DEF Reviewable
    <3> HIDE DEF chunk, free
    <3>3. tick'[s].now = free BY <3>1 DEF TypeOK, Ticking
    <3> QED BY <3>2, <3>3 DEF ClaimInv, Claimed
  <2> QED BY <2>1, <2>2
<1>6. SettledIsRevertible'
  <2> SUFFICES ASSUME NEW o \in Object, objects'[o].state = "settled", ~objects'[o].human
               PROVE  \E q \in RunId : q = objects'[o].run /\ runs'[q].status = "committed"
                                       /\ o \in runs'[q].objs
    BY DEF SettledIsRevertible
  <2>1. objects'[o] = objects[o] OBVIOUS
  <2>2. PICK q \in RunId : q = objects[o].run /\ runs[q].status = "committed"
                           /\ o \in runs[q].objs
    BY <2>1 DEF ClaimInv, SettledIsRevertible
  <2>3. runs'[q] = runs[q] BY <2>2
  <2> QED BY <2>1, <2>2, <2>3
<1> QED BY <1>3, <1>4, <1>5, <1>6 DEF ClaimInv

LEMMA ClaimStep ==
  ASSUME OneTicker, TypeOK, LotInv, OwnInv, ClaimInv, [Next]_vars
  PROVE  ClaimInv'
<1>1. ASSUME NEW s \in Ticker, NEW r \in RunId, WriteChunk(s, r) PROVE ClaimInv'
  BY <1>1, ChunkClaims
<1>2. ASSUME NEW r \in RunId, Reverts(r) PROVE ClaimInv' BY <1>2, RevertClaims
<1>3. CASE Batched
  <2> PICK S \in Batches, v \in {"clean", "defect"}, r \in RunId : RuleBatch(S, v, r)
    BY <1>3 DEF Batched
  <2>1. /\ \A o \in Object : objects'[o].human \/ objects'[o] = objects[o]
        /\ \A q \in RunId : runs'[q] = runs[q] \/ (runs[q].status = "free" /\ runs'[q].lot = NoLot)
    BY RuleBatchFields
  <2> QED BY <2>1, RestClaims
<1>4. ASSUME NEW o \in Object, NEW v \in {"clean", "defect"}, Rule(o, v) PROVE ClaimInv'
  <2>1. UNCHANGED runs /\ \A p \in Object : objects'[p].human \/ objects'[p] = objects[p]
    BY <1>4, RuleFields DEF Rule
  <2> QED BY <2>1, RestClaims
<1>5. CASE UNCHANGED <<objects, runs>> BY <1>5, RestClaims
<1> QED BY <1>1, <1>2, <1>3, <1>4, <1>5, LabelSteps

LEMMA ClaimsKept == ASSUME OneTicker, RulingsStay PROVE Spec => []ClaimInv
<1> DEFINE CInv == TypeOK /\ LotInv /\ OwnInv /\ ClaimInv
<1>1. Init => CInv BY InitType, InitLot, InitOwn, InitClaim
<1>2. CInv /\ [Next]_vars => CInv' BY TypeStep, LotStep, OwnStep, ClaimStep
<1>3. CInv => ClaimInv OBVIOUS
<1> HIDE DEF CInv
<1> QED BY <1>1, <1>2, <1>3, PTL DEF Spec

\* No label is claimed by two committed runs, so no count of settled labels counts one
\* twice and no revert of a lot reopens another's: settle_lot and revert_run, if ticks do
\* not overlap and nobody takes back a batch of rulings.
THEOREM NoDoubleClaimAlways ==
  ASSUME OneTicker, RulingsStay
  PROVE  Spec => []NoDoubleClaim
<1>1. ClaimInv => NoDoubleClaim BY DEF ClaimInv
<1> QED BY <1>1, ClaimsKept, PTL

\* Batches of rulings do no harm to that either, while none is taken back: every label the
\* machine closed carries a committed run that lists it (settle_lot, review.py:bulk_review).
THEOREM SettledIsRevertibleBesideBatches ==
  ASSUME OneTicker, RulingsStay
  PROVE  Spec => []SettledIsRevertible
<1>1. ClaimInv => SettledIsRevertible BY DEF ClaimInv
<1> QED BY <1>1, ClaimsKept, PTL

-------------------------------------------------------------------------------
(* The refinement.                                                                *)

statusBar == [l \in Lot |-> lots[l].status]
ownerBar == [o \in Object |-> Owner(o)]

\* Whose a label is, case by case.
LEMMA OwnerFacts ==
  ASSUME NEW o
  PROVE  /\ objects[o].human => Owner(o) = "a person"
         /\ ~objects[o].human /\ objects[o].state # "settled" => Owner(o) = "nobody"
         /\ ~objects[o].human /\ objects[o].state = "settled" /\ objects[o].run # NoRun =>
              Owner(o) = runs[objects[o].run].lot
BY DEF Owner

LEMMA OwnerNext ==
  ASSUME NEW o
  PROVE  /\ objects'[o].human => Owner(o)' = "a person"
         /\ ~objects'[o].human /\ objects'[o].state # "settled" => Owner(o)' = "nobody"
         /\ ~objects'[o].human /\ objects'[o].state = "settled" /\ objects'[o].run # NoRun =>
              Owner(o)' = runs'[objects'[o].run].lot
BY DEF Owner

\* A label keeps its owner when it and its run's lot do not change.
LEMMA OwnerStays ==
  ASSUME NEW o, objects'[o] = objects[o],
         objects[o].run # NoRun => runs'[objects[o].run].lot = runs[objects[o].run].lot
  PROVE  Owner(o)' = Owner(o)
BY DEF Owner

\* Nor can a step change whose a label is without touching the label.
LEMMA UntouchedOwner ==
  ASSUME TypeOK, LotInv, OwnInv, [Next]_vars, NEW o \in Object, objects'[o] = objects[o]
  PROVE  Owner(o)' = Owner(o)
<1>1. objects[o].run = NoRun \/ objects[o].run \in RunId BY DEF TypeOK, Label
<1>2. objects[o].run # NoRun => runs[objects[o].run].status # "free" BY DEF OwnInv, StampKnown
<1>3. objects[o].run # NoRun => runs'[objects[o].run].lot = runs[objects[o].run].lot
  BY <1>1, <1>2, RunsStay
<1> QED BY <1>3, OwnerStays

\* No lot moves in a step that changes a run, and none moves when no row does.
LEMMA LotsStay ==
  ASSUME TypeOK, LotInv, [Next]_vars, UNCHANGED lots \/ ~UNCHANGED <<objects, runs>>
  PROVE  statusBar' = statusBar
<1>1. Steady BY LotMoves DEF MovesOn, Steady
<1> QED BY <1>1 DEF Steady, statusBar

\* The machine closes a chunk: nobody's labels become the lot's, while it stands accepted.
LEMMA WriteCloses ==
  ASSUME TypeOK, LotInv, OwnInv, [Next]_vars, NEW s \in Ticker, NEW r \in RunId, WriteChunk(s, r)
  PROVE  \E l \in Lot, S \in SUBSET Object : Promise!Close(l, S)
<1> PICK l : l = tick[s].lot OBVIOUS
<1> PICK S : S = {o \in tick[s].now : ~objects[o].human} OBVIOUS
<1>1. l \in Lot /\ lots[l].status = "accepted" /\ tick[s].pc = "chunk" BY ChunkRuns
<1>2. tick[s].now \subseteq Object BY DEF TypeOK, Ticking
<1>3. S \in SUBSET Object BY <1>2
<1>4. runs[r].status = "free" /\ runs'[r].status = "committed" /\ runs'[r].lot = l
  <2>1. runs[r].status = "free" BY DEF WriteChunk, IsNextRun
  <2> QED BY <2>1, WriteChunkFields
<1>5. statusBar' = statusBar BY <1>4, LotsStay
<1>6. r # NoRun BY ShapeAssumption
<1>7. \A o \in S : ownerBar[o] = "nobody"
  <2> TAKE o \in S
  <2>1. ~objects[o].human /\ objects[o].state = "review"
    BY <1>1 DEF OwnInv, HandOpen
  <2> QED BY <1>3, <2>1, OwnerFacts DEF ownerBar
<1>8. ASSUME NEW o \in Object PROVE Owner(o)' = IF o \in S THEN l ELSE ownerBar[o]
  <2>1. CASE o \in tick[s].now
    <3> DEFINE new == [objects[o] EXCEPT !.state = "settled", !.run = r]
    <3>1. objects'[o] = new BY <2>1 DEF WriteChunk
    <3>2. new.state = "settled" /\ new.run = r /\ new.human = objects[o].human
      BY DEF TypeOK, Label
    <3> HIDE DEF new
    <3>3. CASE objects[o].human
      BY <3>1, <3>2, <3>3, OwnerFacts, OwnerNext DEF ownerBar
    <3>4. CASE ~objects[o].human
      <4>1. Owner(o)' = l BY <1>4, <1>6, <3>1, <3>2, <3>4, OwnerNext
      <4> QED BY <2>1, <3>4, <4>1
    <3> QED BY <3>3, <3>4
  <2>2. CASE o \notin tick[s].now
    <3>1. objects'[o] = objects[o] BY <2>2 DEF WriteChunk
    <3> QED BY <2>2, <3>1, UntouchedOwner DEF ownerBar
  <2> QED BY <2>1, <2>2
<1>9. ownerBar' = [o \in Object |-> IF o \in S THEN l ELSE ownerBar[o]] BY <1>8 DEF ownerBar
<1>10. statusBar[l] = "accepted" BY <1>1 DEF statusBar
<1>11. Promise!Close(l, S)
  BY <1>5, <1>7, <1>9, <1>10 DEF Promise!Close, statusBar, ownerBar, Owner
<1> QED BY <1>1, <1>3, <1>11

\* A run is taken back: what its lot closed and still owns is nobody's again.
LEMMA RevertReopens ==
  ASSUME TypeOK, LotInv, OwnInv, [Next]_vars, NEW r \in RunId, Reverts(r)
  PROVE  \E l \in Lot, S \in SUBSET Object : Promise!Reopen(l, S)
<1> PICK l : l = runs[r].lot OBVIOUS
<1> PICK S : S = {o \in Object : o \in Owned(r) /\ objects[o].state = "settled"} OBVIOUS
<1>1. l \in Lot /\ runs[r].status = "committed" BY RevertsFields DEF Reverts
<1>2. lots[l].status \in {"accepted", "settled", "reverted"}
  BY <1>1 DEF LotInv, SettledUnderPassedLot, SettlementRuns
<1>3. UNCHANGED lots BY DEF Reverts
<1>4. statusBar' = statusBar BY <1>3, LotsStay
<1>5. r # NoRun BY ShapeAssumption
<1>6. \A o \in S : ownerBar[o] = l
  <2> TAKE o \in S
  <2>1. ~objects[o].human /\ objects[o].run = r /\ objects[o].state = "settled" BY RevertsFields
  <2> QED BY <1>5, <2>1, OwnerFacts DEF ownerBar
<1>7. ASSUME NEW o \in Object PROVE Owner(o)' = IF o \in S THEN "nobody" ELSE ownerBar[o]
  <2>1. CASE o \in Owned(r)
    <3>1. objects'[o] = [state |-> "review", human |-> FALSE, run |-> NoRun] /\ ~objects[o].human
      BY <2>1, RevertsFields
    <3>2. ~objects'[o].human /\ objects'[o].state # "settled" BY <3>1
    <3>3. Owner(o)' = "nobody" BY <3>2, OwnerNext
    <3> QED BY <2>1, <3>1, <3>3, OwnerFacts DEF ownerBar
  <2>2. CASE o \notin Owned(r)
    <3>1. objects'[o] = objects[o] BY <2>2, RevertsFields
    <3> QED BY <2>2, <3>1, UntouchedOwner DEF ownerBar
  <2> QED BY <2>1, <2>2
<1>8. ownerBar' = [o \in Object |-> IF o \in S THEN "nobody" ELSE ownerBar[o]]
  BY <1>7 DEF ownerBar
<1>9. statusBar[l] \in {"accepted", "settled", "reverted"} BY <1>1, <1>2 DEF statusBar
<1>10. Promise!Reopen(l, S)
  BY <1>4, <1>6, <1>8, <1>9 DEF Promise!Reopen, statusBar, ownerBar, Owner
<1>11. S \in SUBSET Object OBVIOUS
<1> QED BY <1>1, <1>10, <1>11

\* A person's ruling makes what it rules on a person's, whatever it was.
LEMMA RulingRules ==
  ASSUME TypeOK, LotInv, OwnInv, [Next]_vars,
         Batched \/ \E o \in Object, v \in {"clean", "defect"} : Rule(o, v)
  PROVE  \E S \in SUBSET Object : Promise!Rule(S)
<1>1. UNCHANGED lots BY DEF Batched, RuleBatch, Rule
<1>2. statusBar' = statusBar BY <1>1, LotsStay
<1>3. ASSUME NEW S \in SUBSET Object,
             \A o \in Object : IF o \in S THEN objects'[o].human ELSE objects'[o] = objects[o]
      PROVE  Promise!Rule(S)
  <2>1. \A o \in Object : Owner(o)' = IF o \in S THEN "a person" ELSE ownerBar[o]
    BY <1>3, OwnerNext, UntouchedOwner DEF ownerBar
  <2>2. ownerBar' = [o \in Object |-> IF o \in S THEN "a person" ELSE ownerBar[o]]
    BY <2>1 DEF ownerBar
  <2> QED BY <1>2, <2>2 DEF Promise!Rule, statusBar, ownerBar, Owner
<1>4. ASSUME NEW S \in Batches, NEW v, NEW r \in RunId, RuleBatch(S, v, r)
      PROVE  \E T \in SUBSET Object : Promise!Rule(T)
  <2>1. S \in SUBSET Object BY ShapeAssumption
  <2>2. \A o \in Object : IF o \in S THEN objects'[o].human ELSE objects'[o] = objects[o]
    BY <1>4, RuleBatchFields
  <2> QED BY <1>3, <2>1, <2>2
<1>5. ASSUME NEW o \in Object, NEW v, Rule(o, v)
      PROVE  \E T \in SUBSET Object : Promise!Rule(T)
  <2>1. {o} \in SUBSET Object OBVIOUS
  <2>2. \A p \in Object : IF p \in {o} THEN objects'[p].human ELSE objects'[p] = objects[p]
    BY <1>5, RuleFields
  <2> QED BY <1>3, <2>1, <2>2
<1> QED BY <1>4, <1>5 DEF Batched

LEMMA PromiseStep ==
  ASSUME TypeOK, LotInv, OwnInv, [Next]_vars
  PROVE  [Promise!Next]_(Promise!vars)
<1>1. ASSUME NEW s \in Ticker, NEW r \in RunId, WriteChunk(s, r) PROVE Promise!Next
  BY <1>1, WriteCloses DEF Promise!Next
<1>2. ASSUME NEW r \in RunId, Reverts(r) PROVE Promise!Next
  BY <1>2, RevertReopens DEF Promise!Next
<1>3. ASSUME Batched \/ \E o \in Object, v \in {"clean", "defect"} : Rule(o, v)
      PROVE  Promise!Next
  BY <1>3, RulingRules DEF Promise!Next
<1>4. CASE UNCHANGED <<objects, runs>>
  <2>1. \A o \in Object : Owner(o)' = Owner(o) BY <1>4, UntouchedOwner
  <2>2. ownerBar' = ownerBar BY <2>1 DEF ownerBar
  <2>3. CASE Steady
    <3>1. statusBar' = statusBar BY <2>3 DEF Steady, statusBar
    <3> QED BY <2>2, <3>1 DEF Promise!vars, statusBar, ownerBar, Owner
  <2>4. ASSUME NEW k \in Lot, MovesOn(k) PROVE Promise!Next
    <3> PICK new : new = lots'[k].status OBVIOUS
    <3>1. <<lots[k].status, new>> \in Promise!Moves /\ \A l \in Lot \ {k} : lots'[l] = lots[l]
      BY <2>4 DEF MovesOn
    <3>2. statusBar' = [statusBar EXCEPT ![k] = new] BY <3>1 DEF statusBar
    <3>3. statusBar[k] = lots[k].status BY DEF statusBar
    <3>4. Promise!Move(k, new)
      BY <2>2, <3>1, <3>2, <3>3 DEF Promise!Move, statusBar, ownerBar, Owner
    <3>5. new \in {"judging", "accepted", "rejected", "parked", "settled", "reverted"}
      BY <3>1 DEF Promise!Moves
    <3> QED BY <3>4, <3>5 DEF Promise!Next
  <2> QED BY <2>3, <2>4, LotMoves
<1> QED BY <1>1, <1>2, <1>3, <1>4, LabelSteps

LEMMA PromiseStarts == Init => Promise!Init
<1> SUFFICES ASSUME Init PROVE Promise!Init OBVIOUS
<1>1. \A l \in Lot : lots[l].status = "none" BY DEF Init, BlankLot
<1>2. \A o \in Object : ~objects[o].human /\ objects[o].state = "review" BY DEF Init
<1>3. \A o \in Object : Owner(o) = "nobody" BY <1>2, OwnerFacts
<1>4. statusBar = [l \in Lot |-> "none"] /\ ownerBar = [o \in Object |-> "nobody"]
  BY <1>1, <1>3 DEF statusBar, ownerBar
<1> QED BY <1>4 DEF Promise!Init, statusBar, ownerBar, Owner

\* Settlement keeps the promise of LotPromise, for any lots and labels, through crashes, reverts
\* and rulings at any point: a lot is decided once, a label is closed by one lot at a time and
\* only while that lot stands accepted, is given back only by the lot that closed it, and stays
\* a person's once ruled on (settlement.py, settlement_agent.py, runs.py), if ticks do not
\* overlap and no batch of rulings is taken back by name.
THEOREM KeepsPromiseAlways == ASSUME OneTicker, RulingsStay PROVE Spec => KeepsPromise
<1> DEFINE PInv == TypeOK /\ LotInv /\ OwnInv
<1>1. Init => PInv BY InitType, InitLot, InitOwn
<1>2. PInv /\ [Next]_vars => PInv' BY TypeStep, LotStep, OwnStep
<1>3. PInv /\ [Next]_vars => [Promise!Next]_(Promise!vars) BY PromiseStep
<1> HIDE DEF PInv
<1> QED BY <1>1, <1>2, <1>3, PromiseStarts, PTL DEF Spec, KeepsPromise, Promise!Spec
===============================================================================
