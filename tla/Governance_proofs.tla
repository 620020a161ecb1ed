-------------------------- MODULE Governance_proofs --------------------------
(* Theorems of Governance, for every set of models, tasks and sessions, and *)
(* whatever the models score.                                              *)
EXTENDS Governance, TLAPS

-------------------------------------------------------------------------------
(* The operators. *)

\* What a flush of a governance_state row leaves is such a row.
LEMMA FlushType ==
  ASSUME NEW row \in State, NEW loaded \in State, NEW current \in State
  PROVE  Flush(row, loaded, current) \in State
BY DEF State, Flush

\* The champion read for a task is a champion of that task.
LEMMA GetChampionMember ==
  ASSUME NEW t
  PROVE  /\ GetChampion(t) \in Maybe
         /\ GetChampion(t) # NoModel => GetChampion(t) \in Champions(t)
BY DEF GetChampion, Champions, Maybe

\* set_champion leaves a registry.
LEMMA CrownedType ==
  ASSUME TypeOK, NEW m \in Model, NEW t, NEW prev \in Maybe
  PROVE  Crowned(m, t, prev) \in [Model -> Row]
<1>1. registry \in [Model -> Row] BY DEF TypeOK
<1>2. [registry[m] EXCEPT !.champ = TRUE, !.from = prev] \in Row BY <1>1 DEF Row
<1>3. ASSUME NEW n \in Model PROVE [registry[n] EXCEPT !.champ = FALSE] \in Row
  BY <1>1 DEF Row
<1> QED BY <1>1, <1>2, <1>3 DEF Crowned

\* set_champion makes no model champion but the one it names.
LEMMA CrownedChampion ==
  ASSUME TypeOK, NEW m \in Model, NEW t, NEW prev \in Maybe, NEW n \in Model,
         Crowned(m, t, prev)[n].champ
  PROVE  n = m \/ registry[n].champ
<1>1. registry[n] \in Row BY DEF TypeOK
<1>2. ASSUME n # m, registry[n].task = t PROVE FALSE
  <2>1. Crowned(m, t, prev)[n] = [registry[n] EXCEPT !.champ = FALSE] BY <1>2 DEF Crowned
  <2> QED BY <2>1, <1>1 DEF Row
<1>3. ASSUME n # m, registry[n].task # t PROVE registry[n].champ
  BY <1>3 DEF Crowned
<1> QED BY <1>2, <1>3

\* A model's promoted_from changes only when it is crowned, to the incumbent named.
LEMMA CrownedFrom ==
  ASSUME TypeOK, NEW m \in Model, NEW t, NEW prev \in Maybe, NEW n \in Model
  PROVE  Crowned(m, t, prev)[n].from \in {registry[n].from, prev}
<1>1. registry[n] \in Row /\ registry[m] \in Row BY DEF TypeOK
<1>2. CASE n = m /\ registry[m].known
  <2>1. Crowned(m, t, prev)[n] = [registry[m] EXCEPT !.champ = TRUE, !.from = prev]
    BY <1>2 DEF Crowned
  <2> QED BY <2>1, <1>1 DEF Row
<1>3. CASE ~(n = m /\ registry[m].known) /\ registry[n].task = t
  <2>1. Crowned(m, t, prev)[n] = [registry[n] EXCEPT !.champ = FALSE] BY <1>3 DEF Crowned
  <2> QED BY <2>1, <1>1 DEF Row
<1>4. CASE ~(n = m /\ registry[m].known) /\ registry[n].task # t
  BY <1>4 DEF Crowned
<1> QED BY <1>2, <1>3, <1>4

\* What the drift scan, the kill switch and release make of a state is a state.
LEMMA StateChanges ==
  ASSUME NEW st \in State, NEW breach \in BOOLEAN
  PROVE  /\ AfterScan(st, breach) \in State
         /\ Engaged(st) \in State
         /\ Released(st) \in State
         /\ ChampionColumn(st) \in State
BY DEF State, AfterScan, Paused, Resumed, Engaged, Released, ChampionColumn, Unread,
       Reason, Maybe
-------------------------------------------------------------------------------
(* Type correctness. *)

LEMMA InitType == Init => TypeOK
<1> SUFFICES ASSUME Init PROVE TypeOK OBVIOUS
<1>1. registry \in [Model -> Row] BY DataAssumption DEF Init, Row, Maybe
<1>2. flags \in State BY DEF Init, State, Reason, Maybe
<1>3. Idle \in Held BY NoModelAssumption DEF Idle, Held, Unread, State, Reason, Maybe
<1>4. Quiet \in Pulled BY DEF Quiet, Pulled, Unread, State, Reason, Maybe
<1> QED BY <1>1, <1>2, <1>3, <1>4 DEF Init, TypeOK

\* A crowning keeps the registry's type.
LEMMA SetChampionType ==
  ASSUME TypeOK, NEW m \in Model, NEW t, NEW prev \in Maybe, SetChampion(m, t, prev)
  PROVE  registry' \in [Model -> Row]
BY CrownedType DEF SetChampion

LEMMA AfterOneType ==
  ASSUME TypeOK, NEW s \in Session, NEW st \in State
  PROVE  AfterOne(s, st) \in Held
BY DEF TypeOK, AfterOne, Idle, Held, Unread, State, Reason, Maybe

LEMMA TickType ==
  ASSUME TypeOK, NEW s \in Ticker, TickStep(s)
  PROVE  TypeOK'
<1> s \in Session BY DEF Session
<1>t. sess[s] \in Held /\ sess[s].state \in State /\ flags \in State
  BY DEF TypeOK, Held
<1>1. CASE TickBegin(s)
  <2>1. [Idle EXCEPT !.pc = "scan", !.state = flags] \in Held BY <1>t DEF Idle, Held, Maybe
  <2> QED BY <2>1, <1>1 DEF TypeOK, TickBegin
<1>2. ASSUME NEW breach \in BOOLEAN, TickScan(s, breach) PROVE TypeOK'
  <2> DEFINE new == AfterScan(sess[s].state, breach)
             listed == {m \in Model : registry[m].known /\ ~registry[m].champ}
  <2>1. new \in State BY <1>t, StateChanges
  <2>2. Flush(flags, sess[s].state, new) \in State BY <2>1, <1>t, FlushType
  <2>3. [sess[s] EXCEPT !.pc = "pick", !.state = new, !.todo = listed] \in Held
    <3> HIDE DEF new
    <3> QED BY <2>1, <1>t DEF Held
  <2> QED
    <3> HIDE DEF new
    <3>1. flags' \in State BY <1>2, <2>2 DEF TickScan, new
    <3>2. sess' \in [Session -> Held] BY <1>2, <2>3 DEF TypeOK, TickScan, new
    <3> QED BY <3>1, <3>2, <1>2 DEF TypeOK, TickScan
<1>3. ASSUME NEW m \in Model, TickEvaluate(s, m) PROVE TypeOK'
  <2> DEFINE t == registry[m].task
  <2>1. t \in Task BY DEF TypeOK, Row
  <2>2. [sess[s] EXCEPT !.pc = "scored", !.todo = sess[s].todo \ {m}, !.chal = m, !.task = t,
                        !.champ = GetChampion(t)] \in Held
    <3>1. GetChampion(t) \in Maybe BY GetChampionMember
    <3> QED BY <2>1, <3>1, <1>t DEF Held, Maybe
  <2> QED BY <2>2, <1>3 DEF TypeOK, TickEvaluate, Evaluate
<1>4. CASE TickEnd(s)
  <2>1. Idle \in Held BY DEF Idle, Held, Unread, State, Reason, Maybe
  <2> QED BY <2>1, <1>4 DEF TypeOK, TickEnd
<1> QED BY <1>1, <1>2, <1>3, <1>4 DEF TickStep

LEMMA PromoteType ==
  ASSUME TypeOK, NEW s \in Session, PromoteStep(s)
  PROVE  TypeOK'
<1>t. sess[s] \in Held /\ sess[s].state \in State /\ flags \in State
  BY DEF TypeOK, Held
<1>1. CASE Decide(s)
  <2> DEFINE pass == Gate(sess[s].chal, sess[s].champ) /\ MayPromote(s)
  <2>1. Loaded(s) \in State BY <1>t, StateChanges DEF Loaded
  <2>2. [sess[s] EXCEPT !.pc = "cleared", !.state = Loaded(s)] \in Held
    <3>1. sess[s].chal \in Model /\ sess[s].task \in Task BY <1>1, <1>t DEF Decide, Held
    <3> QED BY <2>1, <3>1, <1>t DEF Held
  <2>3. AfterOne(s, sess[s].state) \in Held BY <1>t, AfterOneType
  <2> QED
    <3> HIDE DEF pass
    <3>1. sess' = [sess EXCEPT ![s] =
             IF pass THEN [sess[s] EXCEPT !.pc = "cleared", !.state = Loaded(s)]
             ELSE AfterOne(s, sess[s].state)]
      BY <1>1 DEF Decide, pass
    <3>2. sess' \in [Session -> Held] BY <3>1, <2>2, <2>3 DEF TypeOK
    <3> QED BY <3>2, <1>1 DEF TypeOK, Decide
<1>2. CASE Promote(s)
  <2>1. sess[s].chal \in Model /\ sess[s].task \in Task /\ sess[s].champ \in Maybe
    BY <1>2, <1>t DEF Promote, Held
  <2>2. registry' \in [Model -> Row] BY <2>1, <1>2, SetChampionType DEF Promote
  <2>3. [sess[s] EXCEPT !.pc = "championed"] \in Held BY <2>1, <1>t DEF Held
  <2> QED BY <2>2, <2>3, <1>2 DEF TypeOK, Promote
<1>i. Idle \in Held BY DEF Idle, Held, Unread, State, Reason, Maybe
<1>3. CASE LoseRace(s) BY <1>i, <1>3 DEF TypeOK, LoseRace
<1>4. CASE SaveState(s)
  <2> DEFINE new == [sess[s].state EXCEPT !.champion = sess[s].chal]
  <2>1. new \in State BY <1>t, <1>4 DEF SaveState, Held, State, Maybe
  <2> HIDE DEF new
  <2>2. Flush(flags, sess[s].state, new) \in State BY <2>1, <1>t, FlushType
  <2>3. AfterOne(s, new) \in Held BY <2>1, AfterOneType
  <2>4. flags' \in State BY <1>4, <2>2 DEF SaveState, new
  <2>5. sess' \in [Session -> Held] BY <1>4, <2>3 DEF TypeOK, SaveState, new
  <2> QED BY <2>4, <2>5, <1>4 DEF TypeOK, SaveState
<1> QED BY <1>1, <1>2, <1>3, <1>4 DEF PromoteStep

LEMMA EvaluateType ==
  ASSUME TypeOK, NEW s \in Session, NEW m \in Model, NEW t \in Task,
         Evaluate(s, m, t), UNCHANGED <<registry, flags, kill>>
  PROVE  TypeOK'
<1>1. [sess[s] EXCEPT !.pc = "scored", !.todo = sess[s].todo \ {m}, !.chal = m, !.task = t,
                      !.champ = GetChampion(t)] \in Held
  <2>1. GetChampion(t) \in Maybe BY GetChampionMember
  <2> QED BY <2>1 DEF TypeOK, Held, Maybe
<1> QED BY <1>1 DEF TypeOK, Evaluate

LEMMA KillType ==
  ASSUME TypeOK, NEW k \in Killer, KillStep(k)
  PROVE  TypeOK'
<1>t. kill[k] \in Pulled /\ kill[k].state \in State /\ flags \in State
  BY DEF TypeOK, Pulled
<1>q. Quiet \in Pulled BY DEF Quiet, Pulled, Unread, State, Reason, Maybe
<1>1. ASSUME NEW t \in Task, Engage(k, t) PROVE TypeOK'
  <2>1. Engaged(flags) \in State /\ ChampionColumn(flags) \in State BY <1>t, StateChanges
  <2>2. [Quiet EXCEPT !.pc = "stopped", !.task = t, !.state = ChampionColumn(flags)] \in Pulled
    BY <2>1 DEF Quiet, Pulled, Maybe
  <2> QED BY <2>1, <2>2, <1>1 DEF TypeOK, Engage
<1>2. CASE RollbackRead(k)
  <2> DEFINE c == GetChampion(kill[k].task)
  <2>1. CASE c = NoModel \/ registry[c].from = NoModel
    <3>1. kill' = [kill EXCEPT ![k] = Quiet] BY <2>1, <1>2 DEF RollbackRead
    <3> QED BY <3>1, <1>q, <1>2 DEF TypeOK, RollbackRead
  <2>2. CASE c # NoModel /\ registry[c].from # NoModel
    <3>1. c \in Model BY <2>2, GetChampionMember DEF Maybe
    <3> HIDE DEF c
    <3>2. registry[c].from \in Model BY <3>1, <2>2 DEF TypeOK, Row, Maybe
    <3>3. [kill[k] EXCEPT !.pc = "found", !.to = registry[c].from] \in Pulled
      BY <3>2, <1>2, <1>t DEF RollbackRead, Pulled, Maybe
    <3>4. kill' = [kill EXCEPT ![k] = [kill[k] EXCEPT !.pc = "found", !.to = registry[c].from]]
      BY <2>2, <1>2 DEF RollbackRead, c
    <3> QED BY <3>3, <3>4, <1>2 DEF TypeOK, RollbackRead
  <2> QED BY <2>1, <2>2
<1>3. CASE RollbackSet(k)
  <2>1. kill[k].to \in Model /\ kill[k].task \in Task BY <1>3, <1>t DEF RollbackSet, Pulled
  <2>2. registry' \in [Model -> Row] BY <2>1, <1>3, SetChampionType DEF RollbackSet, Maybe
  <2>3. [kill[k] EXCEPT !.pc = "restored"] \in Pulled BY <2>1, <1>t DEF Pulled
  <2> QED BY <2>2, <2>3, <1>3 DEF TypeOK, RollbackSet
<1>4. CASE RollbackSave(k)
  <2> DEFINE new == [kill[k].state EXCEPT !.champion = kill[k].to]
  <2>1. new \in State BY <1>t, <1>4 DEF RollbackSave, Pulled, State, Maybe
  <2> HIDE DEF new
  <2>2. Flush(flags, kill[k].state, new) \in State BY <2>1, <1>t, FlushType
  <2>3. flags' \in State BY <1>4, <2>2 DEF RollbackSave, new
  <2> QED BY <2>3, <1>q, <1>4 DEF TypeOK, RollbackSave
<1>5. CASE EngageCrash(k) BY <1>5, <1>q DEF TypeOK, EngageCrash
<1> QED BY <1>1, <1>2, <1>3, <1>4, <1>5 DEF KillStep

LEMMA OperatorType ==
  ASSUME TypeOK, OperatorStep
  PROVE  TypeOK'
<1>1. ASSUME NEW m \in Model, NEW t \in Task, Register(m, t) PROVE TypeOK'
  <2>1. [registry EXCEPT ![m].known = TRUE, ![m].task = t] \in [Model -> Row]
    BY DEF TypeOK, Row
  <2> QED BY <2>1, <1>1 DEF TypeOK, Register
<1>2. ASSUME NEW breach \in BOOLEAN, ScanEndpoint(breach) PROVE TypeOK'
  BY <1>2, StateChanges DEF TypeOK, ScanEndpoint
<1>3. CASE Release BY <1>3, StateChanges DEF TypeOK, Release
<1>4. ASSUME NEW promote \in BOOLEAN, NEW settle \in BOOLEAN, OptIn(promote, settle)
      PROVE TypeOK'
  BY <1>4 DEF TypeOK, OptIn, State
<1> QED BY <1>1, <1>2, <1>3, <1>4 DEF OperatorStep

LEMMA CrashType ==
  ASSUME TypeOK, NEW s \in Session, Crash(s)
  PROVE  TypeOK'
<1>1. Idle \in Held BY DEF Idle, Held, Unread, State, Reason, Maybe
<1> QED BY <1>1 DEF TypeOK, Crash

LEMMA NextType == TypeOK /\ [Next]_vars => TypeOK'
<1> SUFFICES ASSUME TypeOK, [Next]_vars PROVE TypeOK' OBVIOUS
<1>1. CASE UNCHANGED vars BY <1>1 DEF TypeOK, vars
<1>2. ASSUME NEW s \in Ticker, TickStep(s) PROVE TypeOK' BY <1>2, TickType
<1>3. ASSUME NEW s \in Person, NEW m \in Model, NEW t \in Task, PersonAsks(s, m, t)
      PROVE TypeOK'
  BY <1>3, EvaluateType DEF Session, PersonAsks
<1>8. ASSUME NEW s \in Trainer, NEW m \in Model, JobAsks(s, m) PROVE TypeOK'
  <2>1. registry[m].task \in Task BY DEF TypeOK, Row
  <2> QED BY <2>1, <1>8, EvaluateType DEF Session, JobAsks
<1>4. ASSUME NEW s \in Session, PromoteStep(s) PROVE TypeOK' BY <1>4, PromoteType
<1>5. ASSUME NEW s \in Session, Crash(s) PROVE TypeOK' BY <1>5, CrashType
<1>6. ASSUME NEW k \in Killer, KillStep(k) PROVE TypeOK' BY <1>6, KillType
<1>7. CASE OperatorStep BY <1>7, OperatorType
<1> QED BY <1>1, <1>2, <1>3, <1>4, <1>5, <1>6, <1>7, <1>8 DEF Next

\* Every reachable state is one the tables and the sessions can hold: in particular a
\* session that is about to crown, and a rollback that is about to restore, name a model.
THEOREM TypeCorrect == Spec => []TypeOK
<1>1. Init => TypeOK BY InitType
<1>2. TypeOK /\ [Next]_vars => TypeOK' BY NextType
<1> QED BY <1>1, <1>2, PTL DEF Spec
-------------------------------------------------------------------------------
(* One champion per task: the index is checked by every statement that could make *)
(* a second one, and the flag of a row is touched by no other.                    *)

LEMMA ChampionUntouched ==
  ASSUME OneChampion, UNCHANGED registry
  PROVE  OneChampion'
BY DEF OneChampion, UniqueChampions

LEMMA ChampionGuarded ==
  ASSUME NEW m, NEW t, NEW prev, SetChampion(m, t, prev)
  PROVE  OneChampion'
BY DEF SetChampion, OneChampion, UniqueChampions

THEOREM OneChampionAlways == Spec => []OneChampion
<1>1. Init => OneChampion
  <2> SUFFICES ASSUME Init, NEW m \in Model, NEW n \in Model,
                      registry[m].champ, registry[n].champ, registry[m].task = registry[n].task
               PROVE  m = n
    BY DEF OneChampion, UniqueChampions
  <2>1. m \in Seed /\ n \in Seed /\ Home[m] = Home[n] BY DEF Init
  <2> QED BY <2>1, SeedAssumption
<1>2. OneChampion /\ [Next]_vars => OneChampion'
  <2> SUFFICES ASSUME OneChampion, [Next]_vars PROVE OneChampion' OBVIOUS
  <2>1. CASE UNCHANGED vars BY <2>1, ChampionUntouched DEF vars
  <2>2. ASSUME NEW s \in Ticker, TickStep(s) PROVE OneChampion'
    BY <2>2, ChampionUntouched DEF TickStep, TickBegin, TickScan, TickEvaluate, TickEnd
  <2>3. ASSUME NEW s \in Session, NEW m \in Model, NEW t \in Task,
               PersonAsks(s, m, t)
        PROVE OneChampion'
    BY <2>3, ChampionUntouched DEF PersonAsks
  <2>8. ASSUME NEW s \in Trainer, NEW m \in Model, JobAsks(s, m) PROVE OneChampion'
    BY <2>8, ChampionUntouched DEF JobAsks
  <2>4. ASSUME NEW s \in Session, PromoteStep(s) PROVE OneChampion'
    <3>1. CASE Promote(s) BY <3>1, ChampionGuarded DEF Promote
    <3>2. CASE Decide(s) \/ LoseRace(s) \/ SaveState(s)
      BY <3>2, ChampionUntouched DEF Decide, LoseRace, SaveState
    <3> QED BY <2>4, <3>1, <3>2 DEF PromoteStep
  <2>5. ASSUME NEW s \in Session, Crash(s) PROVE OneChampion'
    BY <2>5, ChampionUntouched DEF Crash
  <2>6. ASSUME NEW k \in Killer, KillStep(k) PROVE OneChampion'
    <3>1. CASE RollbackSet(k) BY <3>1, ChampionGuarded DEF RollbackSet
    <3>2. CASE \/ \E t \in Task : Engage(k, t)
               \/ RollbackRead(k) \/ RollbackSave(k) \/ EngageCrash(k)
      BY <3>2, ChampionUntouched DEF Engage, RollbackRead, RollbackSave, EngageCrash
    <3> QED BY <2>6, <3>1, <3>2 DEF KillStep
  <2>7. CASE OperatorStep
    <3>1. ASSUME NEW m \in Model, NEW t \in Task, Register(m, t) PROVE OneChampion'
      <4> DEFINE after == [registry EXCEPT ![m].known = TRUE, ![m].task = t]
      <4>1. UniqueChampions(after) /\ registry' = after BY <3>1 DEF Register
      <4> QED BY <4>1 DEF OneChampion, UniqueChampions
    <3>2. CASE \/ \E breach \in BOOLEAN : ScanEndpoint(breach)
               \/ Release
               \/ \E promote, settle \in BOOLEAN : OptIn(promote, settle)
      BY <3>2, ChampionUntouched DEF ScanEndpoint, Release, OptIn
    <3> QED BY <2>7, <3>1, <3>2 DEF OperatorStep
  <2> QED BY <2>1, <2>2, <2>3, <2>4, <2>5, <2>6, <2>7, <2>8 DEF Next, Session
<1> QED BY <1>1, <1>2, PTL DEF Spec

-------------------------------------------------------------------------------
(* Whatever serves passed the gate's absolute conditions.  The claim about the     *)
(* champions alone is not inductive: a rollback crowns a model on the strength of  *)
(* a promoted_from written long before, which was itself the champion some session *)
(* had read.  IInv follows the claim back through each of those places.            *)

RegistrySound ==
  \A m \in Model : /\ registry[m].champ => m \in Sound
                   /\ registry[m].from \in Sound \cup {NoModel}
SessionSound(h) ==
  /\ h.champ \in Sound \cup {NoModel}
  /\ h.pc \in {"cleared", "championed"} => h.chal \in Sound
KillSound(h) == h.pc \in {"found", "restored"} => h.to \in Sound
SessionsSound == \A s \in Session : SessionSound(sess[s])
KillsSound == \A k \in Killer : KillSound(kill[k])

IInv == TypeOK /\ RegistrySound /\ SessionsSound /\ KillsSound

\* A crowning of a sound model over a sound (or no) incumbent.
LEMMA CrowningSound ==
  ASSUME TypeOK, RegistrySound, NEW m \in Sound, NEW t, NEW prev \in Sound \cup {NoModel},
         SetChampion(m, t, prev)
  PROVE  RegistrySound'
<1>1. m \in Model /\ prev \in Maybe BY DataAssumption DEF Maybe
<1>2. registry' = Crowned(m, t, prev) BY DEF SetChampion
<1>3. ASSUME NEW n \in Model PROVE registry'[n].champ => n \in Sound
  BY <1>1, <1>2, CrownedChampion DEF RegistrySound
<1>4. ASSUME NEW n \in Model PROVE registry'[n].from \in Sound \cup {NoModel}
  BY <1>1, <1>2, CrownedFrom DEF RegistrySound
<1> QED BY <1>3, <1>4 DEF RegistrySound

\* The champion a session reads, and where it came from, are sound.
LEMMA ReadSound ==
  ASSUME RegistrySound, NEW t
  PROVE  /\ GetChampion(t) \in Sound \cup {NoModel}
         /\ GetChampion(t) # NoModel => registry[GetChampion(t)].from \in Sound \cup {NoModel}
<1>1. GetChampion(t) # NoModel => GetChampion(t) \in Champions(t) BY GetChampionMember
<1> QED BY <1>1 DEF RegistrySound, Champions

LEMMA RestSound ==
  /\ SessionSound(Idle)
  /\ KillSound(Quiet)
  /\ \A s \in Session : \A st : SessionSound(AfterOne(s, st))
BY DEF SessionSound, KillSound, Idle, Quiet, AfterOne

\* One step of one session, which touches only its own record.
LEMMA OneSession ==
  ASSUME TypeOK, SessionsSound, NEW s \in Session, NEW h, SessionSound(h),
         sess' = [sess EXCEPT ![s] = h]
  PROVE  SessionsSound'
<1>1. ASSUME NEW r \in Session PROVE sess'[r] = IF r = s THEN h ELSE sess[r]
  BY DEF TypeOK
<1> QED BY <1>1 DEF SessionsSound

LEMMA OneKill ==
  ASSUME TypeOK, KillsSound, NEW k \in Killer, NEW h, KillSound(h),
         kill' = [kill EXCEPT ![k] = h]
  PROVE  KillsSound'
<1>1. ASSUME NEW r \in Killer PROVE kill'[r] = IF r = k THEN h ELSE kill[r]
  BY DEF TypeOK
<1> QED BY <1>1 DEF KillsSound

LEMMA TickSound ==
  ASSUME TypeOK, RegistrySound, SessionsSound, NEW s \in Ticker, TickStep(s)
  PROVE  RegistrySound' /\ SessionsSound'
<1> s \in Session BY DEF Session
<1>s. sess[s] \in Held /\ SessionSound(sess[s]) BY DEF TypeOK, SessionsSound
<1>1. CASE TickBegin(s)
  <2>1. SessionSound([Idle EXCEPT !.pc = "scan", !.state = flags]) BY DEF SessionSound, Idle
  <2> QED BY <2>1, <1>1, OneSession DEF TickBegin, RegistrySound
<1>2. ASSUME NEW breach \in BOOLEAN, TickScan(s, breach)
      PROVE  RegistrySound' /\ SessionsSound'
  <2> DEFINE new == AfterScan(sess[s].state, breach)
             listed == {m \in Model : registry[m].known /\ ~registry[m].champ}
             h == [sess[s] EXCEPT !.pc = "pick", !.state = new, !.todo = listed]
  <2>1. sess' = [sess EXCEPT ![s] = h] BY <1>2 DEF TickScan
  <2>2. SessionSound(h)
    <3> HIDE DEF new, listed
    <3> QED BY <1>s DEF Held, SessionSound
  <2> HIDE DEF h
  <2> QED BY <2>1, <2>2, <1>2, OneSession DEF TickScan, RegistrySound
<1>3. ASSUME NEW m \in Model, TickEvaluate(s, m) PROVE RegistrySound' /\ SessionsSound'
  <2> DEFINE t == registry[m].task
             h == [sess[s] EXCEPT !.pc = "scored", !.todo = sess[s].todo \ {m}, !.chal = m,
                                  !.task = t, !.champ = GetChampion(t)]
  <2>1. sess' = [sess EXCEPT ![s] = h] BY <1>3 DEF TickEvaluate, Evaluate
  <2>2. SessionSound(h) BY <1>s, ReadSound DEF Held, SessionSound
  <2> HIDE DEF h
  <2> QED BY <2>1, <2>2, <1>3, OneSession DEF TickEvaluate, RegistrySound
<1>4. CASE TickEnd(s) BY <1>4, RestSound, OneSession DEF TickEnd, RegistrySound
<1> QED BY <1>1, <1>2, <1>3, <1>4 DEF TickStep

LEMMA EvaluateSound ==
  ASSUME TypeOK, RegistrySound, SessionsSound,
         NEW s \in Session, NEW m \in Model, NEW t \in Task,
         Evaluate(s, m, t), UNCHANGED <<registry, flags, kill>>
  PROVE  RegistrySound' /\ SessionsSound'
<1> DEFINE h == [sess[s] EXCEPT !.pc = "scored", !.todo = sess[s].todo \ {m}, !.chal = m,
                                !.task = t, !.champ = GetChampion(t)]
<1>1. sess' = [sess EXCEPT ![s] = h] BY DEF Evaluate
<1>2. SessionSound(h)
  <2>1. sess[s] \in Held BY DEF TypeOK
  <2> QED BY <2>1, ReadSound DEF Held, SessionSound
<1> HIDE DEF h
<1> QED BY <1>1, <1>2, OneSession DEF RegistrySound

LEMMA PromoteSound ==
  ASSUME TypeOK, RegistrySound, SessionsSound, NEW s \in Session, PromoteStep(s)
  PROVE  RegistrySound' /\ SessionsSound'
<1>s. sess[s] \in Held /\ SessionSound(sess[s]) BY DEF TypeOK, SessionsSound
<1>1. CASE Decide(s)
  <2> DEFINE pass == Gate(sess[s].chal, sess[s].champ) /\ MayPromote(s)
             go == [sess[s] EXCEPT !.pc = "cleared", !.state = Loaded(s)]
             back == AfterOne(s, sess[s].state)
  <2>1. sess' = [sess EXCEPT ![s] = IF pass THEN go ELSE back] BY <1>1 DEF Decide
  <2>2. pass => SessionSound(go)
    <3> SUFFICES ASSUME pass PROVE SessionSound(go) OBVIOUS
    <3>1. sess[s].chal \in Sound BY DEF Gate
    <3> QED BY <3>1, <1>s DEF Held, SessionSound
  <2>3. SessionSound(back) BY RestSound
  <2> HIDE DEF pass, go, back
  <2>4. SessionSound(IF pass THEN go ELSE back) BY <2>2, <2>3
  <2> QED BY <2>1, <2>4, <1>1, OneSession DEF Decide, RegistrySound
<1>2. CASE Promote(s)
  <2>1. sess[s].chal \in Sound /\ sess[s].champ \in Sound \cup {NoModel}
    BY <1>s, <1>2 DEF Promote, SessionSound
  <2>2. RegistrySound' BY <2>1, <1>2, CrowningSound DEF Promote
  <2>3. SessionSound([sess[s] EXCEPT !.pc = "championed"]) BY <2>1, <1>s DEF Held, SessionSound
  <2> QED BY <2>2, <2>3, <1>2, OneSession DEF Promote
<1>3. CASE LoseRace(s) BY <1>3, RestSound, OneSession DEF LoseRace, RegistrySound
<1>4. CASE SaveState(s) BY <1>4, RestSound, OneSession DEF SaveState, RegistrySound
<1> QED BY <1>1, <1>2, <1>3, <1>4 DEF PromoteStep

LEMMA KillStepSound ==
  ASSUME TypeOK, RegistrySound, KillsSound, NEW k \in Killer, KillStep(k)
  PROVE  RegistrySound' /\ KillsSound'
<1>k. kill[k] \in Pulled /\ KillSound(kill[k]) BY DEF TypeOK, KillsSound
<1>1. ASSUME NEW t \in Task, Engage(k, t) PROVE RegistrySound' /\ KillsSound'
  <2>1. KillSound([Quiet EXCEPT !.pc = "stopped", !.task = t, !.state = ChampionColumn(flags)])
    BY DEF KillSound, Quiet
  <2> QED BY <2>1, <1>1, OneKill DEF Engage, RegistrySound
<1>2. CASE RollbackRead(k)
  <2> DEFINE c == GetChampion(kill[k].task)
             h == IF c = NoModel THEN Quiet
                  ELSE IF registry[c].from = NoModel THEN Quiet
                  ELSE [kill[k] EXCEPT !.pc = "found", !.to = registry[c].from]
  <2>1. kill' = [kill EXCEPT ![k] = h] BY <1>2 DEF RollbackRead
  <2>2. KillSound(h)
    <3>1. c # NoModel => registry[c].from \in Sound \cup {NoModel} BY ReadSound
    <3> HIDE DEF c
    <3> QED BY <3>1, <1>k, RestSound DEF Pulled, KillSound
  <2> HIDE DEF h
  <2> QED BY <2>1, <2>2, <1>2, OneKill DEF RollbackRead, RegistrySound
<1>3. CASE RollbackSet(k)
  <2>1. kill[k].to \in Sound BY <1>k, <1>3 DEF RollbackSet, KillSound
  <2>2. RegistrySound' BY <2>1, <1>3, CrowningSound DEF RollbackSet
  <2>3. KillSound([kill[k] EXCEPT !.pc = "restored"]) BY <2>1, <1>k DEF Pulled, KillSound
  <2> QED BY <2>2, <2>3, <1>3, OneKill DEF RollbackSet
<1>4. CASE RollbackSave(k) BY <1>4, RestSound, OneKill DEF RollbackSave, RegistrySound
<1>5. CASE EngageCrash(k) BY <1>5, RestSound, OneKill DEF EngageCrash, RegistrySound
<1> QED BY <1>1, <1>2, <1>3, <1>4, <1>5 DEF KillStep

LEMMA OperatorSound ==
  ASSUME TypeOK, RegistrySound, OperatorStep
  PROVE  RegistrySound'
<1>1. ASSUME NEW m \in Model, NEW t \in Task, Register(m, t) PROVE RegistrySound'
  <2> DEFINE after == [registry EXCEPT ![m].known = TRUE, ![m].task = t]
  <2>1. registry' = after BY <1>1 DEF Register
  <2>2. ASSUME NEW n \in Model
        PROVE  after[n].champ = registry[n].champ /\ after[n].from = registry[n].from
    BY DEF TypeOK, Row
  <2> HIDE DEF after
  <2> QED BY <2>1, <2>2 DEF RegistrySound
<1>2. CASE \/ \E breach \in BOOLEAN : ScanEndpoint(breach)
           \/ Release
           \/ \E promote, settle \in BOOLEAN : OptIn(promote, settle)
  BY <1>2 DEF ScanEndpoint, Release, OptIn, RegistrySound
<1> QED BY <1>1, <1>2 DEF OperatorStep

LEMMA CrashSound ==
  ASSUME TypeOK, RegistrySound, SessionsSound, NEW s \in Session, Crash(s)
  PROVE  RegistrySound' /\ SessionsSound'
BY RestSound, OneSession DEF Crash, RegistrySound

LEMMA InitSound == Init => IInv
<1> SUFFICES ASSUME Init PROVE RegistrySound /\ SessionsSound /\ KillsSound
  BY InitType DEF IInv
<1>1. RegistrySound BY SeedAssumption DEF Init, RegistrySound
<1>2. SessionsSound BY RestSound DEF Init, SessionsSound
<1>3. KillsSound BY RestSound DEF Init, KillsSound
<1> QED BY <1>1, <1>2, <1>3

LEMMA NextSound == IInv /\ [Next]_vars => IInv'
<1> SUFFICES ASSUME IInv, [Next]_vars PROVE RegistrySound' /\ SessionsSound' /\ KillsSound'
  BY NextType DEF IInv
<1> USE DEF IInv
<1>k. ASSUME UNCHANGED kill PROVE KillsSound' BY <1>k DEF KillsSound
<1>s. ASSUME UNCHANGED sess PROVE SessionsSound' BY <1>s DEF SessionsSound
<1>1. CASE UNCHANGED vars BY <1>1, <1>k, <1>s DEF vars, RegistrySound
<1>2. ASSUME NEW s \in Ticker, TickStep(s)
      PROVE  RegistrySound' /\ SessionsSound' /\ KillsSound'
  BY <1>2, <1>k, TickSound DEF TickStep, TickBegin, TickScan, TickEvaluate, TickEnd
<1>3. ASSUME NEW s \in Person, NEW m \in Model, NEW t \in Task, PersonAsks(s, m, t)
      PROVE  RegistrySound' /\ SessionsSound' /\ KillsSound'
  BY <1>3, <1>k, EvaluateSound DEF PersonAsks, Session
<1>8. ASSUME NEW s \in Trainer, NEW m \in Model, JobAsks(s, m)
      PROVE  RegistrySound' /\ SessionsSound' /\ KillsSound'
  <2>1. registry[m].task \in Task BY DEF TypeOK, Row
  <2> QED BY <2>1, <1>8, <1>k, EvaluateSound DEF JobAsks, Session
<1>4. ASSUME NEW s \in Session, PromoteStep(s)
      PROVE  RegistrySound' /\ SessionsSound' /\ KillsSound'
  BY <1>4, <1>k, PromoteSound DEF PromoteStep, Decide, Promote, LoseRace, SaveState
<1>5. ASSUME NEW s \in Session, Crash(s)
      PROVE  RegistrySound' /\ SessionsSound' /\ KillsSound'
  BY <1>5, <1>k, CrashSound DEF Crash
<1>6. ASSUME NEW k \in Killer, KillStep(k)
      PROVE  RegistrySound' /\ SessionsSound' /\ KillsSound'
  BY <1>6, <1>s, KillStepSound
     DEF KillStep, Engage, RollbackRead, RollbackSet, RollbackSave, EngageCrash
<1>7. CASE OperatorStep
  BY <1>7, <1>k, <1>s, OperatorSound DEF OperatorStep, Register, ScanEndpoint, Release, OptIn
<1> QED BY <1>1, <1>2, <1>3, <1>4, <1>5, <1>6, <1>7, <1>8 DEF Next, Session

\* No chain of promotions, rollbacks, crashes and lost races puts a model in office
\* that did not pass the gate's absolute conditions.
THEOREM ChampionSoundAlways == Spec => []ChampionSound
<1>1. Init => IInv BY InitSound
<1>2. IInv /\ [Next]_vars => IInv' BY NextSound
<1>3. IInv => ChampionSound BY DEF IInv, RegistrySound, ChampionSound
<1> QED BY <1>1, <1>2, <1>3, PTL DEF Spec

-------------------------------------------------------------------------------
(* No step but the operator's switches unattended promotion or settlement on.     *)

Rearms == (~flags.promote /\ flags'.promote) \/ (~flags.settle /\ flags'.settle)
NoMore(old, new) == (new.promote => old.promote) /\ (new.settle => old.settle)

\* A session that itself only switches off, switches nothing on, however stale.
LEMMA FlushNoMore ==
  ASSUME NEW row \in State, NEW loaded \in State, NEW current \in State,
         NoMore(loaded, current)
  PROVE  NoMore(row, Flush(row, loaded, current))
<1>1. /\ Flush(row, loaded, current).promote =
            IF current.promote # loaded.promote THEN current.promote ELSE row.promote
      /\ Flush(row, loaded, current).settle =
            IF current.settle # loaded.settle THEN current.settle ELSE row.settle
  BY DEF Flush, State
<1>2. /\ row.promote \in BOOLEAN /\ loaded.promote \in BOOLEAN /\ current.promote \in BOOLEAN
      /\ row.settle \in BOOLEAN /\ loaded.settle \in BOOLEAN /\ current.settle \in BOOLEAN
  BY DEF State
<1> QED BY <1>1, <1>2 DEF NoMore

LEMMA ChangesNoMore ==
  ASSUME NEW st \in State, NEW breach \in BOOLEAN, NEW m
  PROVE  /\ NoMore(st, AfterScan(st, breach))
         /\ NoMore(st, Engaged(st))
         /\ NoMore(st, Released(st))
         /\ NoMore(st, [st EXCEPT !.champion = m])
BY DEF State, NoMore, AfterScan, Paused, Resumed, Engaged, Released

THEOREM NeverRearmed == Spec => NeverSilentlyRearmed
<1>1. TypeOK /\ [Next]_vars =>
        [Rearms => \E promote, settle \in BOOLEAN : OptIn(promote, settle)]_vars
  <2> SUFFICES ASSUME TypeOK, Next, Rearms
               PROVE  \E promote, settle \in BOOLEAN : OptIn(promote, settle)
    OBVIOUS
  <2>f. flags \in State BY DEF TypeOK
  <2>1. ASSUME NEW s \in Ticker, TickStep(s) PROVE FALSE
    <3>1. flags' # flags BY DEF Rearms
    <3>2. PICK breach \in BOOLEAN : TickScan(s, breach)
      BY <2>1, <3>1 DEF TickStep, TickBegin, TickEvaluate, TickEnd
    <3>3. sess[s].state \in State BY DEF TypeOK, Held, Session
    <3>4. AfterScan(sess[s].state, breach) \in State BY <3>3, StateChanges
    <3>5. NoMore(flags, flags')
      BY <2>f, <3>2, <3>3, <3>4, ChangesNoMore, FlushNoMore DEF TickScan
    <3> QED BY <3>5 DEF Rearms, NoMore
  <2>2. ASSUME NEW s \in Session, NEW m \in Model, NEW t \in Task,
               PersonAsks(s, m, t)
        PROVE  FALSE
    BY <2>2 DEF PersonAsks, Rearms
  <2>3. ASSUME NEW s \in Session, PromoteStep(s) PROVE FALSE
    <3>1. flags' # flags BY DEF Rearms
    <3>2. SaveState(s) BY <2>3, <3>1 DEF PromoteStep, Decide, Promote, LoseRace
    <3> DEFINE new == [sess[s].state EXCEPT !.champion = sess[s].chal]
    <3>3. sess[s].state \in State BY DEF TypeOK, Held
    <3>4. new \in State BY <3>2, <3>3 DEF TypeOK, SaveState, Held, State, Maybe
    <3>5. NoMore(sess[s].state, new) BY <3>3, ChangesNoMore
    <3>6. flags' = Flush(flags, sess[s].state, new) BY <3>2 DEF SaveState
    <3> HIDE DEF new
    <3>7. NoMore(flags, flags') BY <2>f, <3>3, <3>4, <3>5, <3>6, FlushNoMore
    <3> QED BY <3>7 DEF Rearms, NoMore
  <2>4. ASSUME NEW s \in Session, Crash(s) PROVE FALSE BY <2>4 DEF Crash, Rearms
  <2>5. ASSUME NEW k \in Killer, KillStep(k) PROVE FALSE
    <3>1. flags' # flags BY DEF Rearms
    <3>2. CASE \E t \in Task : Engage(k, t)
      BY <3>2, <2>f, ChangesNoMore DEF Engage, Rearms, NoMore
    <3>3. CASE RollbackSave(k)
      <4> DEFINE new == [kill[k].state EXCEPT !.champion = kill[k].to]
      <4>1. kill[k].state \in State BY DEF TypeOK, Pulled
      <4>2. new \in State BY <3>3, <4>1 DEF TypeOK, RollbackSave, Pulled, State, Maybe
      <4>3. NoMore(kill[k].state, new) BY <4>1, ChangesNoMore
      <4>4. flags' = Flush(flags, kill[k].state, new) BY <3>3 DEF RollbackSave
      <4> HIDE DEF new
      <4>5. NoMore(flags, flags') BY <2>f, <4>1, <4>2, <4>3, <4>4, FlushNoMore
      <4> QED BY <4>5 DEF Rearms, NoMore
    <3> QED BY <2>5, <3>1, <3>2, <3>3 DEF KillStep, RollbackRead, RollbackSet, EngageCrash
  <2>6. CASE OperatorStep
    <3>1. ASSUME NEW m \in Model, NEW t \in Task, Register(m, t) PROVE FALSE
      BY <3>1 DEF Register, Rearms
    <3>2. ASSUME NEW breach \in BOOLEAN, ScanEndpoint(breach) PROVE FALSE
      BY <3>2, <2>f, ChangesNoMore DEF ScanEndpoint, Rearms, NoMore
    <3>3. CASE Release BY <3>3, <2>f, ChangesNoMore DEF Release, Rearms, NoMore
    <3> QED BY <2>6, <3>1, <3>2, <3>3 DEF OperatorStep
  <2>7. ASSUME NEW s \in Trainer, NEW m \in Model, JobAsks(s, m) PROVE FALSE
    BY <2>7 DEF JobAsks, Rearms
  <2> QED BY <2>1, <2>2, <2>3, <2>4, <2>5, <2>6, <2>7 DEF Next, Session
<1>2. Spec => []TypeOK BY TypeCorrect
<1>3. NeverSilentlyRearmed <=>
        [][Rearms => \E promote, settle \in BOOLEAN : OptIn(promote, settle)]_vars
  BY DEF NeverSilentlyRearmed, Rearms
<1> QED BY <1>1, <1>2, <1>3, PTL DEF Spec

-------------------------------------------------------------------------------
(* Requests that name a model's own task: a champion is replaced, never lost.     *)

OwnNames == \A m \in Model : MayName[m] \subseteq {Home[m]}

\* A session about to crown, and a rollback about to restore.
Asked(h) == h.pc \in {"scored", "cleared"}
Found(h) == h.pc = "found"

\* A model that the registry has, and of this task.
Ours(m, t) == registry[m].known /\ Home[m] = t

\* Whatever is crowned is a registered model of the task it is crowned for.
ModelsOurs ==
  \A m \in Model : /\ registry[m].task = Home[m] /\ (registry[m].champ => registry[m].known)
                   /\ registry[m].from # NoModel => Ours(registry[m].from, Home[m])
SessionsOurs ==
  \A s \in Session :
    /\ \A m \in sess[s].todo : registry[m].known
    /\ Asked(sess[s]) => /\ Ours(sess[s].chal, sess[s].task)
                         /\ sess[s].champ # NoModel => Ours(sess[s].champ, sess[s].task)
KillsOurs == \A k \in Killer : Found(kill[k]) => Ours(kill[k].to, kill[k].task)

OursInv == ModelsOurs /\ SessionsOurs /\ KillsOurs

\* A step that crowns nobody, and starts nothing that would.
Calm ==
  /\ \A m \in Model : /\ registry'[m].task = registry[m].task /\ registry'[m].champ = registry[m].champ
                      /\ registry'[m].from = registry[m].from
                      /\ registry[m].known => registry'[m].known
  /\ \A s \in Session : /\ \A m \in sess'[s].todo : registry[m].known
                        /\ Asked(sess'[s]) => sess'[s] = sess[s]
  /\ \A k \in Killer : Found(kill'[k]) => kill'[k] = kill[k]

\* The others: a challenger is scored, is cleared, is crowned; a rollback finds its model, and
\* crowns it.
Scores(s, m) ==
  /\ registry[m].known /\ UNCHANGED <<registry, kill>>
  /\ sess' = [sess EXCEPT ![s] = [sess[s] EXCEPT !.pc = "scored", !.todo = sess[s].todo \ {m},
                !.chal = m, !.task = Home[m], !.champ = GetChampion(Home[m])]]
Clears(s) ==
  /\ sess[s].pc = "scored" /\ Gate(sess[s].chal, sess[s].champ) /\ UNCHANGED <<registry, kill>>
  /\ \E st : sess' = [sess EXCEPT ![s] = [sess[s] EXCEPT !.pc = "cleared", !.state = st]]
Finds(k) ==
  LET c == GetChampion(kill[k].task) IN
  /\ c \in Champions(kill[k].task) /\ registry[c].from # NoModel /\ UNCHANGED <<registry, sess>>
  /\ kill' = [kill EXCEPT ![k] = [kill[k] EXCEPT !.pc = "found", !.to = registry[c].from]]

LEMMA CalmRest ==
  ASSUME TypeOK, SessionsOurs, NEW s \in Session, NEW h, ~Asked(h), \A m \in h.todo : registry[m].known,
         sess' = [sess EXCEPT ![s] = h], UNCHANGED <<registry, kill>>
  PROVE  Calm
<1>1. \A q \in Session : sess'[q] = IF q = s THEN h ELSE sess[q] BY DEF TypeOK
<1> QED BY <1>1 DEF Calm, SessionsOurs

LEMMA CalmKill ==
  ASSUME TypeOK, SessionsOurs, NEW k \in Killer, NEW h, ~Found(h), kill' = [kill EXCEPT ![k] = h],
         UNCHANGED <<registry, sess>>
  PROVE  Calm
<1>1. \A j \in Killer : kill'[j] = IF j = k THEN h ELSE kill[j] BY DEF TypeOK
<1> QED BY <1>1 DEF Calm, SessionsOurs

LEMMA CalmTick ==
  ASSUME TypeOK, OursInv, NEW s \in Ticker, TickStep(s)
  PROVE  Calm \/ \E m \in Model : Scores(s, m)
<1> s \in Session BY DEF Session
<1>t. sess[s] \in Held /\ SessionsOurs BY DEF TypeOK, OursInv
<1>1. CASE TickBegin(s)
  <2> DEFINE h == [Idle EXCEPT !.pc = "scan", !.state = flags]
  <2>1. ~Asked(h) /\ h.todo = {} BY DEF Asked, Idle
  <2>2. sess' = [sess EXCEPT ![s] = h] /\ UNCHANGED <<registry, kill>> BY <1>1 DEF TickBegin
  <2> HIDE DEF h
  <2> QED BY <1>t, <2>1, <2>2, CalmRest
<1>2. ASSUME NEW breach \in BOOLEAN, TickScan(s, breach) PROVE Calm
  <2> DEFINE new == AfterScan(sess[s].state, breach)
             listed == {m \in Model : registry[m].known /\ ~registry[m].champ}
             h == [sess[s] EXCEPT !.pc = "pick", !.state = new, !.todo = listed]
  <2>1. sess' = [sess EXCEPT ![s] = h] /\ UNCHANGED <<registry, kill>> BY <1>2 DEF TickScan
  <2>2. \A m \in listed : registry[m].known OBVIOUS
  <2> HIDE DEF new, listed
  <2>3. ~Asked(h) /\ h.todo = listed BY <1>t DEF Asked, Held
  <2> HIDE DEF h
  <2> QED BY <1>t, <2>1, <2>2, <2>3, CalmRest
<1>3. ASSUME NEW m \in Model, TickEvaluate(s, m) PROVE Scores(s, m)
  <2>1. registry[m].task = Home[m] BY DEF OursInv, ModelsOurs
  <2>2. registry[m].known BY <1>3, <1>t DEF TickEvaluate, SessionsOurs
  <2> QED BY <1>3, <2>1, <2>2 DEF TickEvaluate, Evaluate, Scores
<1>4. CASE TickEnd(s)
  <2>1. ~Asked(Idle) /\ Idle.todo = {} BY DEF Asked, Idle
  <2> QED BY <1>4, <1>t, <2>1, CalmRest DEF TickEnd
<1> QED BY <1>1, <1>2, <1>3, <1>4 DEF TickStep

LEMMA CalmPromote ==
  ASSUME TypeOK, OursInv, NEW s \in Session, PromoteStep(s)
  PROVE  Calm \/ Clears(s) \/ Promote(s)
<1>t. sess[s] \in Held /\ SessionsOurs BY DEF TypeOK, OursInv
<1>1. ASSUME NEW st PROVE ~Asked(AfterOne(s, st)) /\ \A m \in AfterOne(s, st).todo : registry[m].known
  BY <1>t DEF AfterOne, Asked, Idle, SessionsOurs
<1>2. CASE Decide(s)
  <2> DEFINE pass == Gate(sess[s].chal, sess[s].champ) /\ MayPromote(s)
             st == Loaded(s)
             back == AfterOne(s, sess[s].state)
  <2>1. sess' = [sess EXCEPT ![s] = IF pass THEN [sess[s] EXCEPT !.pc = "cleared", !.state = st] ELSE back]
        /\ UNCHANGED <<registry, kill>> /\ sess[s].pc = "scored"
    BY <1>2 DEF Decide
  <2>2. CASE pass
    <3>1. Gate(sess[s].chal, sess[s].champ) BY <2>2
    <3> HIDE DEF st, pass
    <3> QED BY <2>1, <2>2, <3>1 DEF Clears
  <2>3. CASE ~pass
    <3>1. ~Asked(back) /\ \A m \in back.todo : registry[m].known BY <1>1
    <3> HIDE DEF pass, back
    <3>2. sess' = [sess EXCEPT ![s] = back] BY <2>1, <2>3
    <3> QED BY <1>t, <2>1, <3>1, <3>2, CalmRest
  <2> QED BY <2>2, <2>3
<1>3. CASE LoseRace(s)
  <2>1. ~Asked(Idle) /\ Idle.todo = {} BY DEF Asked, Idle
  <2> QED BY <1>3, <1>t, <2>1, CalmRest DEF LoseRace
<1>4. CASE SaveState(s)
  <2> DEFINE back == AfterOne(s, [sess[s].state EXCEPT !.champion = sess[s].chal])
  <2>1. ~Asked(back) /\ \A m \in back.todo : registry[m].known BY <1>1
  <2>2. sess' = [sess EXCEPT ![s] = back] /\ UNCHANGED <<registry, kill>> BY <1>4 DEF SaveState
  <2> HIDE DEF back
  <2> QED BY <1>t, <2>1, <2>2, CalmRest
<1> QED BY <1>2, <1>3, <1>4 DEF PromoteStep

LEMMA CalmRollback ==
  ASSUME TypeOK, OursInv, NEW k \in Killer, KillStep(k)
  PROVE  Calm \/ Finds(k) \/ RollbackSet(k)
<1>t. kill[k] \in Pulled /\ SessionsOurs BY DEF TypeOK, OursInv
<1>q. ~Found(Quiet) BY DEF Found, Quiet
<1>1. ASSUME NEW t \in Task, Engage(k, t) PROVE Calm
  <2> DEFINE h == [Quiet EXCEPT !.pc = "stopped", !.task = t, !.state = ChampionColumn(flags)]
  <2>1. kill' = [kill EXCEPT ![k] = h] /\ UNCHANGED <<registry, sess>> BY <1>1 DEF Engage
  <2>2. ~Found(h) BY DEF Found, Quiet
  <2> HIDE DEF h
  <2> QED BY <1>t, <2>1, <2>2, CalmKill
<1>2. CASE RollbackRead(k)
  <2> DEFINE c == GetChampion(kill[k].task)
  <2>1. kill' = [kill EXCEPT ![k] =
                   IF c = NoModel THEN Quiet
                   ELSE IF registry[c].from = NoModel THEN Quiet
                   ELSE [kill[k] EXCEPT !.pc = "found", !.to = registry[c].from]]
        /\ UNCHANGED <<registry, sess>>
    BY <1>2 DEF RollbackRead
  <2>2. c # NoModel => c \in Champions(kill[k].task) BY GetChampionMember
  <2>3. CASE c = NoModel \/ registry[c].from = NoModel
    <3> HIDE DEF c
    <3>1. kill' = [kill EXCEPT ![k] = Quiet] BY <2>1, <2>3
    <3> QED BY <1>t, <1>q, <2>1, <3>1, CalmKill
  <2>4. CASE c # NoModel /\ registry[c].from # NoModel
    <3> HIDE DEF c
    <3>1. kill' = [kill EXCEPT ![k] = [kill[k] EXCEPT !.pc = "found", !.to = registry[c].from]]
      BY <2>1, <2>4
    <3> QED BY <2>1, <2>2, <2>4, <3>1 DEF Finds, c
  <2> QED BY <2>3, <2>4
<1>3. CASE RollbackSave(k) BY <1>3, <1>t, <1>q, CalmKill DEF RollbackSave
<1>4. CASE EngageCrash(k) BY <1>4, <1>t, <1>q, CalmKill DEF EngageCrash
<1> QED BY <1>1, <1>2, <1>3, <1>4 DEF KillStep

LEMMA CalmOperator ==
  ASSUME OwnNames, TypeOK, OursInv, OperatorStep
  PROVE  Calm
<1>t. SessionsOurs BY DEF OursInv
<1>1. ASSUME NEW m \in Model, NEW t \in Task, Register(m, t) PROVE Calm
  <2> DEFINE after == [registry EXCEPT ![m].known = TRUE, ![m].task = t]
  <2>1. registry' = after /\ t = registry[m].task /\ UNCHANGED <<sess, kill>>
    BY <1>1 DEF Register, OwnNames, OursInv, ModelsOurs
  <2>2. ASSUME NEW n \in Model
        PROVE  /\ after[n].task = registry[n].task /\ after[n].champ = registry[n].champ
               /\ after[n].from = registry[n].from
               /\ registry[n].known => after[n].known
    BY <2>1 DEF TypeOK, Row
  <2> HIDE DEF after
  <2>3. \A n \in Model : /\ registry'[n].task = registry[n].task /\ registry'[n].champ = registry[n].champ
                         /\ registry'[n].from = registry[n].from
                         /\ registry[n].known => registry'[n].known
    BY <2>1, <2>2
  <2>4. \A s \in Session : \A n \in sess'[s].todo : registry[n].known BY <1>t, <2>1 DEF SessionsOurs
  <2> QED BY <2>1, <2>3, <2>4 DEF Calm
<1>2. CASE \/ \E breach \in BOOLEAN : ScanEndpoint(breach)
           \/ Release
           \/ \E promote, settle \in BOOLEAN : OptIn(promote, settle)
  BY <1>2, <1>t DEF ScanEndpoint, Release, OptIn, Calm, SessionsOurs
<1> QED BY <1>1, <1>2 DEF OperatorStep

\* What each step does, as far as crowns go.
LEMMA Steps ==
  ASSUME OwnNames, TypeOK, OursInv, [Next]_vars
  PROVE  \/ Calm
         \/ \E s \in Session, m \in Model : Scores(s, m)
         \/ \E s \in Session : Clears(s) \/ Promote(s)
         \/ \E k \in Killer : Finds(k) \/ RollbackSet(k)
<1>t. SessionsOurs BY DEF OursInv
<1>1. CASE UNCHANGED vars BY <1>1, <1>t DEF vars, Calm, SessionsOurs
<1>2. ASSUME NEW s \in Ticker, TickStep(s) PROVE Calm \/ \E q \in Session, m \in Model : Scores(q, m)
  BY <1>2, CalmTick DEF Session
<1>3. ASSUME NEW s \in Person, NEW m \in Model, NEW t \in Task, PersonAsks(s, m, t)
      PROVE  \E q \in Session : Scores(q, m)
  <2>1. t = Home[m] BY <1>3 DEF PersonAsks, OwnNames
  <2> QED BY <1>3, <2>1 DEF PersonAsks, Evaluate, Scores, Session
<1>4. ASSUME NEW s \in Trainer, NEW m \in Model, JobAsks(s, m) PROVE \E q \in Session : Scores(q, m)
  <2>1. registry[m].task = Home[m] BY DEF OursInv, ModelsOurs
  <2> QED BY <1>4, <2>1 DEF JobAsks, Evaluate, Scores, Session
<1>5. ASSUME NEW s \in Session, PromoteStep(s) PROVE Calm \/ Clears(s) \/ Promote(s)
  BY <1>5, CalmPromote
<1>6. ASSUME NEW s \in Session, Crash(s) PROVE Calm
  <2>1. ~Asked(Idle) /\ Idle.todo = {} BY DEF Asked, Idle
  <2> QED BY <1>6, <1>t, <2>1, CalmRest DEF Crash
<1>7. ASSUME NEW k \in Killer, KillStep(k) PROVE Calm \/ Finds(k) \/ RollbackSet(k)
  BY <1>7, CalmRollback
<1>8. CASE OperatorStep BY <1>8, CalmOperator
<1> QED BY <1>1, <1>2, <1>3, <1>4, <1>5, <1>6, <1>7, <1>8 DEF Next

\* What crowning one of ours does to the champions.
LEMMA CrownedFacts ==
  ASSUME TypeOK, ModelsOurs, NEW m \in Model, NEW t, Ours(m, t), NEW prev \in Maybe,
         registry' = Crowned(m, t, prev)
  PROVE  /\ \A n \in Model : /\ registry'[n].known = registry[n].known
                             /\ registry'[n].task = registry[n].task
                             /\ registry'[n].champ <=> n = m \/ (Home[n] # t /\ registry[n].champ)
                             /\ registry'[n].from = IF n = m THEN prev ELSE registry[n].from
         /\ Champions(t)' = {m} /\ \A u : u # t => Champions(u)' = Champions(u)
<1>1. registry[m].known /\ Home[m] = t /\ \A n \in Model : registry[n].task = Home[n]
  BY DEF Ours, ModelsOurs
<1>2. ASSUME NEW n \in Model
      PROVE  /\ registry'[n].known = registry[n].known /\ registry'[n].task = registry[n].task
             /\ registry'[n].champ <=> n = m \/ (Home[n] # t /\ registry[n].champ)
             /\ registry'[n].from = IF n = m THEN prev ELSE registry[n].from
  <2>1. registry[n] \in Row /\ registry[m] \in Row BY DEF TypeOK
  <2>2. CASE n = m
    <3>1. registry'[n] = [registry[m] EXCEPT !.champ = TRUE, !.from = prev] BY <1>1, <2>2 DEF Crowned
    <3> QED BY <2>1, <2>2, <3>1 DEF Row
  <2>3. CASE n # m /\ Home[n] = t
    <3>1. registry'[n] = [registry[n] EXCEPT !.champ = FALSE] BY <1>1, <2>3 DEF Crowned
    <3> QED BY <2>1, <2>3, <3>1 DEF Row
  <2>4. CASE n # m /\ Home[n] # t
    <3>1. registry'[n] = registry[n] BY <1>1, <2>4 DEF Crowned
    <3> QED BY <2>4, <3>1
  <2> QED BY <2>2, <2>3, <2>4
<1>3. Champions(t)' = {m} BY <1>1, <1>2 DEF Champions
<1>4. \A u : u # t => Champions(u)' = Champions(u) BY <1>1, <1>2 DEF Champions
<1> QED BY <1>2, <1>3, <1>4

\* A challenger that is crowned, and a model that is restored, are ours.
LEMMA CrownedOurs ==
  ASSUME TypeOK, OursInv
  PROVE  /\ \A s \in Session : Promote(s) =>
              /\ Ours(sess[s].chal, sess[s].task) /\ sess[s].chal \in Model /\ sess[s].champ \in Maybe
              /\ registry' = Crowned(sess[s].chal, sess[s].task, sess[s].champ)
         /\ \A k \in Killer : RollbackSet(k) =>
              /\ Ours(kill[k].to, kill[k].task) /\ kill[k].to \in Model
              /\ registry' = Crowned(kill[k].to, kill[k].task, NoModel)
<1>1. ASSUME NEW s \in Session, Promote(s)
      PROVE  /\ Ours(sess[s].chal, sess[s].task) /\ sess[s].chal \in Model /\ sess[s].champ \in Maybe
             /\ registry' = Crowned(sess[s].chal, sess[s].task, sess[s].champ)
  <2>1. Asked(sess[s]) /\ sess[s] \in Held BY <1>1 DEF Promote, Asked, TypeOK
  <2> QED BY <1>1, <2>1 DEF Promote, SetChampion, OursInv, SessionsOurs, Held, Asked
<1>2. ASSUME NEW k \in Killer, RollbackSet(k)
      PROVE  /\ Ours(kill[k].to, kill[k].task) /\ kill[k].to \in Model
             /\ registry' = Crowned(kill[k].to, kill[k].task, NoModel)
  <2>1. Found(kill[k]) /\ kill[k] \in Pulled BY <1>2 DEF RollbackSet, Found, TypeOK
  <2> QED BY <1>2, <2>1 DEF RollbackSet, SetChampion, OursInv, KillsOurs, Pulled, Found
<1> QED BY <1>1, <1>2

LEMMA OursStep ==
  ASSUME OwnNames, TypeOK, OursInv, [Next]_vars
  PROVE  OursInv'
<1>0. ModelsOurs /\ SessionsOurs /\ KillsOurs BY DEF OursInv
\* The registry has what it had, and the models are of the tasks they were of.
<1>1. ASSUME \A m \in Model : registry[m].known => registry'[m].known
      PROVE  \A m \in Model : \A t : Ours(m, t) => Ours(m, t)'
  BY <1>1 DEF Ours
<1>m. /\ \A m \in Model : registry[m].from \in Maybe
      /\ \A s \in Session : /\ sess[s].todo \subseteq Model
                            /\ Asked(sess[s]) => sess[s].chal \in Model /\ sess[s].champ \in Maybe
      /\ \A k \in Killer : Found(kill[k]) => kill[k].to \in Model
  BY DEF TypeOK, Row, Held, Pulled, Asked, Found
<1>2. CASE Calm
  <2>1. \A m \in Model : \A t : Ours(m, t) => Ours(m, t)' BY <1>1, <1>2 DEF Calm
  <2>2. ModelsOurs' BY <1>0, <1>2, <1>m, <2>1 DEF Calm, ModelsOurs, Maybe, Ours
  <2>3. SessionsOurs'
    <3>1. ASSUME NEW s \in Session PROVE \A m \in sess'[s].todo : registry'[m].known
      <4>1. sess'[s].todo \subseteq Model
        <5>1. TypeOK' BY NextType
        <5> QED BY <5>1 DEF TypeOK, Held
      <4> QED BY <1>2, <4>1 DEF Calm
    <3>2. ASSUME NEW s \in Session, Asked(sess'[s])
          PROVE  /\ registry'[sess'[s].chal].known /\ Home[sess'[s].chal] = sess'[s].task
                 /\ sess'[s].champ # NoModel => /\ registry'[sess'[s].champ].known
                                                /\ Home[sess'[s].champ] = sess'[s].task
      <4>1. sess'[s] = sess[s] BY <1>2, <3>2 DEF Calm
      <4>2. /\ Ours(sess[s].chal, sess[s].task) /\ sess[s].chal \in Model /\ sess[s].champ \in Maybe
            /\ sess[s].champ # NoModel => Ours(sess[s].champ, sess[s].task)
        BY <1>0, <1>m, <3>2, <4>1 DEF SessionsOurs
      <4>3. \A m \in Model : registry[m].known => registry'[m].known BY <1>2 DEF Calm
      <4> QED BY <4>1, <4>2, <4>3 DEF Ours, Maybe
    <3> QED BY <3>1, <3>2 DEF SessionsOurs, Ours
  <2>4. KillsOurs' BY <1>0, <1>2, <1>m DEF Calm, KillsOurs, Ours
  <2> QED BY <2>2, <2>3, <2>4 DEF OursInv
<1>3. ASSUME NEW s \in Session, NEW m \in Model, Scores(s, m) PROVE OursInv'
  <2> DEFINE c == GetChampion(Home[m])
             h == [sess[s] EXCEPT !.pc = "scored", !.todo = sess[s].todo \ {m}, !.chal = m,
                                  !.task = Home[m], !.champ = c]
  <2>1. registry[m].known /\ UNCHANGED <<registry, kill>> /\ sess' = [sess EXCEPT ![s] = h]
    BY <1>3 DEF Scores
  <2>2. c # NoModel => Ours(c, Home[m]) BY <1>0, GetChampionMember DEF Champions, ModelsOurs, Ours
  <2>3. sess[s] \in Held BY DEF TypeOK
  <2> HIDE DEF c
  <2>4. h.chal = m /\ h.task = Home[m] /\ h.champ = c /\ h.todo = sess[s].todo \ {m}
    BY <2>3 DEF Held
  <2> HIDE DEF h
  <2>5. \A q \in Session : sess'[q] = IF q = s THEN h ELSE sess[q] BY <2>1 DEF TypeOK
  <2>6. Ours(m, Home[m]) BY <2>1 DEF Ours
  <2>7. \A q \in Session :
          /\ \A n \in sess'[q].todo : registry[n].known
          /\ Asked(sess'[q]) => /\ Ours(sess'[q].chal, sess'[q].task)
                                /\ sess'[q].champ # NoModel => Ours(sess'[q].champ, sess'[q].task)
    BY <1>0, <2>2, <2>4, <2>5, <2>6 DEF SessionsOurs
  <2> QED BY <1>0, <2>1, <2>7 DEF OursInv, ModelsOurs, SessionsOurs, KillsOurs, Ours
<1>4. ASSUME NEW s \in Session, Clears(s) PROVE OursInv'
  <2>1. PICK st : sess' = [sess EXCEPT ![s] = [sess[s] EXCEPT !.pc = "cleared", !.state = st]]
    BY <1>4 DEF Clears
  <2>2. UNCHANGED <<registry, kill>> /\ Asked(sess[s]) BY <1>4 DEF Clears, Asked
  <2>3. sess[s] \in Held BY DEF TypeOK
  <2>4. \A q \in Session : /\ sess'[q].chal = sess[q].chal /\ sess'[q].task = sess[q].task
                           /\ sess'[q].champ = sess[q].champ /\ sess'[q].todo = sess[q].todo
                           /\ Asked(sess'[q]) => Asked(sess[q])
    BY <2>1, <2>2, <2>3 DEF TypeOK, Held
  <2> QED BY <1>0, <2>2, <2>4 DEF OursInv, ModelsOurs, SessionsOurs, KillsOurs, Ours
\* A crown: what the registry knows, and where a model came from, are ours.
<1>5. ASSUME NEW m \in Model, NEW t, Ours(m, t), NEW prev \in Maybe, registry' = Crowned(m, t, prev),
             prev # NoModel => Ours(prev, t)
      PROVE  ModelsOurs' /\ \A n \in Model : registry'[n].known = registry[n].known
  <2>1. \A n \in Model : /\ registry'[n].known = registry[n].known
                         /\ registry'[n].task = registry[n].task
                         /\ registry'[n].champ <=> n = m \/ (Home[n] # t /\ registry[n].champ)
                         /\ registry'[n].from = IF n = m THEN prev ELSE registry[n].from
    BY <1>0, <1>5, CrownedFacts
  <2>2. registry[m].known /\ Home[m] = t BY <1>5 DEF Ours
  <2> QED BY <1>0, <1>5, <1>m, <2>1, <2>2 DEF ModelsOurs, Ours, Maybe
<1>6. ASSUME NEW s \in Session, Promote(s) PROVE OursInv'
  <2>1. /\ Ours(sess[s].chal, sess[s].task) /\ sess[s].chal \in Model /\ sess[s].champ \in Maybe
        /\ registry' = Crowned(sess[s].chal, sess[s].task, sess[s].champ)
    BY <1>6, CrownedOurs
  <2>2. sess[s].champ # NoModel => Ours(sess[s].champ, sess[s].task)
    BY <1>0, <1>6 DEF SessionsOurs, Promote, Asked
  <2>3. ModelsOurs' /\ \A n \in Model : registry'[n].known = registry[n].known
    BY <1>5, <2>1, <2>2
  <2>4. UNCHANGED <<flags, kill>> /\ sess' = [sess EXCEPT ![s] = [sess[s] EXCEPT !.pc = "championed"]]
    BY <1>6 DEF Promote
  <2>5. sess[s] \in Held BY DEF TypeOK
  <2>6. \A q \in Session : /\ sess'[q].todo = sess[q].todo
                           /\ Asked(sess'[q]) => sess'[q] = sess[q]
    BY <2>4, <2>5 DEF TypeOK, Held, Asked
  <2>7. \A n \in Model : \A t : Ours(n, t)' <=> Ours(n, t) BY <2>3 DEF Ours
  <2>8. SessionsOurs'
    <3>1. ASSUME NEW q \in Session PROVE \A n \in sess'[q].todo : registry'[n].known
      BY <1>0, <1>m, <2>3, <2>6 DEF SessionsOurs
    <3>2. ASSUME NEW q \in Session, Asked(sess'[q])
          PROVE  /\ registry'[sess'[q].chal].known /\ Home[sess'[q].chal] = sess'[q].task
                 /\ sess'[q].champ # NoModel => /\ registry'[sess'[q].champ].known
                                                /\ Home[sess'[q].champ] = sess'[q].task
      <4>1. sess'[q] = sess[q] BY <2>6, <3>2
      <4>2. /\ Ours(sess[q].chal, sess[q].task) /\ sess[q].chal \in Model /\ sess[q].champ \in Maybe
            /\ sess[q].champ # NoModel => Ours(sess[q].champ, sess[q].task)
        BY <1>0, <1>m, <3>2, <4>1 DEF SessionsOurs
      <4> QED BY <2>3, <4>1, <4>2 DEF Ours, Maybe
    <3> QED BY <3>1, <3>2 DEF SessionsOurs, Ours
  <2>9. KillsOurs' BY <1>0, <1>m, <2>3, <2>4 DEF KillsOurs, Ours
  <2> QED BY <2>3, <2>8, <2>9 DEF OursInv
<1>7. ASSUME NEW k \in Killer, Finds(k) PROVE OursInv'
  <2> DEFINE c == GetChampion(kill[k].task)
             to == registry[c].from
             h == [kill[k] EXCEPT !.pc = "found", !.to = to]
  <2>1. c \in Champions(kill[k].task) /\ to # NoModel /\ UNCHANGED <<registry, sess>>
        /\ kill' = [kill EXCEPT ![k] = h]
    BY <1>7 DEF Finds
  <2> HIDE DEF c
  <2>2. c \in Model /\ Home[c] = kill[k].task BY <1>0, <2>1 DEF Champions, ModelsOurs
  <2>3. Ours(to, kill[k].task) BY <1>0, <2>1, <2>2 DEF ModelsOurs
  <2> HIDE DEF to
  <2>4. h.to = to /\ h.task = kill[k].task BY DEF TypeOK, Pulled
  <2> HIDE DEF h
  <2>5. \A j \in Killer : kill'[j] = IF j = k THEN h ELSE kill[j] BY <2>1 DEF TypeOK
  <2> QED BY <1>0, <2>1, <2>3, <2>4, <2>5 DEF OursInv, ModelsOurs, SessionsOurs, KillsOurs, Ours
<1>8. ASSUME NEW k \in Killer, RollbackSet(k) PROVE OursInv'
  <2>1. /\ Ours(kill[k].to, kill[k].task) /\ kill[k].to \in Model
        /\ registry' = Crowned(kill[k].to, kill[k].task, NoModel)
    BY <1>8, CrownedOurs
  <2>2. ModelsOurs' /\ \A n \in Model : registry'[n].known = registry[n].known
    BY <1>5, <2>1 DEF Maybe
  <2>3. UNCHANGED <<flags, sess>> /\ kill' = [kill EXCEPT ![k] = [kill[k] EXCEPT !.pc = "restored"]]
    BY <1>8 DEF RollbackSet
  <2>4. \A j \in Killer : Found(kill'[j]) => kill'[j] = kill[j]
    BY <2>3 DEF TypeOK, Pulled, Found
  <2>5. SessionsOurs' BY <1>0, <1>m, <2>2, <2>3 DEF SessionsOurs, Ours, Maybe
  <2>6. KillsOurs' BY <1>0, <1>m, <2>2, <2>4 DEF KillsOurs, Ours
  <2> QED BY <2>2, <2>5, <2>6 DEF OursInv
<1> QED BY <1>2, <1>3, <1>4, <1>6, <1>7, <1>8, Steps

LEMMA OursInit == Init => OursInv
<1> SUFFICES ASSUME Init PROVE OursInv OBVIOUS
<1>1. ModelsOurs BY DEF Init, ModelsOurs
<1>2. SessionsOurs BY DEF Init, SessionsOurs, Asked, Idle
<1>3. KillsOurs BY DEF Init, KillsOurs, Found, Quiet
<1> QED BY <1>1, <1>2, <1>3 DEF OursInv

\* A step that crowns nobody leaves every task's champions.
LEMMA ChampionsKept ==
  ASSUME \A m \in Model : registry'[m].task = registry[m].task /\ registry'[m].champ = registry[m].champ
  PROVE  \A t : Champions(t)' = Champions(t)
BY DEF Champions

\* A task with a champion is never left without one, by whichever promotions, rollbacks and
\* registrations meet, crashes included (registry.py:set_champion), as long as requests name
\* a model's own task.
THEOREM ChampionNotLostAlways == ASSUME OwnNames PROVE Spec => ChampionNotLost
<1> DEFINE Inv == TypeOK /\ OursInv
           Kept == \A t \in Task : Champions(t) # {} => Champions(t)' # {}
<1>1. Init => Inv BY InitType, OursInit
<1>2. Inv /\ [Next]_vars => Inv' BY NextType, OursStep
<1>3. Inv /\ [Next]_vars => [Kept]_vars
  <2> SUFFICES ASSUME TypeOK, OursInv, [Next]_vars PROVE Kept OBVIOUS
  <2>0. ModelsOurs BY DEF OursInv
  <2>1. CASE Calm \/ UNCHANGED registry
    <3>1. \A t : Champions(t)' = Champions(t) BY <2>1, ChampionsKept DEF Calm
    <3> QED BY <3>1
  <2>2. ASSUME NEW m \in Model, NEW t, NEW prev \in Maybe, Ours(m, t), registry' = Crowned(m, t, prev)
        PROVE  Kept
    <3>1. Champions(t)' = {m} /\ \A u : u # t => Champions(u)' = Champions(u)
      BY <2>0, <2>2, CrownedFacts
    <3> QED BY <3>1
  <2>3. ASSUME NEW s \in Session, Promote(s) PROVE Kept BY <2>2, <2>3, CrownedOurs
  <2>4. ASSUME NEW k \in Killer, RollbackSet(k) PROVE Kept BY <2>2, <2>4, CrownedOurs DEF Maybe
  <2> QED BY <2>1, <2>3, <2>4, Steps DEF Scores, Clears, Finds
<1>4. ChampionNotLost <=> [][Kept]_vars BY DEF ChampionNotLost
<1> HIDE DEF Inv, Kept
<1> QED BY <1>1, <1>2, <1>3, <1>4, PTL DEF Spec

-------------------------------------------------------------------------------
(* One request and one rollback at a time: a promotion replaces what it beat.     *)

OneRequester == \A s, q \in Session : s = q
OneRollback == \A k, j \in Killer : k = j

\* A model came into office by beating the one it remembers.
PastBeaten == \A m \in Model : registry[m].from # NoModel => Score[m] > Score[registry[m].from]

\* No champion of the task is better than the one the session read; a cleared challenger is.
Measured(h) ==
  Asked(h) => /\ \A c \in Champions(h.task) : h.champ # NoModel /\ Score[c] <= Score[h.champ]
              /\ (h.pc = "cleared" /\ h.champ # NoModel) => Score[h.chal] > Score[h.champ]
SessionsMeasured == \A s \in Session : Measured(sess[s])

\* What a rollback is about to restore is worse than what serves, and than what a session read.
Weaker(to, t) ==
  /\ Champions(t) # {}
  /\ \A c \in Champions(t) : Score[c] > Score[to]
  /\ \A s \in Session : Asked(sess[s]) /\ sess[s].task = t =>
       sess[s].champ # NoModel /\ Score[sess[s].champ] > Score[to]
KillsWeaker == \A k \in Killer : Found(kill[k]) => Weaker(kill[k].to, kill[k].task)

BeatInv == PastBeaten /\ SessionsMeasured /\ KillsWeaker

LEMMA BeatInit == Init => BeatInv
<1> SUFFICES ASSUME Init PROVE BeatInv OBVIOUS
<1>1. PastBeaten BY DEF Init, PastBeaten
<1>2. SessionsMeasured BY DEF Init, SessionsMeasured, Measured, Asked, Idle
<1>3. KillsWeaker BY DEF Init, KillsWeaker, Found, Quiet
<1> QED BY <1>1, <1>2, <1>3 DEF BeatInv

\* The scores of everything compared are numbers.
LEMMA ScoreType ==
  ASSUME TypeOK
  PROVE  /\ \A m \in Model : Score[m] \in Int
         /\ \A m \in Model : registry[m].from # NoModel => registry[m].from \in Model
         /\ \A s \in Session : Asked(sess[s]) =>
              sess[s].chal \in Model /\ (sess[s].champ # NoModel => sess[s].champ \in Model)
         /\ \A k \in Killer : Found(kill[k]) => kill[k].to \in Model
         /\ \A t : Champions(t) \subseteq Model
BY DataAssumption DEF TypeOK, Row, Held, Pulled, Asked, Found, Maybe, Champions

\* A task has one champion, and it is the one that a request reads.
LEMMA TheChampion ==
  ASSUME OneChampion, NEW t, NEW c \in Champions(t)
  PROVE  GetChampion(t) = c /\ c # NoModel
<1>1. GetChampion(t) \in Champions(t) /\ c \in Model BY GetChampionMember DEF GetChampion, Champions
<1> QED BY <1>1, NoModelAssumption DEF OneChampion, UniqueChampions, Champions

LEMMA BeatStep ==
  ASSUME OneRequester, OneRollback, OwnNames, TypeOK, OneChampion, OursInv, BeatInv, [Next]_vars
  PROVE  BeatInv'
<1>0. PastBeaten /\ SessionsMeasured /\ KillsWeaker /\ ModelsOurs BY DEF BeatInv, OursInv
<1>1. CASE Calm
  <2>1. \A t : Champions(t)' = Champions(t) BY <1>1, ChampionsKept DEF Calm
  <2>2. PastBeaten' BY <1>0, <1>1 DEF Calm, PastBeaten
  <2>3. SessionsMeasured' BY <1>0, <1>1, <2>1 DEF Calm, SessionsMeasured, Measured
  <2>4. KillsWeaker' BY <1>0, <1>1, <2>1 DEF Calm, KillsWeaker, Weaker
  <2> QED BY <2>2, <2>3, <2>4 DEF BeatInv
<1>2. ASSUME NEW s \in Session, NEW m \in Model, Scores(s, m) PROVE BeatInv'
  <2> DEFINE c == GetChampion(Home[m])
             h == [sess[s] EXCEPT !.pc = "scored", !.todo = sess[s].todo \ {m}, !.chal = m,
                                  !.task = Home[m], !.champ = c]
  <2>1. UNCHANGED <<registry, kill>> /\ sess' = [sess EXCEPT ![s] = h] BY <1>2 DEF Scores
  <2>2. \A d \in Champions(Home[m]) : d = c /\ c # NoModel BY TheChampion
  <2>3. sess[s] \in Held BY DEF TypeOK
  <2> HIDE DEF c
  <2>4. h.pc = "scored" /\ h.task = Home[m] /\ h.champ = c BY <2>3 DEF Held
  <2> HIDE DEF h
  <2>5. sess'[s] = h /\ \A q \in Session : q = s BY <2>1 DEF TypeOK, OneRequester
  <2>6. \A t : Champions(t)' = Champions(t) BY <2>1 DEF Champions
  <2>7. \A t : \A d \in Champions(t) : Score[d] \in Int BY ScoreType
  <2>8. SessionsMeasured' BY <2>2, <2>4, <2>5, <2>6, <2>7 DEF SessionsMeasured, Measured
  <2>9. ASSUME NEW k \in Killer, Found(kill'[k]) PROVE Weaker(kill[k].to, kill[k].task)'
    <3>1. Weaker(kill[k].to, kill[k].task) BY <1>0, <2>1, <2>9 DEF KillsWeaker
    <3> QED BY <2>1, <2>2, <2>4, <2>5, <2>6, <3>1 DEF Weaker
  <2>10. KillsWeaker' BY <2>1, <2>9 DEF KillsWeaker
  <2> QED BY <1>0, <2>1, <2>8, <2>10 DEF BeatInv, PastBeaten
<1>3. ASSUME NEW s \in Session, Clears(s) PROVE BeatInv'
  <2>1. PICK st : sess' = [sess EXCEPT ![s] = [sess[s] EXCEPT !.pc = "cleared", !.state = st]]
    BY <1>3 DEF Clears
  <2>2. UNCHANGED <<registry, kill>> /\ Asked(sess[s]) BY <1>3 DEF Clears, Asked
  <2>3. sess[s].champ # NoModel => Score[sess[s].chal] > Score[sess[s].champ]
    BY <1>3 DEF Clears, Gate
  <2>4. sess[s] \in Held BY DEF TypeOK
  <2>5. /\ sess'[s].chal = sess[s].chal /\ sess'[s].task = sess[s].task
        /\ sess'[s].champ = sess[s].champ /\ \A q \in Session : q = s
    BY <2>1, <2>4 DEF TypeOK, Held, OneRequester
  <2>6. \A t : Champions(t)' = Champions(t) BY <2>2 DEF Champions
  <2>7. SessionsMeasured' BY <1>0, <2>2, <2>3, <2>5, <2>6 DEF SessionsMeasured, Measured
  <2>8. ASSUME NEW k \in Killer, Found(kill'[k]) PROVE Weaker(kill[k].to, kill[k].task)'
    <3>1. Weaker(kill[k].to, kill[k].task) BY <1>0, <2>2, <2>8 DEF KillsWeaker
    <3> QED BY <2>2, <2>5, <2>6, <3>1 DEF Weaker
  <2>9. KillsWeaker' BY <2>2, <2>8 DEF KillsWeaker
  <2> QED BY <1>0, <2>2, <2>7, <2>9 DEF BeatInv, PastBeaten
<1>4. ASSUME NEW s \in Session, Promote(s) PROVE BeatInv'
  <2> PICK m, t, prev : m = sess[s].chal /\ t = sess[s].task /\ prev = sess[s].champ OBVIOUS
  <2>1. Ours(m, t) /\ m \in Model /\ prev \in Maybe /\ registry' = Crowned(m, t, prev)
    BY <1>4, CrownedOurs
  <2>2. Asked(sess[s]) /\ sess[s].pc = "cleared" /\ UNCHANGED kill BY <1>4 DEF Promote, Asked
  <2>3. /\ \A c \in Champions(t) : prev # NoModel /\ Score[c] <= Score[prev]
        /\ prev # NoModel => Score[m] > Score[prev]
    BY <1>0, <2>2 DEF SessionsMeasured, Measured
  <2>4. ~Asked(sess'[s]) /\ \A q \in Session : q = s
    BY <1>4 DEF Promote, Asked, TypeOK, Held, OneRequester
  <2>5. \A to : (\A q \in Session : Asked(sess[q]) /\ sess[q].task = t =>
                   sess[q].champ # NoModel /\ Score[sess[q].champ] > Score[to])
                => prev # NoModel /\ Score[prev] > Score[to]
    BY <2>2
  <2>i. Score[m] \in Int /\ (prev # NoModel => Score[prev] \in Int) BY <2>2, ScoreType
  <2>6. /\ \A n \in Model : registry'[n].from = IF n = m THEN prev ELSE registry[n].from
        /\ Champions(t)' = {m} /\ \A u : u # t => Champions(u)' = Champions(u)
    BY <1>0, <2>1, CrownedFacts
  <2>7. PastBeaten' BY <1>0, <2>3, <2>6 DEF PastBeaten
  <2>8. SessionsMeasured' BY <2>4 DEF SessionsMeasured, Measured
  <2>9. ASSUME NEW k \in Killer, Found(kill'[k]) PROVE Weaker(kill[k].to, kill[k].task)'
    <3>1. Weaker(kill[k].to, kill[k].task) BY <1>0, <2>2, <2>9 DEF KillsWeaker
    <3>2. \A q \in Session : ~Asked(sess'[q]) BY <2>4
    <3>3. kill'[k] = kill[k] BY <2>2
    <3>i. Score[kill[k].to] \in Int BY <2>2, <2>9, ScoreType
    <3>4. CASE kill[k].task = t
      <4>1. prev # NoModel /\ Score[prev] > Score[kill[k].to] BY <2>5, <3>1, <3>4 DEF Weaker
      <4>2. Score[m] > Score[kill[k].to] BY <2>3, <2>i, <3>i, <4>1
      <4> QED BY <2>6, <3>2, <3>3, <3>4, <4>2 DEF Weaker
    <3>5. CASE kill[k].task # t BY <2>6, <3>1, <3>2, <3>3, <3>5 DEF Weaker
    <3> QED BY <3>4, <3>5
  <2>10. KillsWeaker' BY <2>2, <2>9 DEF KillsWeaker
  <2> QED BY <2>7, <2>8, <2>10 DEF BeatInv
<1>5. ASSUME NEW k \in Killer, Finds(k) PROVE BeatInv'
  <2> PICK t, c : t = kill[k].task /\ c = GetChampion(t) OBVIOUS
  <2> PICK to : to = registry[c].from OBVIOUS
  <2> DEFINE h == [kill[k] EXCEPT !.pc = "found", !.to = to]
  <2>1. c \in Champions(t) /\ to # NoModel /\ UNCHANGED <<registry, sess>>
        /\ kill' = [kill EXCEPT ![k] = h]
    BY <1>5 DEF Finds
  <2>2. \A d \in Champions(t) : d = c BY TheChampion
  <2>3. c \in Model BY <2>1, ScoreType
  <2>4. Score[c] > Score[to] /\ to \in Model BY <1>0, <2>1, <2>3, ScoreType DEF PastBeaten
  <2>5. h.to = to /\ h.task = t BY DEF TypeOK, Pulled
  <2> HIDE DEF h
  <2>6. kill'[k] = h /\ \A j \in Killer : j = k BY <2>1 DEF TypeOK, OneRollback
  <2>7. \A u : Champions(u)' = Champions(u) BY <2>1 DEF Champions
  <2>8. ASSUME NEW s \in Session, Asked(sess[s]), sess[s].task = t
        PROVE  sess[s].champ # NoModel /\ Score[sess[s].champ] > Score[to]
    <3>1. sess[s].champ # NoModel /\ Score[c] <= Score[sess[s].champ]
      BY <1>0, <2>1, <2>8 DEF SessionsMeasured, Measured
    <3>2. Score[c] \in Int /\ Score[to] \in Int /\ Score[sess[s].champ] \in Int
      BY <2>3, <2>4, <2>8, <3>1, ScoreType
    <3> QED BY <2>4, <3>1, <3>2
  <2>9. Weaker(to, t) BY <2>1, <2>2, <2>4, <2>8 DEF Weaker
  <2>10. Weaker(to, t)' BY <2>1, <2>7, <2>9 DEF Weaker
  <2>11. KillsWeaker' BY <2>5, <2>6, <2>10 DEF KillsWeaker
  <2>12. SessionsMeasured' BY <1>0, <2>1, <2>7 DEF SessionsMeasured, Measured
  <2> QED BY <1>0, <2>1, <2>11, <2>12 DEF BeatInv, PastBeaten
<1>6. ASSUME NEW k \in Killer, RollbackSet(k) PROVE BeatInv'
  <2> PICK m, t : m = kill[k].to /\ t = kill[k].task OBVIOUS
  <2>1. Ours(m, t) /\ m \in Model /\ registry' = Crowned(m, t, NoModel) BY <1>6, CrownedOurs
  <2>2. Weaker(m, t) BY <1>0, <1>6 DEF KillsWeaker, RollbackSet, Found
  <2>3. ~Found(kill'[k]) /\ (\A j \in Killer : j = k) /\ UNCHANGED sess
    BY <1>6 DEF RollbackSet, Found, TypeOK, Pulled, OneRollback
  <2>4. /\ \A n \in Model : registry'[n].from = IF n = m THEN NoModel ELSE registry[n].from
        /\ Champions(t)' = {m} /\ \A u : u # t => Champions(u)' = Champions(u)
    BY <1>0, <2>1, CrownedFacts DEF Maybe
  <2>5. PastBeaten' BY <1>0, <2>4 DEF PastBeaten
  <2>6. KillsWeaker' BY <2>3 DEF KillsWeaker
  <2>7. ASSUME NEW s \in Session, Asked(sess[s]), NEW u, u = sess[s].task, NEW c \in Champions(u)'
        PROVE  sess[s].champ # NoModel /\ Score[c] <= Score[sess[s].champ]
    <3>1. CASE u = t
      <4>1. c = m BY <2>4, <2>7, <3>1
      <4>2. sess[s].champ # NoModel /\ Score[sess[s].champ] > Score[m] BY <2>2, <2>7, <3>1 DEF Weaker
      <4>3. Score[m] \in Int /\ Score[sess[s].champ] \in Int BY <2>1, <2>7, <4>2, ScoreType, DataAssumption
      <4> QED BY <4>1, <4>2, <4>3
    <3>2. CASE u # t
      <4>1. c \in Champions(sess[s].task) BY <2>4, <2>7, <3>2
      <4> QED BY <1>0, <2>7, <4>1 DEF SessionsMeasured, Measured
    <3> QED BY <3>1, <3>2
  <2>8. \A s \in Session : sess'[s] = sess[s] BY <2>3
  <2>9. ASSUME NEW s \in Session PROVE Measured(sess[s])'
    <3>1. (sess[s].pc = "cleared" /\ sess[s].champ # NoModel) => Score[sess[s].chal] > Score[sess[s].champ]
      BY <1>0 DEF SessionsMeasured, Measured, Asked
    <3> QED BY <2>7, <2>8, <3>1 DEF Measured
  <2>10. SessionsMeasured' BY <2>9 DEF SessionsMeasured
  <2> QED BY <2>5, <2>6, <2>10 DEF BeatInv
<1> QED BY <1>1, <1>2, <1>3, <1>4, <1>5, <1>6, Steps

\* With one promotion request and one rollback request at a time, and requests that name a
\* model's own task, the champion a promotion demotes is one that the challenger beats, crashes
\* and rollbacks in the minutes between the gate and the crown included
\* (champion.py:evaluate_and_promote).  With two promotions, or with two rollbacks, it is not.
THEOREM PromotionBeatsReplacedAlways ==
  ASSUME OneRequester, OneRollback, OwnNames PROVE Spec => PromotionBeatsReplaced
<1> DEFINE Beats == \A s \in Session : IsPromotion(s) =>
                      \A c \in Champions(sess[s].task) \ {sess[s].chal} :
                        Score[sess[s].chal] > Score[c]
<1>1. TypeOK /\ OursInv /\ OneChampion /\ BeatInv => [Beats]_vars
  <2> SUFFICES ASSUME TypeOK, OursInv, OneChampion, BeatInv, NEW s \in Session, IsPromotion(s),
                      NEW c \in Champions(sess[s].task)
               PROVE  Score[sess[s].chal] > Score[c]
    OBVIOUS
  <2>1. Asked(sess[s]) /\ sess[s].pc = "cleared" BY DEF IsPromotion, Asked
  <2>2. /\ sess[s].champ # NoModel /\ Score[c] <= Score[sess[s].champ]
        /\ Score[sess[s].chal] > Score[sess[s].champ]
    BY <2>1 DEF BeatInv, SessionsMeasured, Measured
  <2>3. Score[c] \in Int /\ Score[sess[s].champ] \in Int /\ Score[sess[s].chal] \in Int
    BY <2>1, <2>2, ScoreType
  <2> QED BY <2>2, <2>3
<1>2. Init => TypeOK /\ OursInv /\ BeatInv BY InitType, OursInit, BeatInit
<1>3. TypeOK /\ OneChampion /\ OursInv /\ BeatInv /\ [Next]_vars => TypeOK' /\ OursInv' /\ BeatInv'
  BY NextType, OursStep, BeatStep
<1>4. PromotionBeatsReplaced <=> [][Beats]_vars BY DEF PromotionBeatsReplaced
<1> HIDE DEF Beats
<1> QED BY <1>1, <1>2, <1>3, <1>4, OneChampionAlways, PTL DEF Spec
===============================================================================
