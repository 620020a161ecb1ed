------------------------------ MODULE Governance ------------------------------
(***************************************************************************)
(* The champion registry, the promotion gate's callers and the kill        *)
(* switch: services/govern/{registry,champion,killswitch,controller,       *)
(* drift}.py and the endpoints of services/api/routers/govern.py.          *)
(*                                                                         *)
(* Sessions of three kinds promote: a controller tick (one session for the *)
(* whole tick, so its governance_state is read once), a training job that  *)
(* asks for promotion when it ends, and a person's POST /govern/promote.   *)
(* Each reads the champion, scores both models on gold for minutes, reads  *)
(* the flags, and only then writes; every one of these is a step here.     *)
(* The kill switch commits its flags and then its rollback.                *)
(*                                                                         *)
(* Left out: what the gate's metrics are made of (Score and Sound stand    *)
(* for it), the audit rows, notifications and webhooks, retrain scheduling *)
(* and the fleet agents a tick starts, and auto_accept_enabled, which      *)
(* every handler writes together with loop_enabled and with the same value.*)
(* The autonomy ladder, which a promotion's last call steps down, is in    *)
(* module Settlement, with the lots that step it up.                       *)
(*                                                                         *)
(* No action uses an operator marked `Mutant of': it is the plausible bug  *)
(* a run is tried against, to see that its property would notice.          *)
(***************************************************************************)
EXTENDS Integers, FiniteSets, Orm

CONSTANTS
  Model,      \* model versions
  NoModel,    \* the null of champion_version and promoted_from
  Task,       \* detection, segmentation, ...
  Ticker,     \* sessions that run controller.tick (the daemon, POST .../tick)
  Trainer,    \* training jobs that end with promote: true
  Person,     \* requests of POST /govern/promote
  Killer,     \* requests of the kill switch (a person, the gold-drift check)
  Home,       \* [Model -> Task]: the task a model was trained for
  MayName,    \* [Model -> SUBSET Task]: the tasks a request may name for it
  Score,      \* [Model -> Int]: its gold mAP, in units of min_map_uplift
  Sound,      \* models that pass every condition of the gate but the comparison
  Seed        \* models that are champion of their task to begin with

Session == Ticker \cup Trainer \cup Person
Maybe == Model \cup {NoModel}

ASSUME NoModelAssumption == NoModel \notin Model
ASSUME SessionsAssumption ==
  /\ Ticker \cap Trainer = {} /\ Ticker \cap Person = {} /\ Trainer \cap Person = {}
ASSUME DataAssumption ==
  /\ Home \in [Model -> Task]
  /\ MayName \in [Model -> SUBSET Task]
  /\ Score \in [Model -> Int]
  /\ Sound \subseteq Model
ASSUME SeedAssumption ==
  /\ Seed \subseteq Sound
  /\ \A m, n \in Seed : Home[m] = Home[n] => m = n

VARIABLES
  registry,   \* model_registry: [Model -> row]; only rows with known = TRUE exist
  flags,      \* the governance_state row
  sess,       \* [Session -> what the session holds between two statements]
  kill        \* [Killer -> the same for a kill-switch request]

vars == <<registry, flags, sess, kill>>

Reason == {"none", "drift breach", "operator"}
Row == [known : BOOLEAN, task : Task, champ : BOOLEAN, from : Maybe]
State == [loop : BOOLEAN, promote : BOOLEAN, settle : BOOLEAN,
          reason : Reason, champion : Maybe]
Unread == [loop |-> FALSE, promote |-> FALSE, settle |-> FALSE,
           reason |-> "none", champion |-> NoModel]

Idle == [pc |-> "idle", todo |-> {}, chal |-> NoModel, task |-> NoModel,
         champ |-> NoModel, state |-> Unread]
Quiet == [pc |-> "idle", task |-> NoModel, to |-> NoModel, state |-> Unread]

\* What a session and a kill-switch request hold; a field they have not reached is null.
Held == {h \in [pc : {"idle", "scan", "pick", "scored", "cleared", "championed"},
                todo : SUBSET Model, chal : Maybe, task : Task \cup {NoModel},
                champ : Maybe, state : State] :
           h.pc \in {"scored", "cleared", "championed"} => h.chal \in Model /\ h.task \in Task}
Pulled == {h \in [pc : {"idle", "stopped", "found", "restored"},
                  task : Task \cup {NoModel}, to : Maybe, state : State] :
             /\ h.pc # "idle" => h.task \in Task
             /\ h.pc \in {"found", "restored"} => h.to \in Model}

TypeOK ==
  /\ registry \in [Model -> Row]
  /\ flags \in State
  /\ sess \in [Session -> Held]
  /\ kill \in [Killer -> Pulled]

-------------------------------------------------------------------------------
(* The registry. *)

Champions(t) == {m \in Model : registry[m].task = t /\ registry[m].champ}

\* SELECT ... WHERE task = t AND is_champion, first row.
GetChampion(t) == IF Champions(t) = {} THEN NoModel ELSE CHOOSE m \in Champions(t) : TRUE

\* Mutants of Gate: the comparison forgotten; the absolute conditions forgotten.
GateAlone(m, champ) == m \in Sound
GateRelative(m, champ) == champ # NoModel => Score[m] > Score[champ]

\* champion_gate: the conditions that stand alone, and the uplift over the incumbent.
Gate(m, champ) ==
  /\ m \in Sound
  /\ champ # NoModel => Score[m] > Score[champ]

\* The partial unique index uq_model_registry_champion.
UniqueChampions(reg) ==
  \A m, n \in Model :
    (reg[m].champ /\ reg[n].champ /\ reg[m].task = reg[n].task) => m = n

\* UPDATE every row of the task to is_champion = false, then make m champion.
Crowned(m, t, prev) ==
  [n \in Model |->
     IF n = m /\ registry[m].known THEN [registry[m] EXCEPT !.champ = TRUE, !.from = prev]
     ELSE IF registry[n].task = t THEN [registry[n] EXCEPT !.champ = FALSE]
     ELSE registry[n]]

\* Mutant of SetChampion: without migration 0060.
SetChampionNoIndex(m, t, prev) == registry' = Crowned(m, t, prev)

\* One transaction; an IntegrityError rolls the whole of it back.  The row locks of
\* the UPDATE make two of these for one task follow each other.
SetChampion(m, t, prev) ==
  /\ UniqueChampions(Crowned(m, t, prev))
  /\ registry' = Crowned(m, t, prev)

\* register / register_from_run, and the registration at the end of a training run.
Register(m, t) ==
  LET after == [registry EXCEPT ![m].known = TRUE, ![m].task = t]
  IN /\ t \in MayName[m]
     /\ UniqueChampions(after)
     /\ registry' = after
     /\ UNCHANGED <<flags, sess, kill>>

-------------------------------------------------------------------------------
(* A controller tick, up to the point where it evaluates challengers. *)

\* The state is loaded once; a paused loop ends the tick here (nothing to record).
TickBegin(s) ==
  /\ sess[s].pc = "idle"
  /\ flags.loop
  /\ sess' = [sess EXCEPT ![s] = [Idle EXCEPT !.pc = "scan", !.state = flags]]
  /\ UNCHANGED <<registry, flags, kill>>

Paused(st) == [st EXCEPT !.promote = FALSE, !.reason = "drift breach"]

\* Mutant of Resumed: a clean scan leaves the pause.
ResumedNever(st) == st
Resumed(st) ==
  IF st.loop /\ st.reason = "drift breach" THEN [st EXCEPT !.reason = "none"] ELSE st

\* run_drift_scan: pause_auto_promote on a breach, else resume_auto_promote; both act
\* on the state the session holds and commit what they changed in it.
AfterScan(st, breach) == IF breach THEN Paused(st) ELSE Resumed(st)

\* The scan of a tick, then the SELECT that lists the challengers to evaluate.
TickScan(s, breach) ==
  LET old == sess[s].state
      new == AfterScan(old, breach)
  IN /\ sess[s].pc = "scan"
     /\ flags' = Flush(flags, old, new)
     /\ sess' = [sess EXCEPT ![s] = [@ EXCEPT
           !.pc = "pick", !.state = new,
           !.todo = {m \in Model : registry[m].known /\ ~registry[m].champ}]]
     /\ UNCHANGED <<registry, kill>>

\* POST /govern/drift/scan: the same in a session of its own.
ScanEndpoint(breach) ==
  /\ flags' = AfterScan(flags, breach)
  /\ UNCHANGED <<registry, sess, kill>>

-------------------------------------------------------------------------------
(* evaluate_and_promote, shared by the three kinds of session. *)

\* Read the incumbent and score both on gold.
Evaluate(s, m, t) ==
  sess' = [sess EXCEPT ![s] = [@ EXCEPT
    !.pc = "scored", !.todo = sess[s].todo \ {m}, !.chal = m, !.task = t, !.champ = GetChampion(t)]]

TickEvaluate(s, m) ==
  /\ sess[s].pc = "pick" /\ m \in sess[s].todo
  /\ Evaluate(s, m, registry[m].task)
  /\ UNCHANGED <<registry, flags, kill>>

TickEnd(s) ==
  /\ sess[s].pc = "pick" /\ sess[s].todo = {}
  /\ sess' = [sess EXCEPT ![s] = Idle]
  /\ UNCHANGED <<registry, flags, kill>>

\* POST /govern/promote names a task of its own, whatever task the model was trained for.
PersonAsks(s, m, t) ==
  /\ sess[s].pc = "idle" /\ registry[m].known /\ t \in MayName[m]
  /\ Evaluate(s, m, t)
  /\ UNCHANGED <<registry, flags, kill>>

\* _promote_run: a training job asks for the run it has just registered.
JobAsks(s, m) ==
  /\ sess[s].pc = "idle" /\ registry[m].known
  /\ Evaluate(s, m, registry[m].task)
  /\ UNCHANGED <<registry, flags, kill>>

\* Where a session goes when it is done with one challenger.
AfterOne(s, state) ==
  IF s \in Ticker THEN [Idle EXCEPT !.pc = "pick", !.todo = sess[s].todo, !.state = state]
  ELSE Idle

\* get_state: the ticker's session already holds it, the others read it now.
MayPromote(s) ==
  \/ s \in Person
  \/ s \in Ticker /\ sess[s].state.promote
  \/ s \in Trainer /\ flags.promote

\* What a session keeps of the row it read when it will only set champion_version.
ChampionColumn(st) == [Unread EXCEPT !.champion = st.champion]

Loaded(s) == IF s \in Ticker THEN sess[s].state ELSE ChampionColumn(flags)

\* The gate's verdict and the flag: refuse (reject, or hold for approval) or go on.
Decide(s) ==
  LET pass == Gate(sess[s].chal, sess[s].champ) /\ MayPromote(s)
  IN /\ sess[s].pc = "scored"
     /\ sess' = [sess EXCEPT ![s] =
                   IF pass THEN [@ EXCEPT !.pc = "cleared", !.state = Loaded(s)]
                   ELSE AfterOne(s, @.state)]
     /\ UNCHANGED <<registry, flags, kill>>

Promote(s) ==
  /\ sess[s].pc = "cleared"
  /\ SetChampion(sess[s].chal, sess[s].task, sess[s].champ)
  /\ sess' = [sess EXCEPT ![s] = [@ EXCEPT !.pc = "championed"]]
  /\ UNCHANGED <<flags, kill>>

\* The index refuses: IntegrityError, and a rollback.  The rollback expires what the
\* session holds, so a tick does not survive its next look at a challenger.
LoseRace(s) ==
  /\ sess[s].pc = "cleared"
  /\ ~UniqueChampions(Crowned(sess[s].chal, sess[s].task, sess[s].champ))
  /\ sess' = [sess EXCEPT ![s] = Idle]
  /\ UNCHANGED <<registry, flags, kill>>

\* state.champion_version = challenger, in a commit of its own.
SaveState(s) ==
  LET old == sess[s].state
      new == [old EXCEPT !.champion = sess[s].chal]
  IN /\ sess[s].pc = "championed"
     /\ flags' = Flush(flags, old, new)
     /\ sess' = [sess EXCEPT ![s] = AfterOne(s, new)]
     /\ UNCHANGED <<registry, kill>>

\* The process dies, or the request is cancelled, between two statements.
Crash(s) ==
  /\ sess[s].pc # "idle"
  /\ sess' = [sess EXCEPT ![s] = Idle]
  /\ UNCHANGED <<registry, flags, kill>>

-------------------------------------------------------------------------------
(* The kill switch and the operator. *)

Engaged(st) == [st EXCEPT !.loop = FALSE, !.promote = FALSE, !.settle = FALSE,
                          !.reason = "operator"]

Engage(k, t) ==
  /\ kill[k].pc = "idle"
  /\ flags' = Engaged(flags)
  /\ kill' = [kill EXCEPT ![k] = [Quiet EXCEPT !.pc = "stopped", !.task = t,
                                              !.state = ChampionColumn(flags)]]
  /\ UNCHANGED <<registry, sess>>

\* Mutant of RollbackRead: a champion without a past is rolled back too.
RollbackReadBlind(k) ==
  LET c == GetChampion(kill[k].task)
  IN /\ kill[k].pc = "stopped"
     /\ kill' = [kill EXCEPT ![k] = IF c = NoModel THEN Quiet
                                   ELSE [@ EXCEPT !.pc = "found", !.to = registry[c].from]]
     /\ UNCHANGED <<registry, flags, sess>>

\* rollback_to_last_champion: read the champion and where it came from ...
RollbackRead(k) ==
  LET c == GetChampion(kill[k].task)
  IN /\ kill[k].pc = "stopped"
     /\ kill' = [kill EXCEPT ![k] =
                   IF c = NoModel THEN Quiet
                   ELSE IF registry[c].from = NoModel THEN Quiet
                   ELSE [@ EXCEPT !.pc = "found", !.to = registry[c].from]]
     /\ UNCHANGED <<registry, flags, sess>>

\* ... crown that one, with no further past ...
RollbackSet(k) ==
  /\ kill[k].pc = "found"
  /\ SetChampion(kill[k].to, kill[k].task, NoModel)
  /\ kill' = [kill EXCEPT ![k] = [@ EXCEPT !.pc = "restored"]]
  /\ UNCHANGED <<flags, sess>>

\* ... and name it in the state.
RollbackSave(k) ==
  LET old == kill[k].state
      new == [old EXCEPT !.champion = kill[k].to]
  IN /\ kill[k].pc = "restored"
     /\ flags' = Flush(flags, old, new)
     /\ kill' = [kill EXCEPT ![k] = Quiet]
     /\ UNCHANGED <<registry, sess>>

\* The request dies between its commits, or the index refuses the rollback.
EngageCrash(k) ==
  /\ kill[k].pc # "idle"
  /\ kill' = [kill EXCEPT ![k] = Quiet]
  /\ UNCHANGED <<registry, flags, sess>>

Released(st) == [st EXCEPT !.loop = TRUE, !.reason = "none"]

Release ==
  /\ flags' = Released(flags)
  /\ UNCHANGED <<registry, sess, kill>>

\* The operator's own switches, written to the row outside the code under src/.
OptIn(promote, settle) ==
  /\ flags' = [flags EXCEPT !.promote = promote, !.settle = settle]
  /\ UNCHANGED <<registry, sess, kill>>

-------------------------------------------------------------------------------
Init ==
  /\ registry = [m \in Model |-> [known |-> m \in Seed, task |-> Home[m],
                                  champ |-> m \in Seed, from |-> NoModel]]
  /\ \E promote \in BOOLEAN :
       flags = [loop |-> TRUE, promote |-> promote, settle |-> FALSE,
                reason |-> "none", champion |-> NoModel]
  /\ sess = [s \in Session |-> Idle]
  /\ kill = [k \in Killer |-> Quiet]

TickStep(s) ==
  \/ TickBegin(s)
  \/ \E breach \in BOOLEAN : TickScan(s, breach)
  \/ \E m \in Model : TickEvaluate(s, m)
  \/ TickEnd(s)

PromoteStep(s) ==
  \/ Decide(s)
  \/ Promote(s)
  \/ LoseRace(s)
  \/ SaveState(s)

KillStep(k) ==
  \/ \E t \in Task : Engage(k, t)
  \/ RollbackRead(k)
  \/ RollbackSet(k)
  \/ RollbackSave(k)
  \/ EngageCrash(k)

OperatorStep ==
  \/ \E m \in Model, t \in Task : Register(m, t)
  \/ \E breach \in BOOLEAN : ScanEndpoint(breach)
  \/ Release
  \/ \E promote, settle \in BOOLEAN : OptIn(promote, settle)

Next ==
  \/ \E s \in Ticker : TickStep(s)
  \/ \E s \in Person, m \in Model, t \in Task : PersonAsks(s, m, t)
  \/ \E s \in Trainer, m \in Model : JobAsks(s, m)
  \/ \E s \in Session : PromoteStep(s) \/ Crash(s)
  \/ \E k \in Killer : KillStep(k)
  \/ OperatorStep

Spec == Init /\ [][Next]_vars

\* The daemon ticks on a fixed cadence for ever, and a breach does not last for ever.
Fairness ==
  \A s \in Ticker :
    /\ WF_vars(TickStep(s)) /\ WF_vars(PromoteStep(s))
    /\ SF_vars(TickScan(s, FALSE))

FairSpec == Spec /\ Fairness

-------------------------------------------------------------------------------
(* Safety. *)

\* No task ever has two champions, whichever promotions, registrations and
\* rollbacks meet (registry.py:set_champion, migration 0060).
OneChampion == UniqueChampions(registry)

\* Whatever serves has passed the gate's absolute conditions (safety recall floor,
\* Safe-mIoU, recapture), through every chain of promotions and rollbacks: a
\* rollback only returns to a model that once served.
ChampionSound == \A m \in Model : registry[m].champ => m \in Sound

\* A task that has a champion keeps one: demoting the incumbent and crowning the
\* next are one step of set_champion, in promotion and rollback alike.
ChampionNotLost ==
  [][\A t \in Task : Champions(t) # {} => Champions(t)' # {}]_vars

\* Neither release, nor a cleared drift breach, nor a session that commits a state
\* it read long ago, switches unattended promotion or settlement back on: only the
\* operator does (killswitch.py:release, resume_auto_promote).
NeverSilentlyRearmed ==
  [][(~flags.promote /\ flags'.promote) \/ (~flags.settle /\ flags'.settle)
       => \E promote, settle \in BOOLEAN : OptIn(promote, settle)]_vars

IsPromotion(s) == sess[s].pc = "cleared" /\ sess'[s].pc = "championed"

\* The model a promotion demotes is one the new champion beat.
PromotionBeatsReplaced ==
  [][\A s \in Session : IsPromotion(s) =>
       \A c \in Champions(sess[s].task) \ {sess[s].chal} :
         Score[sess[s].chal] > Score[c]]_vars

\* set_champion: "Make model_version the sole champion for the task".
PromotionTakesOffice ==
  [][\A s \in Session : IsPromotion(s) =>
       Champions(sess[s].task)' = {sess[s].chal}]_vars

\* Nothing is promoted unattended while unattended promotion is switched off.
UnattendedPromotionIsArmed ==
  [][\A s \in Ticker \cup Trainer : IsPromotion(s) => flags.promote]_vars

-------------------------------------------------------------------------------
(* Liveness. *)

\* A drift pause does not trap the loop: some later clean scan clears it, although a
\* tick may hold a state older than the pause (drift.py:run_drift_scan).
DriftPauseLifts ==
  flags.reason = "drift breach" ~> (flags.reason # "drift breach" \/ ~flags.loop)
=============================================================================
