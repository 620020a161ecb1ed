------------------------------- MODULE Review -------------------------------
(***************************************************************************)
(* People ruling on labels: single and bulk review, the clamp on what an   *)
(* annotator may write, the optimistic lock, a verdict taken back, and a   *)
(* bulk review taken back as one run.  services/api/routers/review.py,     *)
(* review_apply.py, review_policy.py, review_batch.py, agent/runs.py and   *)
(* web/lib/reviewVerdict.ts.                                               *)
(*                                                                         *)
(* A page shows rows that were read some time ago.  A request reads its    *)
(* rows again, checks their versions against the page's and commits: two   *)
(* actions, so requests overlap.  Geometry, masks and attributes go the    *)
(* way of the class.  The control samples and spot checks a ruling also    *)
(* answers are in Settlement, as are the machine's own writes.             *)
(***************************************************************************)
EXTENDS Naturals, Sequences, Orm

CONSTANTS
  Object, Class,
  Person, Reviewer,      \* people, and those with the reviewer's role
  InitialState,          \* states the machine left the objects in
  Checked,               \* whether a request states the version its page shows: set of BOOLEANs
  MaxVersion, MaxRuns, MaxUndone   \* bounds: the version up to which objects are ruled on, batches, verdicts taken back

State == {"review", "auto_accept", "submitted", "accepted", "rejected", "settled"}
Source == {"machine", "human"}
NoRun == 0
None == "none"

ASSUME ReviewAssumption ==
  /\ Reviewer \subseteq Person /\ None \notin State /\ Class # {}
  /\ InitialState \subseteq State \ {"accepted"}
  /\ Checked \subseteq BOOLEAN
  /\ MaxVersion \in Nat /\ MaxRuns \in Nat /\ MaxUndone \in Nat

Row == [cls : Class, state : State, source : Source, version : Nat, stamp : Nat]
Before == [cls : Class, state : State, source : Source]   \* change_record
Actions == {"confirm", "reject", "reclassify", "revert"}

VARIABLES
  row,      \* row[o]: the object's row
  verdict,  \* verdict[o]: the row as the latest Review that is no revert found it, if any
  runs,     \* the batches, in the order they were recorded
  page,     \* page[p]: the rows p's page shows
  request,  \* request[p]: what p's request read and is about to commit
  history   \* what the properties remember

vars == <<row, verdict, runs, page, request, history>>

Off == [kind |-> "off", fresh |-> {}, read |-> <<>>, write |-> <<>>, action |-> None, run |-> NoRun]

TypeOK ==
  /\ row \in [Object -> Row]
  /\ \A o \in Object : verdict[o] = <<>> \/ (Len(verdict[o]) = 1 /\ verdict[o][1] \in Row)
  /\ \A r \in DOMAIN runs : /\ runs[r].status \in {"committed", "reverted"}
                            /\ DOMAIN runs[r].changes \subseteq Object
                            /\ \A o \in DOMAIN runs[r].changes : runs[r].changes[o] \in Before
  /\ page \in [Person -> [Object -> Row]]
  /\ \A p \in Person : LET q == request[p] IN q.kind # "off" =>
       /\ q.kind \in {"single", "bulk", "revert"} /\ q.action \in Actions /\ q.fresh \subseteq DOMAIN q.read
       /\ DOMAIN q.read \subseteq Object /\ DOMAIN q.write = DOMAIN q.read
       /\ \A o \in DOMAIN q.read : q.read[o] \in Row /\ q.write[o] \in Row
       /\ q.kind = "revert" => q.run \in DOMAIN runs

Init ==
  /\ \E left \in [Object -> InitialState] :
       row = [o \in Object |-> [cls |-> CHOOSE c \in Class : TRUE, state |-> left[o],
                                source |-> "machine", version |-> 1, stamp |-> NoRun]]
  /\ verdict = [o \in Object |-> <<>>]
  /\ runs = <<>>
  /\ page = [p \in Person |-> row]
  /\ request = [p \in Person |-> Off]
  /\ history = [approved |-> {}, raced |-> {}, standing |-> [o \in Object |-> 0],
                edit |-> [o \in Object |-> NoRun], batch |-> [o \in Object |-> NoRun], undone |-> 0]

-----------------------------------------------------------------------------
(* review_policy.py. *)

\* Mutant of ActionState: the verb itself.
ActionVerb(action) == IF action \in {"confirm", "reject"} THEN action ELSE None

ActionState(action) == CASE action = "confirm" -> "accepted" [] action = "reject" -> "rejected"
                         [] OTHER -> None

\* Mutant of Ceiling: what was asked for is what is written.
CeilingNone(p, state) == state

Ceiling(p, state) ==
  IF p \notin Reviewer /\ state \in {"accepted", "auto_accept"} THEN "submitted" ELSE state

\* The state a review writes: asked for, or what the verb means, or the current one.
StateFor(action, asked, p, current) ==
  LET state == IF asked # None THEN asked
               ELSE IF ActionState(action) # None THEN ActionState(action) ELSE current
  IN IF state = None THEN None
     ELSE Ceiling(p, IF state = "settled" THEN "accepted" ELSE state)

-----------------------------------------------------------------------------
(* Requests: what is read, and what will be written. *)

OpenPage(p) ==
  /\ request[p].kind = "off" /\ page[p] # row
  /\ page' = [page EXCEPT ![p] = row]
  /\ UNCHANGED <<row, verdict, runs, request, history>>

Edited(old, cls, state, source) ==
  [old EXCEPT !.cls = cls, !.state = IF state = None THEN @ ELSE state, !.source = source,
              !.version = @ + 1]

\* A verdict taken back brings back the source and the provenance the verdict found.
Withdrawn(o, old) ==
  IF verdict[o] = <<>> THEN old
  ELSE [old EXCEPT !.source = verdict[o][1].source, !.stamp = verdict[o][1].stamp]

Fresh(p, o) == row[o].version = page[p][o].version

\* What the pages send.  A verdict names the state its role gives; taking one back names the
\* unreviewed state and the class the page shows.
Asked(p, o, action, c) ==
  CASE action = "confirm"    -> [state |-> "accepted", cls |-> row[o].cls]
    [] action = "reject"     -> [state |-> "rejected", cls |-> row[o].cls]
    [] action = "reclassify" -> [state |-> "accepted", cls |-> c]
    [] action = "revert"     -> [state |-> "review", cls |-> page[p][o].cls]

Single(p, o, action, c, checked) ==
  /\ request[p].kind = "off"
  /\ checked => Fresh(p, o)
  /\ IF action = "revert" THEN history.undone < MaxUndone ELSE row[o].version < MaxVersion
  /\ action = "reclassify" <=> c # row[o].cls
  /\ LET asked == Asked(p, o, action, c)
         state == StateFor(action, asked.state, p, row[o].state)
         edited == Edited(row[o], asked.cls, state, "human")
         new == IF action = "revert" THEN Withdrawn(o, [edited EXCEPT !.source = row[o].source])
                ELSE edited
     IN request' = [request EXCEPT ![p] =
          [kind |-> "single", fresh |-> {x \in {o} : Fresh(p, x)}, read |-> [x \in {o} |-> row[x]],
           write |-> [x \in {o} |-> new], action |-> action, run |-> NoRun]]
  /\ UNCHANGED <<row, verdict, runs, page, history>>

\* Mutant of BulkEdit: the version stays, as it did before bulk review advanced it.
BulkEditQuiet(old, cls, state) == [Edited(old, cls, state, "human") EXCEPT !.version = old.version]

BulkEdit(old, cls, state) == Edited(old, cls, state, "human")

\* One decision for a set; stale members are skipped.  The current state is not consulted.
Bulk(p, S, action, c, checked) ==
  LET taken == {o \in S : checked => Fresh(p, o)}
      state == StateFor(action, None, p, None)
  IN /\ request[p].kind = "off" /\ taken # {} /\ Len(runs) < MaxRuns
     /\ action \in {"confirm", "reject", "reclassify"}
     /\ \A o \in taken : row[o].version < MaxVersion
     /\ request' = [request EXCEPT ![p] =
          [kind |-> "bulk", fresh |-> {o \in taken : Fresh(p, o)}, read |-> [o \in taken |-> row[o]],
           write |-> [o \in taken |->
                        BulkEdit(row[o], IF action = "reclassify" THEN c ELSE row[o].cls, state)],
           action |-> action, run |-> NoRun]]
     /\ UNCHANGED <<row, verdict, runs, page, history>>

\* Mutant of Owned: whatever the batch touched is put back.
OwnedAll(r) == DOMAIN runs[r].changes

\* The objects that still carry the run's stamp.
Owned(r) == {o \in DOMAIN runs[r].changes : row[o].stamp = r}

Restored(old, before) ==
  [old EXCEPT !.cls = before.cls, !.state = before.state, !.source = before.source,
              !.version = @ + 1, !.stamp = NoRun]

RevertBatch(p, r) ==
  /\ request[p].kind = "off" /\ p \in Reviewer /\ runs[r].status = "committed"
  /\ request' = [request EXCEPT ![p] =
       [kind |-> "revert", fresh |-> {}, read |-> [o \in Owned(r) |-> row[o]],
        write |-> [o \in Owned(r) |-> Restored(row[o], runs[r].changes[o])],
        action |-> "revert", run |-> r]]
  /\ UNCHANGED <<row, verdict, runs, page, history>>

-----------------------------------------------------------------------------
(* Commits. *)

\* Mutant of ChangeRecord: captured after the edit.
ChangeRecordLate(q, o) ==
  [cls |-> q.write[o].cls, state |-> q.write[o].state, source |-> q.write[o].source]

ChangeRecord(q, o) == [cls |-> q.read[o].cls, state |-> q.read[o].state, source |-> q.read[o].source]

Stamped(q, r) == [o \in DOMAIN q.write |-> [q.write[o] EXCEPT !.stamp = r]]

Commit(p) ==
  LET q == request[p]
      touched == DOMAIN q.read
      r == Len(runs) + 1
      write == IF q.kind = "bulk" THEN Stamped(q, r) ELSE q.write
      edit == CASE q.kind = "single" -> NoRun [] q.kind = "bulk" -> r [] q.kind = "revert" -> q.run
      ruled == q.kind # "revert" /\ q.action # "revert"
      raced == history.raced \cup {o \in touched : row[o] # q.read[o]}
  IN /\ q.kind # "off"
     /\ row' = [o \in Object |-> IF o \in touched THEN Flush(row[o], q.read[o], write[o]) ELSE row[o]]
     /\ verdict' = [o \in Object |-> IF o \in touched /\ ruled THEN <<q.read[o]>> ELSE verdict[o]]
     /\ runs' = CASE q.kind = "single" -> runs
                  [] q.kind = "bulk" -> Append(runs, [status |-> "committed", changes |->
                                                        [o \in touched |-> ChangeRecord(q, o)]])
                  [] q.kind = "revert" -> [runs EXCEPT ![q.run].status = "reverted"]
     /\ request' = [request EXCEPT ![p] = Off]
     /\ page' = [page EXCEPT ![p] = [o \in Object |-> IF o \in touched THEN row'[o] ELSE @[o]]]
     /\ history' =
          [approved |-> history.approved \cup
                          {o \in touched : p \in Reviewer /\ ruled /\ row'[o].state = "accepted"},
           raced |-> raced,
           standing |-> [o \in Object |->
                           IF o \in raced THEN 0
                           ELSE IF o \notin touched THEN history.standing[o]
                           ELSE IF ruled THEN history.standing[o] + 1
                           ELSE IF history.standing[o] = 0 THEN 0 ELSE history.standing[o] - 1],
           edit |-> [o \in Object |-> IF o \in raced THEN NoRun
                                     ELSE IF o \in touched THEN edit ELSE history.edit[o]],
           batch |-> [o \in Object |-> IF o \in raced THEN NoRun
                                      ELSE IF o \notin touched THEN history.batch[o]
                                      ELSE IF q.kind = "bulk" THEN r
                                      ELSE IF q.action = "revert" THEN NoRun ELSE history.batch[o]],
           undone |-> history.undone + IF q.kind = "single" /\ q.action = "revert" THEN 1 ELSE 0]

\* The request is refused after all, or its process dies before the commit.
Abandon(p) ==
  /\ request[p].kind # "off"
  /\ request' = [request EXCEPT ![p] = Off]
  /\ UNCHANGED <<row, verdict, runs, page, history>>

Next ==
  \E p \in Person :
    \/ OpenPage(p) \/ Commit(p) \/ Abandon(p)
    \/ \E action \in Actions, c \in Class, checked \in Checked :
         \/ \E o \in Object : Single(p, o, action, c, checked)
         \/ \E S \in SUBSET Object : Bulk(p, S, action, c, checked)
    \/ \E r \in DOMAIN runs : RevertBatch(p, r)

Spec == Init /\ [][Next]_vars

-----------------------------------------------------------------------------
(* Properties.  An object is raced once two requests that overlapped have both written it. *)

Commits(p, o) == request[p].kind # "off" /\ request'[p].kind = "off" /\ o \in DOMAIN request[p].read
                 /\ row' # row
Reverts(r) == /\ r \in DOMAIN runs /\ runs[r].status = "committed"
              /\ runs'[r].status = "reverted"

\* What counts as ground truth was approved by a reviewer at some point, whatever role edits
\* the object before and after, whatever is taken back, and however requests overlap.
AcceptedNeedsReviewer ==
  \A o \in Object : row[o].state = "accepted" => o \in history.approved

\* A request that found the version of its page, by which it would have been refused otherwise,
\* edits the row its page showed.
NoBlindEdit ==
  [][\A p \in Person, o \in Object :
       Commits(p, o) /\ o \in request[p].fresh /\ o \notin history'.raced
         => page[p][o] = row[o]]_vars

\* Taking a batch back leaves alone what a later batch decided and nobody took back.
LaterBatchStands ==
  [][\A o \in Object, r \in 1 .. MaxRuns :
       Reverts(r) /\ history.batch[o] > r /\ o \notin history'.raced => row'[o] = row[o]]_vars

\* The same of any later edit, as the header of review_batch.py has it.
LaterEditStands ==
  [][\A o \in Object, r \in 1 .. MaxRuns :
       Reverts(r) /\ history.edit[o] # r /\ o \notin history'.raced => row'[o] = row[o]]_vars

Shown(old) == [cls |-> old.cls, state |-> old.state, source |-> old.source]

\* A batch that nothing followed comes back whole: each object is what it was before it.
BatchComesBack ==
  [][\A r \in 1 .. MaxRuns : Reverts(r) =>
       \A o \in DOMAIN runs[r].changes :
         history.edit[o] = r /\ o \notin history'.raced
           => Shown(row'[o]) = Shown(verdict[o][1])]_vars

\* A label that reads as a person's has a ruling of a person that still stands.
HumanMeansRuled ==
  \A o \in Object : row[o].source = "human" /\ o \notin history.raced => history.standing[o] > 0

\* Batches taken back newest first come back one by one: two batches and the second's revert
\* have brought the object to version 4, and the first is reverted next.
BatchesNest ==
  [][\A o \in Object :
       /\ Reverts(1) /\ o \in DOMAIN runs[1].changes
       /\ row[o].version = 4 /\ history.edit[o] = 2 /\ runs[2].status = "reverted"
       /\ o \notin history'.raced
       => Shown(row'[o]) = runs[1].changes[o]]_vars
=============================================================================
