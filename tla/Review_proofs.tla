---------------------------- MODULE Review_proofs ----------------------------
(* Theorems of Review, for any people, roles, objects and classes, however *)
(* many requests overlap, and whatever the bounds.                         *)
EXTENDS Review, SequenceTheorems, TLAPS

-------------------------------------------------------------------------------
(* The operators. *)

MaybeState == State \cup {None}

\* What a flush of an object's row leaves is such a row.
LEMMA FlushType ==
  ASSUME NEW old \in Row, NEW loaded \in Row, NEW current \in Row
  PROVE  Flush(old, loaded, current) \in Row
BY DEF Row, Flush

\* A session that loaded what the database still holds writes what it wants to write.
LEMMA FlushFresh ==
  ASSUME NEW old \in Row, NEW current \in Row
  PROVE  Flush(old, old, current) = current
BY DEF Row, Flush

\* A flush leaves a state which the session set, or the one the database held.
LEMMA FlushState ==
  ASSUME NEW old \in Row, NEW loaded \in Row, NEW current \in Row
  PROVE  Flush(old, loaded, current).state \in {old.state, current.state}
BY DEF Row, Flush

\* The clamp of review_policy: only a reviewer's review writes "accepted".
LEMMA StateForClamped ==
  ASSUME NEW action \in Actions, NEW asked \in MaybeState, NEW current \in MaybeState,
         NEW p \in Person
  PROVE  /\ StateFor(action, asked, p, current) \in MaybeState
         /\ StateFor(action, asked, p, current) = "accepted" => p \in Reviewer
         /\ asked = "review" => StateFor(action, asked, p, current) = "review"
BY ReviewAssumption
   DEF StateFor, ActionState, Ceiling, Actions, MaybeState, State, None

\* What a review writes: the class and the source it names, the state if it means one, the next
\* version, and the stamp it found.
LEMMA EditedFacts ==
  ASSUME NEW old \in Row, NEW cls \in Class, NEW state \in MaybeState, NEW source \in Source
  PROVE  LET new == Edited(old, cls, state, source)
         IN /\ new \in Row /\ new.version = old.version + 1 /\ new.stamp = old.stamp
            /\ new.state = IF state = None THEN old.state ELSE state
<1> DEFINE s == IF state = None THEN old.state ELSE state
           n == old.version + 1
           new == [old EXCEPT !.cls = cls, !.state = s, !.source = source, !.version = n]
<1>1. s \in State /\ n \in Nat BY DEF Row, MaybeState
<1>2. Edited(old, cls, state, source) = new BY DEF Edited
<1> HIDE DEF s, n
<1>3. new \in Row /\ new.version = n /\ new.stamp = old.stamp /\ new.state = s
  BY <1>1 DEF Row
<1> HIDE DEF new
<1> QED BY <1>2, <1>3 DEF s, n

\* What taking a batch back writes: the class, the state and the source it recorded.
LEMMA RestoredFacts ==
  ASSUME NEW old \in Row, NEW before \in Before
  PROVE  /\ Restored(old, before) \in Row
         /\ Restored(old, before).version = old.version + 1
         /\ Restored(old, before).stamp = NoRun
         /\ Restored(old, before).state = before.state
         /\ Shown(Restored(old, before)) = before
<1> DEFINE n == old.version + 1
           new == [old EXCEPT !.cls = before.cls, !.state = before.state,
                              !.source = before.source, !.version = n, !.stamp = NoRun]
<1>1. n \in Nat /\ NoRun \in Nat BY DEF Row, NoRun
<1>2. before.cls \in Class /\ before.state \in State /\ before.source \in Source
  BY DEF Before
<1>3. before = [cls |-> before.cls, state |-> before.state, source |-> before.source]
  BY DEF Before
<1>4. Restored(old, before) = new BY DEF Restored
<1> HIDE DEF n
<1>5. /\ new \in Row /\ new.version = n /\ new.stamp = NoRun /\ new.state = before.state
      /\ new.cls = before.cls /\ new.source = before.source
  BY <1>1, <1>2 DEF Row
<1> HIDE DEF new
<1>6. Shown(new) = before BY <1>3, <1>5 DEF Shown
<1> QED BY <1>4, <1>5, <1>6 DEF n

-------------------------------------------------------------------------------
(* Type correctness.  The batches are a sequence, which TypeOK leaves unsaid. *)

Batch == [status : {"committed", "reverted"}, changes : UNION {[S -> Before] : S \in SUBSET Object}]

\* What a request that was asked holds, as TypeOK has it.
Asks(q) ==
  /\ q.kind \in {"single", "bulk", "revert"} /\ q.action \in Actions /\ q.fresh \subseteq DOMAIN q.read
  /\ DOMAIN q.read \subseteq Object /\ DOMAIN q.write = DOMAIN q.read
  /\ \A o \in DOMAIN q.read : q.read[o] \in Row /\ q.write[o] \in Row
  /\ q.kind = "revert" => q.run \in DOMAIN runs

TypeInv == TypeOK /\ runs \in Seq(Batch) /\ DOMAIN request = Person

Ruling(q) == q.kind # "revert" /\ q.action # "revert"

(* What a request holds of the rows it has just read, when p asks it. *)
Posed(p, q) ==
  /\ Asks(q)
  /\ \A o \in DOMAIN q.read :
       /\ q.read[o] = row[o]
       /\ q.write[o].version = row[o].version + 1
       /\ o \in q.fresh => row[o].version = page[p][o].version
       /\ q.write[o].state = "accepted" =>
            \/ row[o].state = "accepted"
            \/ p \in Reviewer /\ Ruling(q)
            \/ q.kind = "revert" /\ runs[q.run].changes[o].state = "accepted"
       /\ Ruling(q) => q.write[o].stamp = row[o].stamp
  /\ q.kind = "bulk" => q.action # "revert"
  /\ q.kind = "revert" =>
       /\ q.action = "revert" /\ DOMAIN q.read = Owned(q.run)
       /\ \A o \in DOMAIN q.read : Shown(q.write[o]) = runs[q.run].changes[o]

Asking(p) ==
  /\ request[p].kind = "off" /\ Posed(p, request'[p])
  /\ request' = [request EXCEPT ![p] = request'[p]]
  /\ UNCHANGED <<row, verdict, runs, page, history>>

\* TypeInv, spelled out for one request and one batch.
LEMMA TypeFacts ==
  ASSUME TypeInv
  PROVE  /\ \A p \in Person : request[p].kind # "off" => Asks(request[p])
         /\ \A r \in DOMAIN runs : /\ r \in Nat /\ r # NoRun /\ r <= Len(runs) /\ runs[r] \in Batch
                                   /\ DOMAIN runs[r].changes \subseteq Object
                                   /\ \A o \in DOMAIN runs[r].changes : runs[r].changes[o] \in Before
         /\ Len(runs) \in Nat /\ DOMAIN runs = 1 .. Len(runs)
<1>1. Len(runs) \in Nat /\ DOMAIN runs = 1 .. Len(runs) /\ runs \in [1 .. Len(runs) -> Batch]
  BY LenProperties DEF TypeInv
<1>2. \A p \in Person : request[p].kind # "off" => Asks(request[p])
  BY DEF TypeInv, TypeOK, Asks
<1>3. \A r \in DOMAIN runs : /\ DOMAIN runs[r].changes \subseteq Object
                             /\ \A o \in DOMAIN runs[r].changes : runs[r].changes[o] \in Before
  BY DEF TypeInv, TypeOK
<1> QED BY <1>1, <1>2, <1>3 DEF NoRun

\* A page's request on one object reads and writes what Posed says: the role's clamp, the next
\* version, and the stamp unless a verdict is taken back.
LEMMA SingleAsks ==
  ASSUME TypeInv, NEW p \in Person, NEW o \in Object, NEW action \in Actions, NEW c \in Class,
         NEW checked, Single(p, o, action, c, checked)
  PROVE  Asking(p)
<1> DEFINE asked == Asked(p, o, action, c)
           state == StateFor(action, asked.state, p, row[o].state)
           edited == Edited(row[o], asked.cls, state, "human")
           kept == [edited EXCEPT !.source = row[o].source]
           new == IF action = "revert" THEN Withdrawn(o, kept) ELSE edited
           q == [kind |-> "single", fresh |-> {x \in {o} : Fresh(p, x)},
                 read |-> [x \in {o} |-> row[x]], write |-> [x \in {o} |-> new],
                 action |-> action, run |-> NoRun]
<1>1. row[o] \in Row /\ page[p][o] \in Row BY DEF TypeInv, TypeOK
<1>2. asked.cls \in Class /\ asked.state \in MaybeState
  BY <1>1 DEF Asked, Actions, MaybeState, State, Row
<1>3. row[o].state \in MaybeState BY <1>1 DEF Row, MaybeState
<1>4. /\ state \in MaybeState
      /\ state = "accepted" => p \in Reviewer
      /\ action = "revert" => state = "review"
  <2>1. action = "revert" => asked.state = "review" BY DEF Asked
  <2> HIDE DEF asked
  <2> QED BY <1>2, <1>3, <2>1, StateForClamped
<1>5. /\ edited \in Row /\ edited.version = row[o].version + 1 /\ edited.stamp = row[o].stamp
      /\ edited.state = IF state = None THEN row[o].state ELSE state
  <2> HIDE DEF asked, state
  <2>1. "human" \in Source BY DEF Source
  <2> QED BY <1>1, <1>2, <1>4, <2>1, EditedFacts
<1>6. /\ kept \in Row /\ kept.version = edited.version /\ kept.state = edited.state
  <2> HIDE DEF edited
  <2>1. row[o].source \in Source BY <1>1 DEF Row
  <2> QED BY <1>5, <2>1 DEF Row
<1>7. /\ Withdrawn(o, kept) \in Row /\ Withdrawn(o, kept).version = kept.version
      /\ Withdrawn(o, kept).state = kept.state
  <2> HIDE DEF kept
  <2>1. CASE verdict[o] = <<>> BY <2>1, <1>6 DEF Withdrawn
  <2>2. CASE verdict[o] # <<>>
    <3>1. verdict[o][1] \in Row BY <2>2 DEF TypeInv, TypeOK
    <3>2. verdict[o][1].source \in Source /\ verdict[o][1].stamp \in Nat BY <3>1 DEF Row
    <3> DEFINE src == verdict[o][1].source
               stp == verdict[o][1].stamp
    <3>3. Withdrawn(o, kept) = [kept EXCEPT !.source = src, !.stamp = stp]
      BY <2>2 DEF Withdrawn
    <3> HIDE DEF src, stp
    <3>4. src \in Source /\ stp \in Nat BY <3>2 DEF src, stp
    <3>5. LET w == [kept EXCEPT !.source = src, !.stamp = stp]
          IN w \in Row /\ w.version = kept.version /\ w.state = kept.state
      BY <1>6, <3>4 DEF Row
    <3> QED BY <3>3, <3>5
  <2> QED BY <2>1, <2>2
<1>8. /\ new \in Row /\ new.version = row[o].version + 1
      /\ new.state = "accepted" =>
           row[o].state = "accepted" \/ (p \in Reviewer /\ action # "revert")
      /\ action # "revert" => new.stamp = row[o].stamp
  <2> HIDE DEF kept, edited, state
  <2>1. CASE action = "revert"
    BY <2>1, <1>4, <1>5, <1>6, <1>7 DEF None
  <2>2. CASE action # "revert"
    BY <2>2, <1>4, <1>5
  <2> QED BY <2>1, <2>2
<1>9. request' = [request EXCEPT ![p] = q] /\ request[p].kind = "off"
  BY DEF Single
<1>10. UNCHANGED <<row, verdict, runs, page, history>> BY DEF Single
<1> HIDE DEF new
<1>11. request'[p] = q BY <1>9 DEF TypeInv
<1>12. Asks(q) BY <1>1, <1>8 DEF Asks
<1>13. Posed(p, q) BY <1>8, <1>12 DEF Posed, Ruling, Fresh
<1> HIDE DEF q
<1> QED BY <1>9, <1>10, <1>11, <1>13 DEF Asking

\* A bulk review's request does: what it means by its verb, on the members it takes.
LEMMA BulkAsks ==
  ASSUME TypeInv, NEW p \in Person, NEW S \in SUBSET Object, NEW action \in Actions,
         NEW c \in Class, NEW checked, Bulk(p, S, action, c, checked)
  PROVE  Asking(p)
<1> DEFINE taken == {o \in S : checked => Fresh(p, o)}
           state == StateFor(action, None, p, None)
           cls(o) == IF action = "reclassify" THEN c ELSE row[o].cls
           write == [o \in taken |-> BulkEdit(row[o], cls(o), state)]
           q == [kind |-> "bulk", fresh |-> {o \in taken : Fresh(p, o)},
                 read |-> [o \in taken |-> row[o]], write |-> write, action |-> action,
                 run |-> NoRun]
<1>1. /\ request' = [request EXCEPT ![p] = q] /\ request[p].kind = "off"
      /\ action # "revert" /\ UNCHANGED <<row, verdict, runs, page, history>>
  BY DEF Bulk
<1>2. state \in MaybeState /\ (state = "accepted" => p \in Reviewer)
  <2>1. None \in MaybeState BY DEF MaybeState
  <2> QED BY <2>1, StateForClamped
<1> HIDE DEF state
<1>3. ASSUME NEW o \in taken
      PROVE  /\ row[o] \in Row /\ write[o] \in Row /\ write[o].version = row[o].version + 1
             /\ write[o].stamp = row[o].stamp
             /\ write[o].state = "accepted" => row[o].state = "accepted" \/ p \in Reviewer
  <2>1. row[o] \in Row /\ o \in Object BY DEF TypeInv, TypeOK
  <2>2. cls(o) \in Class BY <2>1 DEF Row
  <2>3. write[o] = Edited(row[o], cls(o), state, "human") BY DEF BulkEdit
  <2> HIDE DEF cls, write
  <2>4. "human" \in Source BY DEF Source
  <2> QED BY <2>1, <2>2, <2>3, <2>4, <1>2, EditedFacts
<1>4. taken \subseteq Object /\ DOMAIN write = taken OBVIOUS
<1> HIDE DEF write
<1>5. Asks(q) BY <1>3, <1>4 DEF Asks
<1>6. Posed(p, q) BY <1>1, <1>3, <1>4, <1>5 DEF Posed, Ruling, Fresh
<1>7. request'[p] = q BY <1>1 DEF TypeInv
<1> HIDE DEF q
<1> QED BY <1>1, <1>6, <1>7 DEF Asking

\* Taking a batch back does: what the batch recorded, on the objects that carry its stamp.
LEMMA RevertAsks ==
  ASSUME TypeInv, NEW p \in Person, NEW r \in DOMAIN runs, RevertBatch(p, r)
  PROVE  Asking(p)
<1> DEFINE write == [o \in Owned(r) |-> Restored(row[o], runs[r].changes[o])]
           q == [kind |-> "revert", fresh |-> {}, read |-> [o \in Owned(r) |-> row[o]],
                 write |-> write, action |-> "revert", run |-> r]
<1>1. /\ request' = [request EXCEPT ![p] = q] /\ request[p].kind = "off"
      /\ UNCHANGED <<row, verdict, runs, page, history>>
  BY DEF RevertBatch
<1>2. Owned(r) \subseteq DOMAIN runs[r].changes /\ DOMAIN runs[r].changes \subseteq Object
  BY TypeFacts DEF Owned
<1>3. ASSUME NEW o \in Owned(r)
      PROVE  /\ row[o] \in Row /\ write[o] \in Row /\ write[o].version = row[o].version + 1
             /\ write[o].state = runs[r].changes[o].state
             /\ Shown(write[o]) = runs[r].changes[o]
  <2>1. row[o] \in Row BY <1>2 DEF TypeInv, TypeOK
  <2>2. runs[r].changes[o] \in Before BY <1>2, TypeFacts
  <2>3. write[o] = Restored(row[o], runs[r].changes[o]) OBVIOUS
  <2> HIDE DEF write
  <2> QED BY <2>1, <2>2, <2>3, RestoredFacts
<1>4. DOMAIN write = Owned(r) OBVIOUS
<1> HIDE DEF write
<1>5. Asks(q) BY <1>2, <1>3, <1>4 DEF Asks, Actions
<1>6. Posed(p, q) BY <1>3, <1>4, <1>5 DEF Posed, Ruling
<1>7. request'[p] = q BY <1>1 DEF TypeInv
<1> HIDE DEF q
<1> QED BY <1>1, <1>6, <1>7 DEF Asking

\* The steps: what a person looks at, asks, commits or abandons.
LEMMA StepCases ==
  ASSUME TypeInv, [Next]_vars
  PROVE  \/ UNCHANGED vars
         \/ \E p \in Person : OpenPage(p) \/ Asking(p) \/ Commit(p) \/ Abandon(p)
BY SingleAsks, BulkAsks, RevertAsks DEF Next

\* What a commit makes of a row: the columns the request changed; all of what it wrote, where
\* nobody wrote since it read.
LEMMA CommitRows ==
  ASSUME TypeInv, NEW p \in Person, Commit(p)
  PROVE  LET q == request[p]
         IN /\ row' \in [Object -> Row]
            /\ \A o \in Object \ DOMAIN q.read : row'[o] = row[o]
            /\ \A o \in DOMAIN q.read :
                 /\ row'[o].state \in {row[o].state, q.write[o].state}
                 /\ row[o] = q.read[o] =>
                      /\ row'[o].version = q.write[o].version
                      /\ row'[o].stamp = IF q.kind = "bulk" THEN Len(runs) + 1 ELSE q.write[o].stamp
                      /\ Shown(row'[o]) = Shown(q.write[o])
<1> DEFINE q == request[p]
           touched == DOMAIN q.read
           r == Len(runs) + 1
           write == IF q.kind = "bulk" THEN Stamped(q, r) ELSE q.write
<1>1. q.kind # "off" /\ Asks(q) BY TypeFacts DEF Commit
<1>2. row' = [o \in Object |-> IF o \in touched THEN Flush(row[o], q.read[o], write[o]) ELSE row[o]]
  BY DEF Commit
<1>3. r \in Nat BY TypeFacts
<1>4. ASSUME NEW o \in touched
      PROVE  /\ o \in Object /\ row[o] \in Row /\ q.read[o] \in Row /\ q.write[o] \in Row
             /\ write[o] \in Row /\ write[o].state = q.write[o].state
             /\ write[o].version = q.write[o].version /\ Shown(write[o]) = Shown(q.write[o])
             /\ write[o].stamp = IF q.kind = "bulk" THEN r ELSE q.write[o].stamp
  <2>1. o \in Object /\ row[o] \in Row /\ q.read[o] \in Row /\ q.write[o] \in Row
    BY <1>1 DEF Asks, TypeInv, TypeOK
  <2>2. CASE q.kind = "bulk"
    <3>1. o \in DOMAIN q.write BY <1>1 DEF Asks
    <3>2. write[o] = [q.write[o] EXCEPT !.stamp = r] BY <2>2, <3>1 DEF Stamped
    <3> HIDE DEF write, q, r
    <3>3. LET w == [q.write[o] EXCEPT !.stamp = r]
          IN /\ w \in Row /\ w.state = q.write[o].state /\ w.version = q.write[o].version
             /\ w.stamp = r /\ w.cls = q.write[o].cls /\ w.source = q.write[o].source
      BY <2>1, <1>3 DEF Row
    <3> QED BY <2>1, <2>2, <3>2, <3>3 DEF Shown
  <2>3. CASE q.kind # "bulk" BY <2>1, <2>3
  <2> QED BY <2>2, <2>3
<1>5. row \in [Object -> Row] BY DEF TypeInv, TypeOK
<1> HIDE DEF write, q, r
<1>6. row' \in [Object -> Row] BY <1>2, <1>4, <1>5, FlushType
<1>7. ASSUME NEW o \in touched PROVE row'[o].state \in {row[o].state, q.write[o].state}
  <2>1. row'[o] = Flush(row[o], q.read[o], write[o]) BY <1>2, <1>4
  <2> QED BY <2>1, <1>4, FlushState
<1>8. ASSUME NEW o \in touched, row[o] = q.read[o] PROVE row'[o] = write[o]
  <2>1. row'[o] = Flush(row[o], row[o], write[o]) BY <1>2, <1>4, <1>8
  <2> QED BY <2>1, <1>4, FlushFresh
<1>9. \A o \in Object \ touched : row'[o] = row[o] BY <1>2
<1> QED BY <1>4, <1>6, <1>7, <1>8, <1>9 DEF q, r

\* What it makes of the batches: one more, or one reverted, and no other is ever rewritten.
LEMMA CommitRuns ==
  ASSUME TypeInv, NEW p \in Person, Commit(p)
  PROVE  LET q == request[p]
         IN /\ runs' \in Seq(Batch)
            /\ Len(runs') = IF q.kind = "bulk" THEN Len(runs) + 1 ELSE Len(runs)
            /\ \A r \in DOMAIN runs :
                 /\ r \in DOMAIN runs' /\ runs'[r].changes = runs[r].changes
                 /\ runs'[r].status = IF q.kind = "revert" /\ q.run = r THEN "reverted"
                                      ELSE runs[r].status
            /\ q.kind = "bulk" =>
                 /\ DOMAIN runs'[Len(runs) + 1].changes = DOMAIN q.read
                 /\ \A o \in DOMAIN q.read :
                      runs'[Len(runs) + 1].changes[o] = Shown(q.read[o])
<1> DEFINE q == request[p]
           touched == DOMAIN q.read
           record == [o \in touched |-> ChangeRecord(q, o)]
           batch == [status |-> "committed", changes |-> record]
<1>1. q.kind # "off" /\ Asks(q) BY TypeFacts DEF Commit
<1>2. runs \in Seq(Batch) /\ Len(runs) \in Nat /\ DOMAIN runs = 1 .. Len(runs)
  BY TypeFacts DEF TypeInv
<1>3. runs' = CASE q.kind = "single" -> runs
                [] q.kind = "bulk" -> Append(runs, batch)
                [] q.kind = "revert" -> [runs EXCEPT ![q.run].status = "reverted"]
  BY DEF Commit
<1>4. CASE q.kind = "single" BY <1>2, <1>3, <1>4
<1>5. CASE q.kind = "bulk"
  <2>1. touched \subseteq Object /\ \A o \in touched : q.read[o] \in Row BY <1>1 DEF Asks
  <2> HIDE DEF q
  <2>2. \A o \in touched : record[o] = Shown(q.read[o]) /\ record[o] \in Before
    BY <2>1 DEF ChangeRecord, Shown, Before, Row
  <2>3. record \in [touched -> Before] BY <2>2
  <2> HIDE DEF record
  <2>4. batch \in Batch BY <2>1, <2>3 DEF Batch
  <2>5. runs' = Append(runs, batch) BY <1>3, <1>5
  <2>6. batch.changes = record OBVIOUS
  <2>7. DOMAIN record = touched BY <2>3
  <2> HIDE DEF batch
  <2>8. /\ runs' \in Seq(Batch) /\ Len(runs') = Len(runs) + 1
        /\ \A r \in 1 .. Len(runs) : runs'[r] = runs[r]
        /\ runs'[Len(runs) + 1] = batch
    BY <2>4, <2>5, <1>2, AppendProperties
  <2>9. DOMAIN runs' = 1 .. Len(runs) + 1 BY <2>8, LenProperties
  <2> QED BY <1>2, <1>5, <2>2, <2>6, <2>7, <2>8, <2>9 DEF q
<1>6. CASE q.kind = "revert"
  <2>1. q.run \in 1 .. Len(runs) BY <1>1, <1>2, <1>6 DEF Asks
  <2> DEFINE undone == [runs[q.run] EXCEPT !.status = "reverted"]
  <2>2. runs[q.run] \in Batch BY <1>2, <2>1, ElementOfSeq
  <2>3. undone \in Batch /\ undone.status = "reverted" /\ undone.changes = runs[q.run].changes
    BY <2>2 DEF Batch
  <2>4. runs' = [runs EXCEPT ![q.run] = undone] BY <1>3, <1>6
  <2> HIDE DEF undone, q
  <2>5. /\ runs' \in Seq(Batch) /\ Len(runs') = Len(runs)
        /\ \A r \in 1 .. Len(runs) : runs'[r] = IF r = q.run THEN undone ELSE runs[r]
    BY <1>2, <2>1, <2>3, <2>4, ExceptSeq
  <2>6. DOMAIN runs' = 1 .. Len(runs) BY <2>5, LenProperties
  <2> QED BY <1>2, <1>6, <2>3, <2>5, <2>6 DEF q
<1> QED BY <1>1, <1>4, <1>5, <1>6 DEF Asks

LEMMA InitType == Init => TypeInv
<1> SUFFICES ASSUME Init PROVE TypeInv OBVIOUS
<1> DEFINE c0 == CHOOSE c \in Class : TRUE
<1>1. c0 \in Class BY ReviewAssumption
<1> HIDE DEF c0
<1>2. PICK left \in [Object -> InitialState] :
        row = [o \in Object |-> [cls |-> c0, state |-> left[o], source |-> "machine",
                                 version |-> 1, stamp |-> NoRun]]
  BY DEF Init, c0
<1>3. \A o \in Object : left[o] \in State BY ReviewAssumption
<1>4. row \in [Object -> Row] BY <1>1, <1>2, <1>3 DEF Row, Source, NoRun
<1>5. runs = <<>> /\ runs \in Seq(Batch) /\ DOMAIN runs = {} BY EmptySeq DEF Init
<1>6. request = [p \in Person |-> Off] BY DEF Init
<1>7. verdict = [o \in Object |-> <<>>] /\ page = [p \in Person |-> row] BY DEF Init
<1> QED BY <1>4, <1>5, <1>6, <1>7 DEF TypeInv, TypeOK, Off

LEMMA TypeStep ==
  ASSUME TypeInv, [Next]_vars
  PROVE  TypeInv'
<1>1. CASE UNCHANGED vars BY <1>1 DEF TypeInv, TypeOK, vars
<1>2. ASSUME NEW p \in Person, OpenPage(p) PROVE TypeInv'
  BY <1>2 DEF TypeInv, TypeOK, OpenPage
<1>3. ASSUME NEW p \in Person, Asking(p) PROVE TypeInv'
  <2>1. Asks(request'[p]) BY <1>3 DEF Asking, Posed
  <2>2. \A x \in Person : request'[x].kind # "off" => Asks(request'[x])
    BY <1>3, <2>1, TypeFacts DEF Asking, TypeInv
  <2>3. UNCHANGED <<row, verdict, runs, page>> /\ DOMAIN request' = Person
    BY <1>3 DEF Asking, TypeInv
  <2> QED BY <2>2, <2>3 DEF TypeInv, TypeOK, Asks
<1>4. ASSUME NEW p \in Person, Abandon(p) PROVE TypeInv'
  BY <1>4 DEF TypeInv, TypeOK, Abandon, Off
<1>5. ASSUME NEW p \in Person, Commit(p) PROVE TypeInv'
  <2> DEFINE q == request[p]
  <2>1. Asks(q) BY <1>5, TypeFacts DEF Commit
  <2>2. row' \in [Object -> Row] BY <1>5, CommitRows
  <2>3. /\ runs' \in Seq(Batch) /\ DOMAIN runs' = 1 .. Len(runs')
        /\ \A r \in DOMAIN runs : r \in DOMAIN runs'
    BY <1>5, CommitRuns, LenProperties
  <2>4. \A r \in DOMAIN runs' : runs'[r] \in Batch BY <2>3, ElementOfSeq
  <2>5. \A r \in DOMAIN runs' : /\ runs'[r].status \in {"committed", "reverted"}
                                /\ DOMAIN runs'[r].changes \subseteq Object
                                /\ \A o \in DOMAIN runs'[r].changes : runs'[r].changes[o] \in Before
    <3> SUFFICES ASSUME NEW b \in Batch
                 PROVE  /\ b.status \in {"committed", "reverted"} /\ DOMAIN b.changes \subseteq Object
                        /\ \A o \in DOMAIN b.changes : b.changes[o] \in Before
      BY <2>4
    <3>1. PICK S \in SUBSET Object : b.changes \in [S -> Before] BY DEF Batch
    <3> QED BY <3>1 DEF Batch
  <2>6. \A o \in Object : verdict'[o] = <<>> \/ (Len(verdict'[o]) = 1 /\ verdict'[o][1] \in Row)
    <3>1. \A o \in Object : \/ verdict'[o] = verdict[o]
                            \/ o \in DOMAIN q.read /\ verdict'[o] = <<q.read[o]>>
      BY <1>5 DEF Commit
    <3>2. ASSUME NEW o \in DOMAIN q.read, verdict'[o] = <<q.read[o]>>
          PROVE  Len(verdict'[o]) = 1 /\ verdict'[o][1] \in Row
      <4> DEFINE w == q.read[o]
      <4>1. w \in Row BY <2>1 DEF Asks
      <4>2. verdict'[o] = <<w>> BY <3>2
      <4> HIDE DEF w
      <4> QED BY <4>1, <4>2
    <3>3. \A o \in Object : verdict[o] = <<>> \/ (Len(verdict[o]) = 1 /\ verdict[o][1] \in Row)
      BY DEF TypeInv, TypeOK
    <3> HIDE DEF q
    <3> QED BY <3>1, <3>2, <3>3
  <2>7. page' \in [Person -> [Object -> Row]]
    <3>1. page' = [page EXCEPT ![p] = [o \in Object |-> IF o \in DOMAIN q.read THEN row'[o] ELSE page[p][o]]]
      BY <1>5 DEF Commit
    <3>2. page \in [Person -> [Object -> Row]] BY DEF TypeInv, TypeOK
    <3> HIDE DEF q
    <3>3. [o \in Object |-> IF o \in DOMAIN q.read THEN row'[o] ELSE page[p][o]] \in [Object -> Row]
      BY <2>2, <3>2
    <3> QED BY <3>1, <3>2, <3>3
  <2>8. request' = [request EXCEPT ![p] = Off] BY <1>5 DEF Commit
  <2>9. DOMAIN request' = Person BY <2>8 DEF TypeInv
  <2>10. (\A x \in Person : request[x].kind # "off" => Asks(request[x]))'
    <3> SUFFICES ASSUME NEW x \in Person, request'[x].kind # "off" PROVE Asks(request[x])'
      OBVIOUS
    <3>1. request'[x] = request[x] BY <2>8 DEF TypeInv, Off
    <3>2. Asks(request[x]) BY <3>1, TypeFacts
    <3> QED BY <2>3, <3>1, <3>2 DEF Asks
  <2> QED BY <2>2, <2>3, <2>5, <2>6, <2>7, <2>9, <2>10 DEF TypeInv, TypeOK, Asks
<1> QED BY <1>1, <1>2, <1>3, <1>4, <1>5, StepCases

\* Every reachable state is type correct: rows, verdicts and pages hold rows, and a request on its
\* way writes exactly the objects it read (review.py, review_batch.py).
THEOREM TypeCorrect == Spec => []TypeOK
<1>1. Init => TypeInv BY InitType
<1>2. TypeInv /\ [Next]_vars => TypeInv' BY TypeStep
<1>3. TypeInv => TypeOK BY DEF TypeInv
<1> QED BY <1>1, <1>2, <1>3, PTL DEF Spec

-------------------------------------------------------------------------------
(* Approval.  A request may carry "accepted" from the row it read, from the batch it takes back *)
(* or from its own ruling: the first two were approved once, the last is a reviewer's.          *)

ReadsApproved ==
  \A p \in Person : LET q == request[p] IN q.kind # "off" =>
    \A o \in DOMAIN q.read :
      /\ q.read[o].state = "accepted" => o \in history.approved
      /\ q.write[o].state = "accepted" =>
           o \in history.approved \/ (p \in Reviewer /\ Ruling(q))

RunsApproved ==
  \A r \in DOMAIN runs : \A o \in DOMAIN runs[r].changes :
    runs[r].changes[o].state = "accepted" => o \in history.approved

ApprovedInv == AcceptedNeedsReviewer /\ ReadsApproved /\ RunsApproved

LEMMA InitApproved == Init => ApprovedInv
<1> SUFFICES ASSUME Init PROVE ApprovedInv OBVIOUS
<1>1. \A o \in Object : row[o].state # "accepted"
  BY ReviewAssumption DEF Init
<1>2. DOMAIN runs = {} BY EmptySeq DEF Init
<1> QED BY <1>1, <1>2 DEF Init, Off, ApprovedInv, AcceptedNeedsReviewer, ReadsApproved, RunsApproved

LEMMA ApprovedStep ==
  ASSUME TypeInv, ApprovedInv, [Next]_vars
  PROVE  ApprovedInv'
<1>1. CASE UNCHANGED vars
  BY <1>1 DEF vars, ApprovedInv, AcceptedNeedsReviewer, ReadsApproved, RunsApproved, Ruling
<1>2. ASSUME NEW p \in Person, OpenPage(p) PROVE ApprovedInv'
  BY <1>2 DEF OpenPage, ApprovedInv, AcceptedNeedsReviewer, ReadsApproved, RunsApproved, Ruling
<1>3. ASSUME NEW p \in Person, Abandon(p) PROVE ApprovedInv'
  BY <1>3 DEF Abandon, Off, TypeInv, ApprovedInv, AcceptedNeedsReviewer, ReadsApproved,
     RunsApproved, Ruling
<1>4. ASSUME NEW p \in Person, Asking(p) PROVE ApprovedInv'
  <2> DEFINE q == request'[p]
  <2>1. UNCHANGED <<row, verdict, runs, page, history>> /\ Posed(p, q) BY <1>4 DEF Asking
  <2>2. \A x \in Person \ {p} : request'[x] = request[x] BY <1>4 DEF Asking, TypeInv
  <2>3. ASSUME NEW o \in DOMAIN q.read
        PROVE  /\ q.read[o].state = "accepted" => o \in history.approved
               /\ q.write[o].state = "accepted" =>
                    o \in history.approved \/ (p \in Reviewer /\ Ruling(q))
    <3>1. o \in Object /\ q.read[o] = row[o] BY <2>1 DEF Posed, Asks
    <3>2. row[o].state = "accepted" => o \in history.approved
      BY <3>1 DEF ApprovedInv, AcceptedNeedsReviewer
    <3>3. ASSUME q.kind = "revert", runs[q.run].changes[o].state = "accepted"
          PROVE  o \in history.approved
      <4>1. q.run \in DOMAIN runs /\ o \in Owned(q.run) BY <2>1, <3>3 DEF Posed, Asks
      <4> QED BY <3>3, <4>1 DEF Owned, ApprovedInv, RunsApproved
    <3> QED BY <2>1, <3>1, <3>2, <3>3 DEF Posed
  <2>4. ReadsApproved'
    <3> SUFFICES ASSUME NEW x \in Person, request'[x].kind # "off", NEW o \in DOMAIN request'[x].read
                 PROVE  /\ request'[x].read[o].state = "accepted" => o \in history'.approved
                        /\ request'[x].write[o].state = "accepted" =>
                             o \in history'.approved \/ (x \in Reviewer /\ Ruling(request'[x]))
      BY DEF ReadsApproved, Ruling
    <3>1. CASE x = p BY <2>1, <2>3, <3>1
    <3>2. CASE x # p BY <2>1, <2>2, <3>2 DEF ApprovedInv, ReadsApproved, Ruling
    <3> QED BY <3>1, <3>2
  <2> QED BY <2>1, <2>4 DEF ApprovedInv, AcceptedNeedsReviewer, RunsApproved
<1>5. ASSUME NEW p \in Person, Commit(p) PROVE ApprovedInv'
  <2> DEFINE q == request[p]
  <2>1. q.kind # "off" /\ Asks(q) BY <1>5, TypeFacts DEF Commit
  <2>2. history'.approved = history.approved \cup
          {o \in DOMAIN q.read : p \in Reviewer /\ Ruling(q) /\ row'[o].state = "accepted"}
    BY <1>5 DEF Commit, Ruling
  <2>3. AcceptedNeedsReviewer'
    <3> SUFFICES ASSUME NEW o \in Object, row'[o].state = "accepted"
                 PROVE  o \in history'.approved
      BY DEF AcceptedNeedsReviewer
    <3>1. CASE o \notin DOMAIN q.read
      BY <1>5, <2>2, <3>1, CommitRows DEF ApprovedInv, AcceptedNeedsReviewer
    <3>2. CASE o \in DOMAIN q.read
      <4>1. row[o].state = "accepted" \/ q.write[o].state = "accepted"
        BY <1>5, <3>2, CommitRows
      <4> QED BY <2>1, <2>2, <3>2, <4>1
              DEF ApprovedInv, AcceptedNeedsReviewer, ReadsApproved
    <3> QED BY <3>1, <3>2
  <2>4. request' = [request EXCEPT ![p] = Off] BY <1>5 DEF Commit
  <2>5. ReadsApproved'
    <3>1. \A x \in Person : request'[x].kind # "off" => request'[x] = request[x]
      BY <2>4 DEF TypeInv, Off
    <3> QED BY <2>2, <3>1 DEF ApprovedInv, ReadsApproved, Ruling
  <2>6. RunsApproved'
    <3> SUFFICES ASSUME NEW r \in DOMAIN runs', NEW o \in DOMAIN runs'[r].changes,
                        runs'[r].changes[o].state = "accepted"
                 PROVE  o \in history'.approved
      BY DEF RunsApproved
    <3>1. CASE r \in DOMAIN runs
      BY <1>5, <2>2, <3>1, CommitRuns DEF ApprovedInv, RunsApproved
    <3>2. CASE r \notin DOMAIN runs
      <4>1. q.kind = "bulk" /\ r = Len(runs) + 1
        BY <1>5, <3>2, CommitRuns, TypeFacts, LenProperties
      <4>2. o \in DOMAIN q.read /\ q.read[o].state = "accepted"
        <5>1. o \in DOMAIN q.read /\ runs'[r].changes[o] = Shown(q.read[o])
          BY <1>5, <4>1, CommitRuns
        <5> QED BY <5>1 DEF Shown
      <4> QED BY <2>1, <2>2, <4>2 DEF ApprovedInv, ReadsApproved
    <3> QED BY <3>1, <3>2
  <2> QED BY <2>3, <2>5, <2>6 DEF ApprovedInv
<1> QED BY <1>1, <1>2, <1>3, <1>4, <1>5, StepCases

\* Whatever roles edit an object, whatever is taken back and however requests overlap, "accepted"
\* was a reviewer's word at some point (review_policy.py's ceiling, review_batch.py's restore).
THEOREM AcceptedNeedsReviewerAlways == Spec => []AcceptedNeedsReviewer
<1>1. Init => TypeInv /\ ApprovedInv BY InitType, InitApproved
<1>2. TypeInv /\ ApprovedInv /\ [Next]_vars => (TypeInv /\ ApprovedInv)'
  BY TypeStep, ApprovedStep
<1>3. ApprovedInv => AcceptedNeedsReviewer BY DEF ApprovedInv
<1> QED BY <1>1, <1>2, <1>3, PTL DEF Spec

-------------------------------------------------------------------------------
(* Versions.  A version names one row, unless requests that overlapped wrote it: what a page shows *)
(* under the row's version is the row.                                                             *)

PagesBehind ==
  \A p \in Person, o \in Object : o \notin history.raced =>
    /\ page[p][o].version <= row[o].version
    /\ page[p][o].version = row[o].version => page[p][o] = row[o]

RequestsAdvance ==
  \A p \in Person : LET q == request[p] IN q.kind # "off" =>
    \A o \in DOMAIN q.read : /\ q.write[o].version = q.read[o].version + 1
                             /\ o \in q.fresh => q.read[o].version = page[p][o].version

VersionInv == PagesBehind /\ RequestsAdvance

\* What a commit writes on an object that overlapping requests have not both written.
LEMMA CommitUnraced ==
  ASSUME TypeInv, NEW p \in Person, Commit(p)
  PROVE  /\ \A o \in Object : o \notin history'.raced => o \notin history.raced
         /\ \A o \in DOMAIN request[p].read : o \notin history'.raced => row[o] = request[p].read[o]
         /\ request' = [request EXCEPT ![p] = Off]
         /\ \A x \in Person : request'[x].kind # "off" => x # p /\ request'[x] = request[x]
BY DEF Commit, TypeInv, Off

LEMMA VersionStep ==
  ASSUME TypeInv, VersionInv, [Next]_vars
  PROVE  VersionInv'
<1>1. CASE UNCHANGED vars BY <1>1 DEF vars, VersionInv, PagesBehind, RequestsAdvance
<1>2. ASSUME NEW p \in Person, OpenPage(p) PROVE VersionInv'
  <2>1. PagesBehind'
    <3>1. \A o \in Object : row[o].version \in Nat BY DEF TypeInv, TypeOK, Row
    <3> QED BY <1>2, <3>1 DEF OpenPage, VersionInv, PagesBehind, TypeInv, TypeOK
  <2>2. RequestsAdvance'
    BY <1>2 DEF OpenPage, VersionInv, RequestsAdvance, TypeInv, TypeOK
  <2> QED BY <2>1, <2>2 DEF VersionInv
<1>3. ASSUME NEW p \in Person, Abandon(p) PROVE VersionInv'
  BY <1>3 DEF Abandon, Off, TypeInv, VersionInv, PagesBehind, RequestsAdvance
<1>4. ASSUME NEW p \in Person, Asking(p) PROVE VersionInv'
  <2>1. UNCHANGED <<row, page, history>> /\ Posed(p, request'[p]) BY <1>4 DEF Asking
  <2>2. \A x \in Person \ {p} : request'[x] = request[x] BY <1>4 DEF Asking, TypeInv
  <2>3. RequestsAdvance' BY <2>1, <2>2 DEF Posed, VersionInv, RequestsAdvance
  <2> QED BY <2>1, <2>3 DEF VersionInv, PagesBehind
<1>5. ASSUME NEW p \in Person, Commit(p) PROVE VersionInv'
  <2> DEFINE q == request[p]
  <2>1. q.kind # "off" /\ Asks(q) BY <1>5, TypeFacts DEF Commit
  <2>2. page' = [page EXCEPT ![p] = [o \in Object |-> IF o \in DOMAIN q.read THEN row'[o] ELSE page[p][o]]]
    BY <1>5 DEF Commit
  <2>3. page \in [Person -> [Object -> Row]] /\ row \in [Object -> Row] /\ row' \in [Object -> Row]
    BY <1>5, CommitRows DEF TypeInv, TypeOK
  <2>4. ASSUME NEW x \in Person, NEW o \in Object, o \notin history'.raced
        PROVE  /\ page'[x][o].version <= row'[o].version
               /\ page'[x][o].version = row'[o].version => page'[x][o] = row'[o]
    <3>1. /\ page[x][o].version <= row[o].version
          /\ page[x][o].version = row[o].version => page[x][o] = row[o]
      BY <1>5, <2>4, CommitUnraced DEF VersionInv, PagesBehind
    <3>2. row[o].version \in Nat /\ row'[o].version \in Nat /\ page[x][o].version \in Nat
      BY <2>3 DEF Row
    <3>3. CASE o \notin DOMAIN q.read
      <4>1. row'[o] = row[o] BY <1>5, <3>3, CommitRows
      <4>2. page'[x][o] = page[x][o] BY <2>2, <2>3, <3>3
      <4> QED BY <3>1, <4>1, <4>2
    <3>4. CASE o \in DOMAIN q.read
      <4>1. row'[o].version = row[o].version + 1
        <5>1. row[o] = q.read[o] BY <1>5, <2>4, <3>4, CommitUnraced
        <5>2. row'[o].version = q.write[o].version BY <1>5, <3>4, <5>1, CommitRows
        <5> QED BY <2>1, <3>4, <5>1, <5>2 DEF VersionInv, RequestsAdvance
      <4>2. CASE x = p
        <5>1. page'[x][o] = row'[o] BY <2>2, <2>3, <3>4, <4>2
        <5> QED BY <5>1, <3>2
      <4>3. CASE x # p
        <5>1. page'[x][o] = page[x][o] BY <2>2, <2>3, <4>3
        <5> QED BY <3>1, <3>2, <4>1, <5>1
      <4> QED BY <4>2, <4>3
    <3> QED BY <3>3, <3>4
  <2>5. RequestsAdvance'
    <3>1. \A x \in Person : x # p => page'[x] = page[x] BY <2>2, <2>3
    <3> QED BY <1>5, <3>1, CommitUnraced DEF VersionInv, RequestsAdvance
  <2> QED BY <2>4, <2>5 DEF VersionInv, PagesBehind
<1> QED BY <1>1, <1>2, <1>3, <1>4, <1>5, StepCases

LEMMA InitVersion == Init => VersionInv
<1> SUFFICES ASSUME Init PROVE VersionInv OBVIOUS
<1>1. \A o \in Object : row[o].version = 1 BY DEF Init
<1> QED BY <1>1 DEF Init, Off, VersionInv, PagesBehind, RequestsAdvance

\* The step in which a request of p reaches the rows is its commit.
LEMMA CommitsIsCommit ==
  ASSUME TypeInv, [Next]_vars, NEW p \in Person, NEW o \in Object, Commits(p, o)
  PROVE  Commit(p)
<1>1. row' # row /\ request[p].kind # "off" /\ request'[p].kind = "off" BY DEF Commits
<1>2. ~UNCHANGED vars BY <1>1 DEF vars
<1>3. PICK x \in Person : Commit(x)
  BY <1>1, <1>2, StepCases DEF OpenPage, Asking, Abandon
<1>4. x = p BY <1>1, <1>3, CommitUnraced DEF TypeInv
<1> QED BY <1>3, <1>4

\* A request that found its page's version edits the row the page showed: the optimistic lock of
\* review.py, for every object that overlapping requests have not both written.
THEOREM NoBlindEditAlways == Spec => NoBlindEdit
<1>1. Init => TypeInv /\ VersionInv BY InitType, InitVersion
<1>2. TypeInv /\ VersionInv /\ [Next]_vars => (TypeInv /\ VersionInv)'
  BY TypeStep, VersionStep
<1> DEFINE Seen == \A p \in Person, o \in Object :
                     Commits(p, o) /\ o \in request[p].fresh /\ o \notin history'.raced
                       => page[p][o] = row[o]
<1>3. TypeInv /\ VersionInv /\ [Next]_vars => [Seen]_vars
  <2> SUFFICES ASSUME TypeInv, VersionInv, [Next]_vars, NEW p \in Person, NEW o \in Object,
                      Commits(p, o), o \in request[p].fresh, o \notin history'.raced
               PROVE  page[p][o] = row[o]
    OBVIOUS
  <2>1. Commit(p) BY CommitsIsCommit
  <2>2. o \in DOMAIN request[p].read /\ request[p].kind # "off" BY DEF Commits
  <2>3. row[o] = request[p].read[o] /\ o \notin history.raced BY <2>1, <2>2, CommitUnraced
  <2>4. page[p][o].version = row[o].version BY <2>2, <2>3 DEF VersionInv, RequestsAdvance
  <2> QED BY <2>3, <2>4 DEF VersionInv, PagesBehind
<1> QED BY <1>1, <1>2, <1>3, PTL DEF Spec, NoBlindEdit

-------------------------------------------------------------------------------
(* Stamps.  The batch that decided an object last and was not taken back has stamped it. *)

BatchesStamped == \A o \in Object : history.batch[o] # NoRun => row[o].stamp = history.batch[o]

RequestsStamp ==
  \A p \in Person : LET q == request[p] IN q.kind # "off" =>
    /\ \A o \in DOMAIN q.read : /\ Ruling(q) => q.write[o].stamp = q.read[o].stamp
                                /\ q.kind = "revert" => q.read[o].stamp = q.run
    /\ q.kind = "revert" => q.action = "revert"

StampInv == BatchesStamped /\ RequestsStamp

LEMMA InitStamp == Init => StampInv
BY DEF Init, Off, NoRun, StampInv, BatchesStamped, RequestsStamp

LEMMA StampStep ==
  ASSUME TypeInv, StampInv, [Next]_vars
  PROVE  StampInv'
<1>1. CASE UNCHANGED vars BY <1>1 DEF vars, StampInv, BatchesStamped, RequestsStamp, Ruling
<1>2. ASSUME NEW p \in Person, OpenPage(p) PROVE StampInv'
  BY <1>2 DEF OpenPage, StampInv, BatchesStamped, RequestsStamp, Ruling
<1>3. ASSUME NEW p \in Person, Abandon(p) PROVE StampInv'
  BY <1>3 DEF Abandon, Off, TypeInv, StampInv, BatchesStamped, RequestsStamp, Ruling
<1>4. ASSUME NEW p \in Person, Asking(p) PROVE StampInv'
  <2> DEFINE q == request'[p]
  <2>1. UNCHANGED <<row, history>> /\ Posed(p, q) BY <1>4 DEF Asking
  <2>2. \A x \in Person \ {p} : request'[x] = request[x] BY <1>4 DEF Asking, TypeInv
  <2>3. /\ \A o \in DOMAIN q.read : /\ Ruling(q) => q.write[o].stamp = q.read[o].stamp
                                    /\ q.kind = "revert" => q.read[o].stamp = q.run
        /\ q.kind = "revert" => q.action = "revert"
    BY <2>1 DEF Posed, Owned
  <2>4. RequestsStamp' BY <2>2, <2>3 DEF StampInv, RequestsStamp, Ruling
  <2> QED BY <2>1, <2>4 DEF StampInv, BatchesStamped
<1>5. ASSUME NEW p \in Person, Commit(p) PROVE StampInv'
  <2> DEFINE q == request[p]
             r == Len(runs) + 1
  <2>1. q.kind # "off" /\ Asks(q) BY <1>5, TypeFacts DEF Commit
  <2>2. ASSUME NEW o \in Object, history'.batch[o] # NoRun
        PROVE  row'[o].stamp = history'.batch[o]
    <3>1. history'.batch[o] = IF o \in history'.raced THEN NoRun
                              ELSE IF o \notin DOMAIN q.read THEN history.batch[o]
                              ELSE IF q.kind = "bulk" THEN r
                              ELSE IF q.action = "revert" THEN NoRun ELSE history.batch[o]
      BY <1>5 DEF Commit
    <3>2. o \notin history'.raced BY <2>2, <3>1
    <3>3. CASE o \notin DOMAIN q.read
      <4>1. row'[o] = row[o] BY <1>5, <3>3, CommitRows
      <4> QED BY <2>2, <3>1, <3>2, <3>3, <4>1 DEF StampInv, BatchesStamped
    <3>4. CASE o \in DOMAIN q.read
      <4>1. row[o] = q.read[o] BY <1>5, <3>2, <3>4, CommitUnraced
      <4>2. row'[o].stamp = IF q.kind = "bulk" THEN r ELSE q.write[o].stamp
        BY <1>5, <3>4, <4>1, CommitRows
      <4>3. CASE q.kind = "bulk" BY <3>1, <3>2, <3>4, <4>2, <4>3
      <4>4. CASE q.kind # "bulk"
        <5>1. Ruling(q) /\ history'.batch[o] = history.batch[o]
          BY <2>1, <2>2, <3>1, <3>2, <3>4, <4>4 DEF Ruling, StampInv, RequestsStamp
        <5>2. q.write[o].stamp = row[o].stamp
          BY <2>1, <3>4, <4>1, <5>1 DEF StampInv, RequestsStamp
        <5> QED BY <2>2, <4>2, <4>4, <5>1, <5>2 DEF StampInv, BatchesStamped
      <4> QED BY <4>3, <4>4
    <3> QED BY <3>3, <3>4
  <2>3. RequestsStamp' BY <1>5, CommitUnraced DEF StampInv, RequestsStamp, Ruling
  <2> QED BY <2>2, <2>3 DEF StampInv, BatchesStamped
<1> QED BY <1>1, <1>2, <1>3, <1>4, <1>5, StepCases

\* The step that reverts a batch is the commit of a request to revert it.
LEMMA RevertsIsCommit ==
  ASSUME TypeInv, [Next]_vars, NEW r, Reverts(r)
  PROVE  \E p \in Person : Commit(p) /\ request[p].kind = "revert" /\ request[p].run = r
<1>1. r \in DOMAIN runs /\ runs'[r].status # runs[r].status BY DEF Reverts
<1>2. ~UNCHANGED vars BY <1>1 DEF vars
<1>3. PICK p \in Person : Commit(p)
  BY <1>1, <1>2, StepCases DEF OpenPage, Asking, Abandon
<1> QED BY <1>1, <1>3, CommitRuns

\* Taking a batch back leaves what a later batch decided, if nobody took that one back: revert_batch
\* restores only objects that carry the stamp of its run.
THEOREM LaterBatchStandsAlways == Spec => LaterBatchStands
<1>1. Init => TypeInv /\ StampInv BY InitType, InitStamp
<1>2. TypeInv /\ StampInv /\ [Next]_vars => (TypeInv /\ StampInv)' BY TypeStep, StampStep
<1> DEFINE Stands == \A o \in Object, r \in 1 .. MaxRuns :
                       Reverts(r) /\ history.batch[o] > r /\ o \notin history'.raced
                         => row'[o] = row[o]
<1>3. TypeInv /\ StampInv /\ [Next]_vars => [Stands]_vars
  <2> SUFFICES ASSUME TypeInv, StampInv, [Next]_vars, NEW o \in Object, NEW r \in 1 .. MaxRuns,
                      Reverts(r), history.batch[o] > r, o \notin history'.raced
               PROVE  row'[o] = row[o]
    OBVIOUS
  <2>1. PICK p \in Person : Commit(p) /\ request[p].kind = "revert" /\ request[p].run = r
    BY RevertsIsCommit
  <2>2. r \in Nat /\ r >= 1 BY ReviewAssumption
  <2>3. history.batch[o] # NoRun /\ history.batch[o] # r BY <2>2 DEF NoRun
  <2>4. row[o].stamp # r BY <2>3 DEF StampInv, BatchesStamped
  <2>5. CASE o \in DOMAIN request[p].read
    <3>1. row[o] = request[p].read[o] BY <2>1, <2>5, CommitUnraced
    <3> QED BY <2>1, <2>4, <2>5, <3>1 DEF StampInv, RequestsStamp
  <2>6. CASE o \notin DOMAIN request[p].read BY <2>1, <2>6, CommitRows
  <2> QED BY <2>5, <2>6
<1> QED BY <1>1, <1>2, <1>3, PTL DEF Spec, LaterBatchStands

-------------------------------------------------------------------------------
(* Batches taken back.  An object whose latest edit is a batch carries its stamp, and what the *)
(* batch recorded is what the verdict found; a revert that passes it over never will be the    *)
(* latest to find it so.                                                                       *)

EditsKnown == \A o \in Object : history.edit[o] \in 0 .. Len(runs)

BatchesWhole ==
  \A r \in DOMAIN runs, o \in Object : history.edit[o] = r /\ runs[r].status = "committed" =>
    /\ o \in DOMAIN runs[r].changes /\ row[o].stamp = r
    /\ verdict[o] # <<>> /\ runs[r].changes[o] = Shown(verdict[o][1])

RevertsWhole ==
  \A p \in Person : LET q == request[p] IN q.kind = "revert" =>
    /\ \A o \in DOMAIN q.read : Shown(q.write[o]) = runs[q.run].changes[o]
    /\ \A o \in DOMAIN runs[q.run].changes \ DOMAIN q.read :
         history.edit[o] = q.run => runs[q.run].status # "committed"

BulkRules == \A p \in Person : request[p].kind = "bulk" => request[p].action # "revert"

BatchInv == EditsKnown /\ BatchesWhole /\ RevertsWhole /\ BulkRules

LEMMA InitBatch == Init => BatchInv
<1> SUFFICES ASSUME Init PROVE BatchInv OBVIOUS
<1>1. Len(runs) = 0 /\ DOMAIN runs = {} BY EmptySeq DEF Init
<1> QED BY <1>1 DEF Init, Off, NoRun, BatchInv, EditsKnown, BatchesWhole, RevertsWhole, BulkRules

LEMMA BatchStep ==
  ASSUME TypeInv, BatchInv, [Next]_vars
  PROVE  BatchInv'
<1>1. CASE UNCHANGED vars
  BY <1>1 DEF vars, BatchInv, EditsKnown, BatchesWhole, RevertsWhole, BulkRules, Shown
<1>2. ASSUME NEW p \in Person, OpenPage(p) PROVE BatchInv'
  BY <1>2 DEF OpenPage, BatchInv, EditsKnown, BatchesWhole, RevertsWhole, BulkRules, Shown
<1>3. ASSUME NEW p \in Person, Abandon(p) PROVE BatchInv'
  <2>1. UNCHANGED <<row, verdict, runs, history>> BY <1>3 DEF Abandon
  <2>2. \A x \in Person : request'[x].kind = "revert" => request'[x] = request[x]
    BY <1>3 DEF Abandon, Off, TypeInv
  <2>3. RevertsWhole' BY <2>1, <2>2 DEF BatchInv, RevertsWhole, Shown
  <2>4. BulkRules' BY <1>3 DEF Abandon, Off, TypeInv, BatchInv, BulkRules
  <2> QED BY <2>1, <2>3, <2>4 DEF BatchInv, EditsKnown, BatchesWhole, Shown
<1>4. ASSUME NEW p \in Person, Asking(p) PROVE BatchInv'
  <2> DEFINE q == request'[p]
  <2>1. UNCHANGED <<row, verdict, runs, history>> /\ Posed(p, q) BY <1>4 DEF Asking
  <2>2. \A x \in Person \ {p} : request'[x] = request[x] BY <1>4 DEF Asking, TypeInv
  <2>3. ASSUME q.kind = "revert"
        PROVE  /\ \A o \in DOMAIN q.read : Shown(q.write[o]) = runs[q.run].changes[o]
               /\ \A o \in DOMAIN runs[q.run].changes \ DOMAIN q.read :
                    history.edit[o] = q.run => runs[q.run].status # "committed"
    <3>1. DOMAIN q.read = Owned(q.run) /\ q.run \in DOMAIN runs
          /\ \A o \in DOMAIN q.read : Shown(q.write[o]) = runs[q.run].changes[o]
      BY <2>1, <2>3 DEF Posed, Asks
    <3>2. ASSUME NEW o \in DOMAIN runs[q.run].changes \ DOMAIN q.read, history.edit[o] = q.run
          PROVE  runs[q.run].status # "committed"
      <4>1. row[o].stamp # q.run /\ o \in Object BY <3>1, <3>2, TypeFacts DEF Owned
      <4> QED BY <3>1, <3>2, <4>1 DEF BatchInv, BatchesWhole
    <3> QED BY <3>1, <3>2
  <2>4. RevertsWhole' BY <2>1, <2>2, <2>3 DEF BatchInv, RevertsWhole, Shown
  <2>5. BulkRules' BY <2>1, <2>2 DEF Posed, BatchInv, BulkRules
  <2> QED BY <2>1, <2>4, <2>5 DEF BatchInv, EditsKnown, BatchesWhole, Shown
<1>5. ASSUME NEW p \in Person, Commit(p) PROVE BatchInv'
  <2> DEFINE q == request[p]
             n == Len(runs) + 1
             edit == CASE q.kind = "single" -> NoRun [] q.kind = "bulk" -> n
                       [] q.kind = "revert" -> q.run
  <2>1. q.kind # "off" /\ Asks(q) BY <1>5, TypeFacts DEF Commit
  <2>2. \A o \in Object : history'.edit[o] = IF o \in history'.raced THEN NoRun
                                             ELSE IF o \in DOMAIN q.read THEN edit
                                             ELSE history.edit[o]
    <3>1. CASE q.kind = "single" BY <1>5, <3>1 DEF Commit
    <3>2. CASE q.kind = "bulk" BY <1>5, <3>2 DEF Commit
    <3>3. CASE q.kind = "revert" BY <1>5, <3>3 DEF Commit
    <3> QED BY <2>1, <3>1, <3>2, <3>3 DEF Asks
  <2>3. /\ Len(runs) \in Nat /\ DOMAIN runs = 1 .. Len(runs)
        /\ q.kind = "revert" => q.run \in DOMAIN runs
    BY <2>1, TypeFacts DEF Asks
  <2>4. /\ DOMAIN runs' = 1 .. Len(runs') /\ Len(runs') \in Nat
        /\ Len(runs') = IF q.kind = "bulk" THEN n ELSE Len(runs)
        /\ \A r \in DOMAIN runs :
             /\ r \in DOMAIN runs' /\ runs'[r].changes = runs[r].changes
             /\ runs'[r].status = "committed" =>
                  runs[r].status = "committed" /\ ~(q.kind = "revert" /\ q.run = r)
    <3>1. runs' \in Seq(Batch) BY <1>5, CommitRuns
    <3> QED BY <1>5, <3>1, CommitRuns, LenProperties
  <2>5. EditsKnown'
    <3>1. \A o \in Object : history.edit[o] \in 0 .. Len(runs) BY DEF BatchInv, EditsKnown
    <3>2. edit \in 0 .. Len(runs') BY <2>1, <2>3, <2>4 DEF Asks, NoRun
    <3>3. 0 \in 0 .. Len(runs') /\ Len(runs) <= Len(runs') BY <2>3, <2>4
    <3> HIDE DEF edit
    <3> QED BY <2>2, <2>3, <2>4, <3>1, <3>2, <3>3 DEF EditsKnown, NoRun
  <2>6. ASSUME NEW r \in DOMAIN runs', NEW o \in Object, history'.edit[o] = r,
               runs'[r].status = "committed"
        PROVE  /\ o \in DOMAIN runs'[r].changes /\ row'[o].stamp = r
               /\ verdict'[o] # <<>> /\ runs'[r].changes[o] = Shown(verdict'[o][1])
    <3>1. o \notin history'.raced BY <2>2, <2>4, <2>6 DEF NoRun
    <3>2. CASE o \notin DOMAIN q.read
      <4>1. history.edit[o] = r BY <2>2, <2>6, <3>1, <3>2
      <4>2. r \in DOMAIN runs BY <2>3, <2>4, <2>6, <4>1 DEF BatchInv, EditsKnown
      <4>3. row'[o] = row[o] BY <1>5, <3>2, CommitRows
      <4>4. verdict'[o] = verdict[o] BY <1>5, <3>2 DEF Commit
      <4> QED BY <2>4, <2>6, <4>1, <4>2, <4>3, <4>4 DEF BatchInv, BatchesWhole
    <3>3. CASE o \in DOMAIN q.read
      <4>1. edit = r BY <2>2, <2>6, <3>1, <3>3
      <4>2. q.kind = "bulk" /\ r = n
        BY <2>1, <2>3, <2>4, <2>6, <4>1 DEF Asks, NoRun
      <4>3. row[o] = q.read[o] BY <1>5, <3>1, <3>3, CommitUnraced
      <4>4. row'[o].stamp = r BY <1>5, <3>3, <4>2, <4>3, CommitRows
      <4>5. o \in DOMAIN runs'[r].changes /\ runs'[r].changes[o] = Shown(q.read[o])
        BY <1>5, <3>3, <4>2, CommitRuns
      <4>6. verdict'[o] = <<q.read[o]>>
        <5>1. q.action # "revert" BY <4>2 DEF BatchInv, BulkRules
        <5> QED BY <1>5, <3>3, <4>2, <5>1 DEF Commit
      <4> QED BY <4>4, <4>5, <4>6
    <3> QED BY <3>2, <3>3
  <2>7. RevertsWhole'
    <3> SUFFICES ASSUME NEW x \in Person, request'[x].kind = "revert"
                 PROVE  LET u == request'[x]
                        IN /\ \A o \in DOMAIN u.read : Shown(u.write[o]) = runs'[u.run].changes[o]
                           /\ \A o \in DOMAIN runs'[u.run].changes \ DOMAIN u.read :
                                history'.edit[o] = u.run => runs'[u.run].status # "committed"
      BY DEF RevertsWhole, Shown
    <3> DEFINE u == request'[x]
    <3>1. u = request[x] /\ u.kind = "revert" BY <1>5, CommitUnraced
    <3>2. u.run \in DOMAIN runs BY <3>1, TypeFacts DEF Asks
    <3>3. runs'[u.run].changes = runs[u.run].changes BY <2>4, <3>2
    <3>4. \A o \in DOMAIN u.read : Shown(u.write[o]) = runs'[u.run].changes[o]
      BY <3>1, <3>3 DEF BatchInv, RevertsWhole
    <3>5. ASSUME NEW o \in DOMAIN runs'[u.run].changes \ DOMAIN u.read,
                 history'.edit[o] = u.run, runs'[u.run].status = "committed"
          PROVE  FALSE
      <4>1. runs[u.run].status = "committed" /\ ~(q.kind = "revert" /\ q.run = u.run)
        BY <2>4, <3>2, <3>5
      <4>2. history.edit[o] # u.run BY <3>1, <3>3, <3>5, <4>1 DEF BatchInv, RevertsWhole
      <4>3. o \in Object /\ u.run \in Nat /\ u.run # NoRun /\ u.run <= Len(runs)
        BY <3>2, <3>3, <3>5, TypeFacts
      <4>4. edit = u.run BY <2>2, <3>5, <4>2, <4>3
      <4>5. edit # u.run BY <2>1, <2>3, <4>1, <4>3 DEF Asks, NoRun
      <4> QED BY <4>4, <4>5
    <3> QED BY <3>4, <3>5
  <2>8. BulkRules' BY <1>5, CommitUnraced DEF BatchInv, BulkRules, Off, TypeInv, Commit
  <2> QED BY <2>5, <2>6, <2>7, <2>8 DEF BatchInv, BatchesWhole
<1> QED BY <1>1, <1>2, <1>3, <1>4, <1>5, StepCases

\* A batch that nothing followed comes back whole: each of its objects is what the batch found, in
\* class, state and source (change_record and restore in review_batch.py).
THEOREM BatchComesBackAlways == Spec => BatchComesBack
<1> DEFINE Inv == TypeInv /\ StampInv /\ BatchInv
<1>1. Init => Inv BY InitType, InitStamp, InitBatch
<1>2. Inv /\ [Next]_vars => Inv' BY TypeStep, StampStep, BatchStep
<1> DEFINE Whole == \A r \in 1 .. MaxRuns : Reverts(r) =>
                      \A o \in DOMAIN runs[r].changes :
                        history.edit[o] = r /\ o \notin history'.raced
                          => Shown(row'[o]) = Shown(verdict[o][1])
<1>3. Inv /\ [Next]_vars => [Whole]_vars
  <2> SUFFICES ASSUME TypeInv, StampInv, BatchInv, [Next]_vars, NEW r \in 1 .. MaxRuns, Reverts(r),
                      NEW o \in DOMAIN runs[r].changes, history.edit[o] = r, o \notin history'.raced
               PROVE  Shown(row'[o]) = Shown(verdict[o][1])
    OBVIOUS
  <2>1. PICK p \in Person : Commit(p) /\ request[p].kind = "revert" /\ request[p].run = r
    BY RevertsIsCommit
  <2>2. r \in DOMAIN runs /\ runs[r].status = "committed" BY DEF Reverts
  <2>3. o \in Object BY <2>2, TypeFacts
  <2>4. runs[r].changes[o] = Shown(verdict[o][1]) BY <2>2, <2>3 DEF BatchInv, BatchesWhole
  <2>5. o \in DOMAIN request[p].read BY <2>1, <2>2 DEF BatchInv, RevertsWhole
  <2>6. row[o] = request[p].read[o] BY <2>1, <2>5, CommitUnraced
  <2>7. Shown(row'[o]) = Shown(request[p].write[o]) BY <2>1, <2>5, <2>6, CommitRows
  <2> QED BY <2>1, <2>4, <2>5, <2>7 DEF BatchInv, RevertsWhole
<1> QED
  <2> HIDE DEF Inv
  <2> QED BY <1>1, <1>2, <1>3, PTL DEF Spec, BatchComesBack
=============================================================================
