------------------------------- MODULE Exports -------------------------------
(***************************************************************************)
(* One export job: the plain run, the run in chunks that a resume starts,  *)
(* its checkpoint, the shards on disk, the assembly of the archive, the    *)
(* sealed commit and the uploaded files, while the corpus goes on changing *)
(* and the process may die.  services/export/resumable.py, the export job  *)
(* of routers/datasets.py and export_dataset of services/export/dataset.py *)
(* with the sweep of services/job_reaper.py and the cancel of job_control. *)
(*                                                                         *)
(* An object is in the slice with a label, or out of it.  A digest is the  *)
(* set of object ids it hashes, and so is a commit id, since specification *)
(* and ontology stay the same; a fingerprint is the labelled slice.        *)
(* Splits, formats, the datasheet and billing are left out.                *)
(***************************************************************************)
EXTENDS Naturals, FiniteSets

CONSTANTS
  Objects, Size,   \* objects in export order, and CHUNK_SIZE
  Label, Out,      \* labels, and what an object outside the slice has instead
  Runner,          \* requests and tasks that may run the export
  Moves,           \* how the corpus changes: subset of {"leave", "join", "relabel"}
  Patient,         \* BOOLEAN: the sweep takes no running export for dead
  MaxEdits, MaxCrashes, MaxFails, MaxCancels   \* bounds

ASSUME ExportsAssumption ==
  /\ Objects \subseteq Nat \ {0} /\ IsFiniteSet(Objects) /\ Size \in Nat \ {0}
  /\ Label # {} /\ Out \notin Label /\ Patient \in BOOLEAN
  /\ Moves \subseteq {"leave", "join", "relabel"}
  /\ MaxEdits \in Nat /\ MaxCrashes \in Nat /\ MaxFails \in Nat /\ MaxCancels \in Nat

VARIABLES
  label,    \* label[o]: the corpus
  job,      \* the ExportJob row: status, checkpoint, commit id
  disk,     \* disk[<<d, i>>]: the shard of chunk i in the directory of commit d
  sealed,   \* sealed[d]: the fingerprint on the DatasetCommit row of commit d
  store,    \* store[d]: the files and the shards uploaded for commit d
  runner,   \* runner[r]: where a run of the export is
  history   \* what the bounds count

vars == <<label, job, disk, sealed, store, runner, history>>

NoDir == {0}   \* no commit: there is no object 0
Status == {"pending", "running", "done", "error", "canceled"}
Index == 0..Cardinality(Objects)
Dirs == SUBSET Objects
Content == UNION {[S -> Label] : S \in Dirs}
NoPoint == [done |-> {}, digest |-> <<>>, dir |-> NoDir]
Off == [pc |-> "off", cp |-> NoPoint, slice |-> <<>>, verified |-> {}, files |-> <<>>, chunked |-> FALSE]

Checkpoint(cp) == /\ cp.done \subseteq Index /\ (cp.dir \in Dirs \/ cp.dir = NoDir)
                  /\ cp.done \subseteq DOMAIN cp.digest
                  /\ \A i \in DOMAIN cp.digest : cp.digest[i] \in Dirs

TypeOK ==
  /\ label \in [Objects -> Label \cup {Out}]
  /\ job.status \in Status /\ Checkpoint(job.cp) /\ (job.commit \in Dirs \/ job.commit = NoDir)
  /\ DOMAIN disk \subseteq Dirs \X Index /\ \A k \in DOMAIN disk : disk[k] \in Content
  /\ \A d \in DOMAIN sealed : d \in Dirs /\ DOMAIN sealed[d] = d
  /\ \A d \in DOMAIN store : DOMAIN store[d].files = d /\ DOMAIN store[d].shards \subseteq Index
  /\ \A r \in Runner :
       /\ runner[r].pc \in {"off", "fetch", "chunk", "record", "assemble", "seal", "upload", "done", "note"}
       /\ Checkpoint(runner[r].cp) /\ runner[r].slice \in Content /\ runner[r].files \in Content

Init ==
  /\ label = [o \in Objects |-> CHOOSE l \in Label : TRUE]
  /\ job = [status |-> "pending", cp |-> NoPoint, commit |-> NoDir]
  /\ disk = <<>> /\ sealed = <<>> /\ store = <<>>
  /\ runner = [r \in Runner |-> Off]
  /\ history = [edits |-> 0, crashes |-> 0, fails |-> 0, cancels |-> 0]

-----------------------------------------------------------------------------
(* The slice and its chunks. *)

Slice == [o \in {x \in Objects : label[x] # Out} |-> label[o]]

\* f, with k -> e added or replaced.
Put(f, k, e) == [x \in DOMAIN f \cup {k} |-> IF x = k THEN e ELSE f[x]]

Part(content, S) == [o \in S |-> content[o]]

ChunkIds(S, i) == {o \in S : Cardinality({v \in S : v < o}) \div Size = i}
Chunks(S) == {i \in Index : ChunkIds(S, i) # {}}

\* Mutant of Verified: the record is trusted.
VerifiedUnread(cp, S) == cp.done

\* The chunks of the checkpoint that cover the records in front of us.
Verified(cp, S) == {i \in cp.done \cap Chunks(S) : cp.digest[i] = ChunkIds(S, i)}

\* Mutant of OutDir: each attempt has the directory of its own slice.
OutDirFresh(cp, S) == S

OutDir(cp, S) == IF cp.dir = NoDir THEN S ELSE cp.dir

-----------------------------------------------------------------------------
(* The corpus, and what can happen to a job. *)

Edit ==
  /\ history.edits < MaxEdits
  /\ \E o \in Objects, l \in Label \cup {Out} :
       /\ label[o] # l
       /\ (CASE l = Out -> "leave" [] label[o] = Out -> "join" [] OTHER -> "relabel") \in Moves
       /\ label' = [label EXCEPT ![o] = l]
  /\ history' = [history EXCEPT !.edits = @ + 1]
  /\ UNCHANGED <<job, disk, sealed, store, runner>>

At(r, pc) == runner[r].pc = pc
Goto(r, pc) == runner' = [runner EXCEPT ![r].pc = pc]
Stop(r) == runner' = [runner EXCEPT ![r] = Off]
Shard(r, i, content) == disk' = Put(disk, <<runner[r].cp.dir, i>>, content)
Todo(r) == Chunks(DOMAIN runner[r].slice) \ runner[r].cp.done
Current(r) == CHOOSE i \in Todo(r) : \A j \in Todo(r) : i <= j

\* A shard may be cut short by it.
Crash ==
  /\ history.crashes < MaxCrashes /\ \E r \in Runner : ~At(r, "off")
  /\ history' = [history EXCEPT !.crashes = @ + 1]
  /\ runner' = [r \in Runner |-> Off]
  /\ \/ UNCHANGED disk
     \/ \E r \in Runner : At(r, "chunk") /\ Todo(r) # {} /\ Shard(r, Current(r), <<>>)
  /\ UNCHANGED <<label, job, sealed, store>>

\* Mutant of Sweepable: a task that ran is left alone.
SweepableQueued == {"pending"}

\* sweepable_statuses of a job that the API itself spawns.
Sweepable == {"pending", "running"}

\* Mutant of Reaped: the word agent runs use.
ReapedInterrupted == "interrupted"

Reaped == "error"

\* reap_stale_jobs, at start-up and on the daemon's cadence.
Reap ==
  /\ job.status \in Sweepable
  /\ Patient => \A r \in Runner : At(r, "off")
  /\ job' = [job EXCEPT !.status = Reaped]
  /\ UNCHANGED <<label, disk, sealed, store, runner, history>>

Cancel ==
  /\ history.cancels < MaxCancels /\ job.status \in {"pending", "running"}
  /\ job' = [job EXCEPT !.status = "canceled"]
  /\ history' = [history EXCEPT !.cancels = @ + 1]
  /\ UNCHANGED <<label, disk, sealed, store, runner>>

-----------------------------------------------------------------------------
(* A run of the export. *)

\* _run_export: everything in one go.
RunPlain(r) ==
  /\ At(r, "off") /\ job.status = "pending"
  /\ job' = [job EXCEPT !.status = "running"]
  /\ Goto(r, "assemble")
  /\ UNCHANGED <<label, disk, sealed, store, history>>

\* resume_export: refused only for a job that is done.
Resume(r) ==
  /\ At(r, "off") /\ job.status \notin {"pending", "done"}
  /\ job' = [job EXCEPT !.status = "running"]
  /\ runner' = [runner EXCEPT ![r] = [Off EXCEPT !.pc = "fetch", !.cp = job.cp, !.chunked = TRUE]]
  /\ UNCHANGED <<label, disk, sealed, store, history>>

Fetch(r) ==
  /\ At(r, "fetch")
  /\ LET S == DOMAIN Slice
         cp == runner[r].cp IN
     IF S = {}
     THEN /\ job' = [job EXCEPT !.status = "done"]
          /\ Stop(r)
     ELSE /\ runner' = [runner EXCEPT ![r] =
               [runner[r] EXCEPT !.pc = "chunk", !.slice = Slice, !.verified = Verified(cp, S),
                                 !.cp.done = Verified(cp, S), !.cp.dir = OutDir(cp, S)]]
          /\ UNCHANGED job
  /\ UNCHANGED <<label, disk, sealed, store, history>>

WriteChunk(r) ==
  /\ At(r, "chunk") /\ Todo(r) # {}
  /\ Shard(r, Current(r), Part(runner[r].slice, ChunkIds(DOMAIN runner[r].slice, Current(r))))
  /\ Goto(r, "record")
  /\ UNCHANGED <<label, job, sealed, store, history>>

\* _set_progress: the checkpoint with the chunk and its digest.
RecordChunk(r) ==
  /\ At(r, "record")
  /\ LET i == Current(r)
         cp == [runner[r].cp EXCEPT !.done = @ \cup {i},
                                    !.digest = Put(@, i, ChunkIds(DOMAIN runner[r].slice, i))] IN
     /\ job' = [job EXCEPT !.cp = cp]
     /\ runner' = [runner EXCEPT ![r].cp = cp, ![r].pc = "chunk"]
  /\ UNCHANGED <<label, disk, sealed, store, history>>

\* The disk is full: the shard may be cut short, and the checkpoint stays with the job.
ChunkFails(r) ==
  /\ At(r, "chunk") /\ Todo(r) # {} /\ history.fails < MaxFails
  /\ Shard(r, Current(r), <<>>) \/ UNCHANGED disk
  /\ job' = [job EXCEPT !.cp = runner[r].cp, !.status = "error"]
  /\ Stop(r)
  /\ history' = [history EXCEPT !.fails = @ + 1]
  /\ UNCHANGED <<label, sealed, store>>

\* export_dataset fetches the slice a second time.
Assemble(r) ==
  /\ At(r, "assemble") \/ (At(r, "chunk") /\ Todo(r) = {})
  /\ runner' = [runner EXCEPT ![r].pc = "seal", ![r].files = Slice]
  /\ UNCHANGED <<label, job, disk, sealed, store, history>>

\* The gate refuses, or a writer fails: only the plain run catches it.
AssembleFails(r) ==
  /\ At(r, "assemble") \/ (At(r, "chunk") /\ Todo(r) = {}) \/ At(r, "seal") \/ At(r, "upload")
  /\ history.fails < MaxFails
  /\ job' = IF runner[r].chunked THEN job ELSE [job EXCEPT !.status = "error"]
  /\ Stop(r)
  /\ history' = [history EXCEPT !.fails = @ + 1]
  /\ UNCHANGED <<label, disk, sealed, store>>

\* The DatasetCommit row, if this commit has none.
Seal(r) ==
  /\ At(r, "seal")
  /\ LET d == DOMAIN runner[r].files IN
     sealed' = IF d \in DOMAIN sealed THEN sealed ELSE Put(sealed, d, runner[r].files)
  /\ Goto(r, "upload")
  /\ UNCHANGED <<label, job, disk, store, history>>

ShardsIn(d) == [i \in {j \in Index : <<d, j>> \in DOMAIN disk} |-> disk[<<d, i>>]]

\* _upload_dir: everything below the commit's directory, the shards with it.
Upload(r) ==
  /\ At(r, "upload")
  /\ LET d == DOMAIN runner[r].files IN
     store' = Put(store, d, [files |-> runner[r].files, shards |-> ShardsIn(d)])
  /\ Goto(r, "done")
  /\ UNCHANGED <<label, job, disk, sealed, history>>

\* The plain run writes status and commit id together; the run in chunks the status first.
Done(r) ==
  /\ At(r, "done")
  /\ job' = [job EXCEPT !.status = "done",
                        !.cp = IF runner[r].chunked THEN runner[r].cp ELSE @,
                        !.commit = IF runner[r].chunked THEN @ ELSE DOMAIN runner[r].files]
  /\ IF runner[r].chunked THEN Goto(r, "note") ELSE Stop(r)
  /\ UNCHANGED <<label, disk, sealed, store, history>>

Note(r) ==
  /\ At(r, "note")
  /\ job' = [job EXCEPT !.commit = DOMAIN runner[r].files]
  /\ Stop(r)
  /\ UNCHANGED <<label, disk, sealed, store, history>>

Step(r) == \/ Fetch(r) \/ WriteChunk(r) \/ RecordChunk(r) \/ Assemble(r)
           \/ Seal(r) \/ Upload(r) \/ Done(r) \/ Note(r)

Next == \/ Edit \/ Crash \/ Reap \/ Cancel
        \/ \E r \in Runner : RunPlain(r) \/ Resume(r) \/ Step(r) \/ ChunkFails(r) \/ AssembleFails(r)

Spec == Init /\ [][Next]_vars

\* list_resumable.
Listed == job.status = "error" /\ job.cp.done # {}

\* Tasks run on, the daemon sweeps, and somebody resumes what is listed.
Fairness == /\ WF_vars(Reap)
            /\ \A r \in Runner : WF_vars(Step(r)) /\ WF_vars(Listed /\ Resume(r))

FairSpec == Spec /\ Fairness

-----------------------------------------------------------------------------
(* Properties. *)

(* A chunk that a resumed run skips has a shard in the directory it writes  *)
(* to, with exactly the records of that chunk (resumable.py: a resume       *)
(* verifies the chunks already done rather than trusting the record).       *)
SkippedIsWritten ==
  \A r \in Runner : At(r, "chunk") => \A i \in runner[r].verified :
    LET k == <<runner[r].cp.dir, i>> IN
    k \in DOMAIN disk /\ DOMAIN disk[k] = ChunkIds(DOMAIN runner[r].slice, i)

(* The shards uploaded with an archive, if there are any, are the records   *)
(* of the archive: none missing, none twice, none of another slice.         *)
ShardsAreTheArchive ==
  \A d \in DOMAIN store : LET shards == store[d].shards IN
    DOMAIN shards # {} => \A i \in Index :
      IF i \in Chunks(d) THEN i \in DOMAIN shards /\ DOMAIN shards[i] = ChunkIds(d, i)
      ELSE i \notin DOMAIN shards

(* An export that is listed as resumable ends: in an archive, cancelled,    *)
(* or, once the corpus has left its checkpoint behind, in an error that     *)
(* keeps nothing.                                                           *)
ListedExportEnds ==
  Listed ~> (job.status \in {"done", "canceled"} \/ (job.status = "error" /\ job.cp.done = {}))

(* An archive is of one version of the corpus: its shards carry the labels  *)
(* of its files (_verify_checkpoint, on an object reviewed in between).     *)
NotStitched ==
  \A d \in DOMAIN store : \A i \in DOMAIN store[d].shards :
    \A o \in DOMAIN store[d].shards[i] : store[d].files[o] = store[d].shards[i][o]

(* The fingerprint sealed for a commit is that of the files delivered under *)
(* it.                                                                      *)
SealFits == \A d \in DOMAIN store : sealed[d] = store[d].files

(* A job cancelled stays cancelled until it is resumed.                     *)
CancelStands == [][job.status = "canceled" => job'.status # "done"]_vars
=============================================================================
