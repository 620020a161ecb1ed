------------------------------ MODULE JobQueue ------------------------------
(* What the job tables promise whoever submits a job: a queue of leases.  A *)
(* job waits, one process holds it at a time, its lease may lapse when that *)
(* process dies or be given back when it is stopped, and it ends once.      *)
(* Module Jobs is shown to implement it while nobody cancels and the worker *)
(* keeps its lock.                                                          *)
EXTENDS Naturals

CONSTANTS Job,        \* the jobs
          Holder,     \* the processes that may hold one
          Nobody      \* no process

VARIABLES life,       \* life[j]: where job j is
          holder      \* holder[j]: the process working on it, or Nobody

vars == <<life, holder>>

Life == {"absent", "waiting", "held", "ended"}

TypeOK == /\ life \in [Job -> Life]
          /\ holder \in [Job -> Holder \cup {Nobody}]

Init == /\ life = [j \in Job |-> "absent"]
        /\ holder = [j \in Job |-> Nobody]

Move(j, from, to, h) ==
  /\ life[j] = from
  /\ life' = [life EXCEPT ![j] = to]
  /\ holder' = [holder EXCEPT ![j] = h]

Submit(j) == Move(j, "absent", "waiting", Nobody)

\* A process holds at most one job.
Take(j, h) == /\ \A k \in Job : holder[k] # h
              /\ Move(j, "waiting", "held", h)

Lapse(j) == /\ holder[j] # Nobody
            /\ Move(j, "held", "held", Nobody)

\* A stop gives back the holder's job, a recovery every job whose lease lapsed.
GiveBack(S) ==
  /\ S # {}
  /\ \A j \in S : life[j] = "held"
  /\ \E over \in SUBSET S :
       /\ \A j \in over : holder[j] = Nobody
       /\ life' = [j \in Job |-> IF j \in over THEN "ended"
                                 ELSE IF j \in S THEN "waiting" ELSE life[j]]
  /\ holder' = [j \in Job |-> IF j \in S THEN Nobody ELSE holder[j]]

\* Only its holder ends a job that is held.
Finish(j) == /\ holder[j] # Nobody
             /\ Move(j, "held", "ended", Nobody)

Next == \/ \E j \in Job : Submit(j) \/ Lapse(j) \/ Finish(j)
        \/ \E j \in Job, h \in Holder : Take(j, h)
        \/ \E S \in SUBSET Job : GiveBack(S)

Spec == Init /\ [][Next]_vars
=============================================================================
