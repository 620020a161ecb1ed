--------------------------------- MODULE Orm ---------------------------------
(***************************************************************************)
(* What one SQLAlchemy session writes.  The session maker of this code is  *)
(* built with expire_on_commit=False (db/session.py), so an entity keeps   *)
(* the values its session loaded until the session is closed, whatever     *)
(* other transactions commit, and Session.get returns that same entity     *)
(* again.  A flush emits an UPDATE that names only the columns whose       *)
(* current value differs from the loaded one.                              *)
(***************************************************************************)

\* Mutant of Flush: every column of the session's copy is written.
FlushAll(row, loaded, current) == current

(* The row after a session that loaded the columns as `loaded` and holds   *)
(* them as `current` flushes: columns it did not change keep what the      *)
(* database holds, even where the session's own copy is stale.             *)
Flush(row, loaded, current) ==
  [c \in DOMAIN row |-> IF current[c] # loaded[c] THEN current[c] ELSE row[c]]
=============================================================================
