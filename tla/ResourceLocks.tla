--------------------------- MODULE ResourceLocks ---------------------------
(***************************************************************************)
(* pkg/common/lock.go: the table of resource ids some RPC is working on.   *)
(* It lives in the memory of one driver process; every replica of the      *)
(* controller Deployment has its own.  TryAcquire never blocks: a handler  *)
(* that does not get the id answers Aborted.  The mutex inside the Go type *)
(* makes each of the two operations atomic.                                *)
(***************************************************************************)
CONSTANT Replicas   \* driver processes, each with its own table

VARIABLE locks      \* locks[r]: the ids held in the process r

(***************************************************************************)
(* Deliberately broken forms, one per plausible slip in lock.go; none is   *)
(* part of the specification.                                              *)
(***************************************************************************)

\* The id is not entered into the table.
TryAcquireWithoutInsert(r, id) == id \notin locks[r] /\ UNCHANGED locks

\* A handler's deferred Release is missing.
ReleaseNothing(r, id) == UNCHANGED locks

-----------------------------------------------------------------------------
NewResourceLocks == locks = [r \in Replicas |-> {}]

IsLocked(r, id) == id \in locks[r]

\* TryAcquire returning true; TryAcquire returning false is IsLocked.
TryAcquire(r, id) ==
  /\ ~IsLocked(r, id)
  /\ locks' = [locks EXCEPT ![r] = @ \union {id}]

Release(r, id) == locks' = [locks EXCEPT ![r] = @ \ {id}]

\* A process that restarts begins with an empty table: nothing is persisted.
LoseLocks(r) == locks' = [locks EXCEPT ![r] = {}]
=============================================================================
