------------------------------ MODULE Recovery ------------------------------
(***************************************************************************)
(* RecoveryState of core/recovery.py: the durable record that bounds how   *)
(* often one ticket may be repaired, and the decisions taken from it.      *)
(*                                                                         *)
(* Token amounts are counted in planned runs: every accounted run, with    *)
(* reported or with unknown usage, costs one unit, and the next run needs  *)
(* one more.  A failure context is kept only as "the cycle it was recorded *)
(* in"; whether it repeats an earlier one is an input.                     *)
(***************************************************************************)
EXTENDS Integers, FiniteSets

CONSTANTS
  MaxAttempts,   \* RecoveryPolicy.max_attempts
  MaxTokens      \* RecoveryPolicy.max_fresh_tokens, in planned runs

ASSUME RecoveryAssumption == MaxAttempts \in Nat /\ MaxTokens \in Nat

Statuses == {"ready", "running", "stopped", "verified"}

\* Reasons to stop. Only "is there one" is ever tested by the code.
StopReasons == {"none", "cancelled", "limit", "blocked", "interrupted", "invalid"}

NoCycle == -1

Fresh(ticket) ==
  [task |-> ticket, status |-> "ready", stop |-> "none", attempts |-> 0,
   cycle |-> NoCycle, started |-> FALSE, late |-> FALSE, accounted |-> {}]

\* account(): idempotent in the run identifier.
Account(r, id) == [r EXCEPT !.accounted = @ \cup {id}]

Spent(r) == Cardinality(r.accounted)

\* Fault: one repair too many.
OneTooMany(r) == r.attempts > MaxAttempts

OutOfAttempts(r) == r.attempts >= MaxAttempts

\* limit_reason() other than attempts: elapsed time, then fresh tokens.
OutOfBudget(r, planned) == r.late \/ Spent(r) + planned > MaxTokens

\* Fault: the reason is not kept.
StopSilently(r, reason) == [r EXCEPT !.status = "stopped"]

Stop(r, reason) == [r EXCEPT !.status = "stopped", !.stop = reason]

Begin(r) == [r EXCEPT !.attempts = @ + 1, !.status = "running",
                      !.stop = "none", !.started = TRUE]

RecordFailure(r) == [r EXCEPT !.cycle = r.attempts]

\* A failure can only repeat one that was recorded before.
MayRepeat(r) == r.cycle # NoCycle

\* from_dict(): a record over its own policy is rejected and replaced; a
\* record saved in the middle of a run is stopped by select_project().
Loaded(r) ==
  IF r.attempts > MaxAttempts THEN Stop(Fresh(0), "invalid") ELSE r

\* Fault: a record that was in use starts over.
RestoredFresh(r) ==
  LET d == Loaded(r) IN IF d.status = "running" THEN Stop(Fresh(d.task), "interrupted") ELSE d

Restored(r) ==
  LET d == Loaded(r) IN IF d.status = "running" THEN Stop(d, "interrupted") ELSE d
=============================================================================
