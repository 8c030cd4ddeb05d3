----------------------------- MODULE TokenLedger -----------------------------
(***************************************************************************)
(* TaskTokenLedger of core/provider_routing.py: admission and accounting   *)
(* of the tokens of one task, shared by the threads of a wave.  Every      *)
(* method runs under the ledger's lock, so each is one action.             *)
(***************************************************************************)
EXTENDS Integers, FiniteSets, Functions

CONSTANTS
  Operations,   \* operation identifiers: the nodes of the task graph
  Pool          \* total_limit_tokens - fixed_commitment_tokens

ASSUME LedgerAssumption == Pool \in Nat /\ IsFiniteSet(Operations) /\ 0 \notin Operations

VARIABLES
  reservation,  \* tokens reserved per operation, 0 for no reservation
  held,         \* the sum of the reservations, which the code adds up each time
  charged,      \* _charged_tokens
  unknown,      \* operations settled without usage
  overrun       \* history: what settlements charged beyond their reservations

ledgerVars == <<reservation, held, charged, unknown, overrun>>

Amounts == Nat \ {0}
Usage   == [source : {"provider", "estimate"}, fresh : Nat]
NoUsage == [source |-> "none", fresh |-> 0]

LedgerInit ==
  /\ reservation = [op \in Operations |-> 0]
  /\ held = 0 /\ charged = 0 /\ overrun = 0
  /\ unknown = {}

Available == Pool - charged - held

\* admit() answers no.
Refuses(op, want) == reservation[op] # 0 \/ want > Available

Admit(op, want) ==
  /\ ~Refuses(op, want)
  /\ reservation' = [reservation EXCEPT ![op] = want]
  /\ held' = held + want
  /\ UNCHANGED <<charged, unknown, overrun>>

Larger(a, b) == IF a >= b THEN a ELSE b

\* Fault: an operation that reports nothing costs nothing.
ChargeReported(op, usage) == usage.fresh

\* Reported usage replaces the reservation; an estimate or no usage never
\* gives any of it back.
Charge(op, usage) ==
  IF usage.source = "provider" THEN usage.fresh
  ELSE IF usage.source = "estimate" THEN Larger(reservation[op], usage.fresh)
  ELSE reservation[op]

\* Fault: the reservation is kept after it was charged.
SettleKeeping(op, usage) ==
  LET cost == Charge(op, usage) IN
  /\ charged' = charged + cost
  /\ overrun' = overrun + Larger(0, cost - reservation[op])
  /\ unknown' = IF usage.source = "none" THEN unknown \cup {op} ELSE unknown
  /\ UNCHANGED <<reservation, held>>

Settle(op, usage) ==
  LET cost == Charge(op, usage) IN
  /\ charged' = charged + cost
  /\ overrun' = overrun + Larger(0, cost - reservation[op])
  /\ unknown' = IF usage.source = "none" THEN unknown \cup {op} ELSE unknown
  /\ reservation' = [reservation EXCEPT ![op] = 0]
  /\ held' = held - reservation[op]

LedgerNext ==
  \E op \in Operations :
    \/ \E want \in Amounts : Admit(op, want)
    \/ \E usage \in Usage \cup {NoUsage} : Settle(op, usage)

LedgerSpec == LedgerInit /\ [][LedgerNext]_ledgerVars

-----------------------------------------------------------------------------
LedgerTypeOK ==
  /\ reservation \in [Operations -> Nat]
  /\ held \in Int /\ charged \in Nat /\ overrun \in Nat
  /\ unknown \subseteq Operations

(* What is charged and what is still reserved never exceed the task's pool,
   however admissions and settlements of concurrent nodes interleave, except
   by what providers used beyond the reservations made for them (admit,
   settle).                                                                *)
NoOverdraft == charged + held <= Pool + overrun

(* The reservations of the ledger add up to what admission subtracts.      *)
HeldIsSum == held = SumFunction(reservation)
=============================================================================
