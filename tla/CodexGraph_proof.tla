--------------------------- MODULE CodexGraph_proof --------------------------
(* Proofs about the runtime of a task graph, for every graph, every scope  *)
(* and every number of threads.                                            *)
EXTENDS CodexGraph, Folds, FiniteSetTheorems, WellFoundedInduction, TLAPS

-----------------------------------------------------------------------------
(* Sums.  The library's induction theorems take an operator; in their      *)
(* place, a claim about every finite set is proved of the smallest set it  *)
(* would fail for.                                                         *)

(* The least-number principle: what CHOOSE in FirstFailed relies on.       *)
LEMMA LeastExists ==
  ASSUME NEW T, T \subseteq Nat, T # {}
  PROVE  \E i \in T : \A j \in T : i <= j
  <1>1. PICK i \in T : \A j \in T : ~ (<<j, i>> \in OpToRel(<, Nat))
    BY NatLessThanWellFounded, WFMin
  <1>2. \A j \in T : ~ (j < i)
    BY <1>1 DEF OpToRel
  <1> QED BY <1>2

(* Of finite sets of which some are bad, one is bad with no bad one just below it.  *)
LEMMA SmallestExists ==
  ASSUME NEW S, IsFiniteSet(S), NEW bad \in SUBSET SUBSET S, bad # {}
  PROVE  \E s \in bad : \A x \in s : s \ {x} \notin bad
  <1> DEFINE sizes == {Cardinality(s) : s \in bad}
  <1>1. \A s \in SUBSET S : IsFiniteSet(s) /\ Cardinality(s) \in Nat
    BY FS_Subset, FS_CardinalityType
  <1>2. sizes \subseteq Nat /\ sizes # {}
    BY <1>1
  <1>3. PICK m \in sizes : \A k \in sizes : m <= k
    BY <1>2, LeastExists
  <1>4. PICK s \in bad : Cardinality(s) = m
    BY <1>3
  <1>5. ASSUME NEW x \in s PROVE s \ {x} \notin bad
    <2>1. Cardinality(s \ {x}) = m - 1 /\ m \in Nat
      BY <1>1, <1>4, FS_RemoveElement
    <2> QED BY <1>3, <2>1
  <1> QED BY <1>5

Pick(s) == CHOOSE x \in s : TRUE

LEMMA PickIsIn == \A s : s # {} => Pick(s) \in s
  BY DEF Pick

SumsUp(sum, f, S) ==
  sum = [s \in SUBSET S |-> IF s = {} THEN 0 ELSE f[Pick(s)] + sum[s \ {Pick(s)}]]

LEMMA SumUnfolds ==
  ASSUME NEW f, NEW S
  PROVE  SumFunctionOnSet(f, S) = (CHOOSE sum : SumsUp(sum, f, S))[S]
  BY Zenon DEF SumFunctionOnSet, FoldFunctionOnSet, MapThenFoldSet, Pick, SumsUp

LEMMA SumExists ==
  ASSUME NEW S, IsFiniteSet(S), NEW f, \A x \in S : f[x] \in Int
  PROVE  \E sum \in [SUBSET S -> Int] : SumsUp(sum, f, S)
  <1> DEFINE Upto(n) == {s \in SUBSET S : Cardinality(s) <= n}
             Fits(g, n) ==
               /\ g \in [Upto(n) -> Int]
               /\ \A s \in Upto(n) : g[s] = IF s = {} THEN 0 ELSE f[Pick(s)] + g[s \ {Pick(s)}]
             None == {n \in Nat : ~ \E g : Fits(g, n)}
  <1>1. \A s \in SUBSET S : IsFiniteSet(s) /\ Cardinality(s) \in Nat
    BY FS_Subset, FS_CardinalityType
  <1>2. ASSUME NEW m \in Nat, m # 0, NEW g, Fits(g, m - 1)
        PROVE  \E h : Fits(h, m)
    <2> DEFINE h == [s \in Upto(m) |-> IF s = {} THEN 0 ELSE f[Pick(s)] + g[s \ {Pick(s)}]]
    <2>1. ASSUME NEW s \in Upto(m), s # {}
          PROVE  /\ Pick(s) \in S /\ s \ {Pick(s)} \in Upto(m - 1) /\ s \ {Pick(s)} \in Upto(m)
      <3>1. Pick(s) \in s
        BY <2>1, PickIsIn
      <3>2. Cardinality(s \ {Pick(s)}) = Cardinality(s) - 1 /\ Cardinality(s) \in Nat
        BY <1>1, <3>1, FS_RemoveElement
      <3> QED BY <3>1, <3>2
    <2>2. h \in [Upto(m) -> Int]
      BY <1>2, <2>1
    <2>3. ASSUME NEW s \in Upto(m), s \in Upto(m - 1)
          PROVE  h[s] = g[s]
      BY <1>2, <2>3
    <2>4. ASSUME NEW s \in Upto(m)
          PROVE  h[s] = IF s = {} THEN 0 ELSE f[Pick(s)] + h[s \ {Pick(s)}]
      <3>1. CASE s = {}
        BY <3>1
      <3>2. CASE s # {}
        <4>1. h[s \ {Pick(s)}] = g[s \ {Pick(s)}]
          BY <2>1, <2>3, <3>2
        <4>2. h[s] = f[Pick(s)] + g[s \ {Pick(s)}]
          BY <3>2
        <4> QED BY <3>2, <4>1, <4>2
      <3> QED BY <3>1, <3>2
    <2> HIDE DEF h
    <2> QED BY <2>2, <2>4
  <1>3. \E g : Fits(g, 0)
    <2> DEFINE g == [s \in Upto(0) |-> 0]
    <2>1. \A s \in Upto(0) : s = {}
      BY <1>1, FS_EmptySet
    <2>2. Fits(g, 0)
      BY <2>1
    <2> QED BY <2>2
  <1> HIDE DEF Fits
  <1>4. None = {}
    <2> SUFFICES ASSUME None # {} PROVE FALSE
      OBVIOUS
    <2>1. PICK m \in None : \A k \in None : m <= k
      BY LeastExists
    <2>2. m # 0 /\ m \in Nat
      BY <1>3
    <2>3. m - 1 \in Nat /\ m - 1 \notin None
      BY <2>1, <2>2
    <2>4. PICK g : Fits(g, m - 1)
      BY <2>3
    <2> QED BY <1>2, <2>2, <2>4
  <1>5. PICK g : Fits(g, Cardinality(S))
    BY <1>1, <1>4
  <1>6. Upto(Cardinality(S)) = SUBSET S
    <2>1. \A s \in SUBSET S : Cardinality(s) <= Cardinality(S)
      BY FS_Subset
    <2> QED BY <2>1
  <1>7. g \in [SUBSET S -> Int] /\ SumsUp(g, f, S)
    BY <1>5, <1>6 DEF Fits, SumsUp
  <1> QED BY <1>7

(* Two sums agree where both are defined.  *)
LEMMA SumsAgree ==
  ASSUME NEW S, IsFiniteSet(S), NEW T \in SUBSET S, NEW f, NEW a, NEW b,
         SumsUp(a, f, S), SumsUp(b, f, T)
  PROVE  a[T] = b[T]
  <1> DEFINE bad == {s \in SUBSET T : a[s] # b[s]}
  <1>1. ASSUME bad # {} PROVE FALSE
    <2>1. IsFiniteSet(T)
      BY FS_Subset
    <2>2. PICK s \in bad : \A x \in s : s \ {x} \notin bad
      BY <1>1, <2>1, SmallestExists
    <2>3. CASE s = {}
      BY <2>2, <2>3 DEF SumsUp
    <2>4. CASE s # {}
      <3>1. s \ {Pick(s)} \in SUBSET T /\ s \ {Pick(s)} \notin bad
        BY <2>2, <2>4, PickIsIn
      <3>2. a[s \ {Pick(s)}] = b[s \ {Pick(s)}]
        BY <3>1
      <3>3. s \in SUBSET S /\ s \in SUBSET T
        BY <2>2
      <3>4. a[s] = f[Pick(s)] + a[s \ {Pick(s)}]
        BY <2>4, <3>3 DEF SumsUp
      <3>5. b[s] = f[Pick(s)] + b[s \ {Pick(s)}]
        BY <2>4, <3>3 DEF SumsUp
      <3> QED BY <2>2, <3>2, <3>4, <3>5
    <2> QED BY <2>3, <2>4
  <1> QED BY <1>1

(* The sum over a finite set, one element at a time.  *)
LEMMA SumStep ==
  ASSUME NEW S, IsFiniteSet(S), NEW f, \A x \in S : f[x] \in Int
  PROVE  /\ SumFunctionOnSet(f, S) \in Int
         /\ S = {} => SumFunctionOnSet(f, S) = 0
         /\ S # {} => SumFunctionOnSet(f, S) = f[Pick(S)] + SumFunctionOnSet(f, S \ {Pick(S)})
  <1>1. ASSUME NEW T \in SUBSET S
        PROVE  \E sum \in [SUBSET T -> Int] : SumsUp(sum, f, T) /\ SumFunctionOnSet(f, T) = sum[T]
    <2>1. IsFiniteSet(T)
      BY FS_Subset
    <2>2. PICK sum \in [SUBSET T -> Int] : SumsUp(sum, f, T)
      BY <2>1, SumExists
    <2> DEFINE chosen == CHOOSE s : SumsUp(s, f, T)
    <2>3. SumsUp(chosen, f, T)
      BY <2>2
    <2>4. SumFunctionOnSet(f, T) = chosen[T]
      BY SumUnfolds
    <2> HIDE DEF chosen
    <2>5. chosen[T] = sum[T]
      BY <2>1, <2>2, <2>3, SumsAgree
    <2> QED BY <2>2, <2>4, <2>5
  <1>2. PICK sum \in [SUBSET S -> Int] : SumsUp(sum, f, S) /\ SumFunctionOnSet(f, S) = sum[S]
    BY <1>1
  <1>3. S \in SUBSET S
    OBVIOUS
  <1>4. ASSUME S # {}
        PROVE  SumFunctionOnSet(f, S) = f[Pick(S)] + SumFunctionOnSet(f, S \ {Pick(S)})
    <2> DEFINE T == S \ {Pick(S)}
    <2>1. T \in SUBSET S
      OBVIOUS
    <2>2. sum[S] = f[Pick(S)] + sum[T]
      BY <1>2, <1>3, <1>4 DEF SumsUp
    <2> HIDE DEF T
    <2>3. PICK part \in [SUBSET T -> Int] : SumsUp(part, f, T) /\ SumFunctionOnSet(f, T) = part[T]
      BY <1>1, <2>1
    <2>4. sum[T] = part[T]
      BY <1>2, <2>1, <2>3, SumsAgree
    <2> QED BY <1>2, <2>2, <2>3, <2>4 DEF T
  <1>5. S = {} => sum[S] = 0
    BY <1>2, <1>3 DEF SumsUp
  <1> QED BY <1>2, <1>3, <1>4, <1>5

(* What two functions that agree add up to.  *)
LEMMA SumsOfEqual ==
  ASSUME NEW S, IsFiniteSet(S), NEW f, NEW g, \A x \in S : f[x] \in Int /\ f[x] = g[x]
  PROVE  SumFunctionOnSet(f, S) = SumFunctionOnSet(g, S)
  <1> DEFINE bad == {s \in SUBSET S : SumFunctionOnSet(f, s) # SumFunctionOnSet(g, s)}
  <1>1. ASSUME bad # {} PROVE FALSE
    <2>1. PICK s \in bad : \A x \in s : s \ {x} \notin bad
      BY <1>1, SmallestExists
    <2>2. IsFiniteSet(s) /\ s \in SUBSET S
      BY FS_Subset
    <2>3. (\A x \in s : f[x] \in Int) /\ (\A x \in s : g[x] \in Int)
      BY <2>2
    <2>4. CASE s = {}
      BY <2>1, <2>2, <2>3, <2>4, SumStep
    <2>5. CASE s # {}
      <3>1. Pick(s) \in s
        BY <2>5, PickIsIn
      <3>2. SumFunctionOnSet(f, s \ {Pick(s)}) = SumFunctionOnSet(g, s \ {Pick(s)})
        BY <2>1, <2>2, <3>1
      <3>3. SumFunctionOnSet(f, s) = f[Pick(s)] + SumFunctionOnSet(f, s \ {Pick(s)})
        BY <2>2, <2>3, <2>5, SumStep
      <3>4. SumFunctionOnSet(g, s) = g[Pick(s)] + SumFunctionOnSet(g, s \ {Pick(s)})
        BY <2>2, <2>3, <2>5, SumStep
      <3>5. f[Pick(s)] = g[Pick(s)]
        BY <2>2, <3>1
      <3> QED BY <2>1, <3>2, <3>3, <3>4, <3>5
    <2> QED BY <2>4, <2>5
  <1>2. S \in SUBSET S
    OBVIOUS
  <1> QED BY <1>1, <1>2

(* The order does not matter: any element can be taken out first.  *)
LEMMA SumWithout ==
  ASSUME NEW S, IsFiniteSet(S), NEW f, \A x \in S : f[x] \in Int, NEW e \in S
  PROVE  SumFunctionOnSet(f, S) = f[e] + SumFunctionOnSet(f, S \ {e})
  <1> DEFINE Sum(s) == SumFunctionOnSet(f, s)
             bad == {s \in SUBSET S : \E x \in s : Sum(s) # f[x] + Sum(s \ {x})}
  <1>1. ASSUME NEW s \in SUBSET S
        PROVE  /\ Sum(s) \in Int
               /\ s # {} => Sum(s) = f[Pick(s)] + Sum(s \ {Pick(s)})
    <2>1. IsFiniteSet(s) /\ \A x \in s : f[x] \in Int
      BY FS_Subset
    <2> QED BY <2>1, SumStep
  <1>2. bad \in SUBSET SUBSET S
    OBVIOUS
  <1> HIDE DEF Sum
  <1>3. ASSUME bad # {} PROVE FALSE
    <2>1. PICK s \in bad : \A x \in s : s \ {x} \notin bad
      BY <1>2, <1>3, SmallestExists
    <2>2. PICK x \in s : Sum(s) # f[x] + Sum(s \ {x})
      BY <2>1
    <2> DEFINE p == Pick(s)
    <2>3. p \in s /\ s \in SUBSET S /\ s # {}
      BY <2>2, PickIsIn
    <2>4. Sum(s) = f[p] + Sum(s \ {p})
      BY <1>1, <2>3
    <2> HIDE DEF p
    <2>5. x # p
      BY <2>2, <2>4
    <2>6. Sum(s \ {p}) = f[x] + Sum((s \ {p}) \ {x})
      <3>1. s \ {p} \notin bad /\ s \ {p} \in SUBSET S /\ x \in s \ {p}
        BY <2>1, <2>3, <2>5
      <3> QED BY <3>1
    <2>7. Sum(s \ {x}) = f[p] + Sum((s \ {x}) \ {p})
      <3>1. s \ {x} \notin bad /\ s \ {x} \in SUBSET S /\ p \in s \ {x}
        BY <2>1, <2>3, <2>5
      <3> QED BY <3>1
    <2>8. (s \ {p}) \ {x} = (s \ {x}) \ {p}
      OBVIOUS
    <2>9. f[x] \in Int /\ f[p] \in Int /\ Sum((s \ {x}) \ {p}) \in Int
      BY <1>1, <2>3
    <2> DEFINE rest == Sum((s \ {x}) \ {p})
               u    == f[x]
               v    == f[p]
    <2>10. Sum(s) = v + (u + rest) /\ Sum(s \ {x}) = v + rest
      BY <2>4, <2>6, <2>7, <2>8, Zenon
    <2>11. u \in Int /\ v \in Int /\ rest \in Int /\ Sum(s) # u + Sum(s \ {x})
      BY <2>2, <2>9, Zenon
    <2> HIDE DEF rest, u, v, bad
    <2>12. Sum(s) # u + (v + rest)
      BY <2>10, <2>11, Zenon
    <2>13. v + (u + rest) = u + (v + rest)
      BY <2>11
    <2> QED BY <2>10, <2>12, <2>13, Zenon
  <1>4. S \notin bad /\ S \in SUBSET S
    BY <1>3
  <1>5. Sum(S) = f[e] + Sum(S \ {e})
    BY <1>4
  <1> QED BY <1>5 DEF Sum

(* Nothing adds up to nothing.  *)
LEMMA SumOfZeros ==
  ASSUME NEW S, IsFiniteSet(S), NEW f, \A x \in S : f[x] = 0
  PROVE  SumFunctionOnSet(f, S) = 0
  <1> DEFINE bad == {s \in SUBSET S : SumFunctionOnSet(f, s) # 0}
  <1>1. ASSUME bad # {} PROVE FALSE
    <2>1. PICK s \in bad : \A x \in s : s \ {x} \notin bad
      BY <1>1, SmallestExists
    <2>2. IsFiniteSet(s) /\ s \in SUBSET S
      BY FS_Subset
    <2>3. \A x \in s : f[x] \in Int
      BY <2>2
    <2>4. CASE s = {}
      BY <2>1, <2>2, <2>3, <2>4, SumStep
    <2>5. CASE s # {}
      <3>1. Pick(s) \in s
        BY <2>5, PickIsIn
      <3>2. SumFunctionOnSet(f, s \ {Pick(s)}) = 0
        BY <2>1, <2>2, <3>1
      <3>3. SumFunctionOnSet(f, s) = f[Pick(s)] + SumFunctionOnSet(f, s \ {Pick(s)})
        BY <2>2, <2>3, <2>5, SumStep
      <3> QED BY <2>1, <2>2, <3>1, <3>2, <3>3
    <2> QED BY <2>4, <2>5
  <1>2. S \in SUBSET S
    OBVIOUS
  <1> QED BY <1>1, <1>2

-----------------------------------------------------------------------------
(* The task token ledger, for every pool and set of operations.            *)

LedgerInv == LedgerTypeOK /\ NoOverdraft

(* What a settlement charges is a number of tokens, whatever was reported. *)
LEMMA ChargeIsNat ==
  ASSUME LedgerTypeOK, NEW op \in Operations, NEW usage \in Usage \cup {NoUsage}
  PROVE  Charge(op, usage) \in Nat
  <1>1. reservation[op] \in Nat /\ usage.fresh \in Nat
    BY DEF LedgerTypeOK, Usage, NoUsage
  <1> QED BY <1>1 DEF Charge, Larger

(* An admission moves tokens that were available into the reservations.    *)
LEMMA AdmitKeepsInv ==
  ASSUME LedgerInv, NEW op \in Operations, NEW want \in Amounts, Admit(op, want)
  PROVE  LedgerInv'
  <1>1. reservation' \in [Operations -> Nat]
    BY DEF LedgerInv, LedgerTypeOK, Admit, Amounts
  <1>2. want \in Nat /\ want <= Pool - charged - held
    BY LedgerAssumption DEF Admit, Refuses, Available, Amounts, LedgerInv, LedgerTypeOK
  <1> QED BY <1>1, <1>2, LedgerAssumption DEF LedgerInv, LedgerTypeOK, NoOverdraft, Admit

(* A settlement charges at most the reservation it gives back and what it  *)
(* records as overrun.                                                     *)
LEMMA SettleKeepsInv ==
  ASSUME LedgerInv, NEW op \in Operations, NEW usage \in Usage \cup {NoUsage},
         Settle(op, usage)
  PROVE  LedgerInv'
  <1> DEFINE cost == Charge(op, usage)
             over == Larger(0, cost - reservation[op])
  <1>1. cost \in Nat
    BY ChargeIsNat DEF LedgerInv
  <1>2. reservation[op] \in Nat
    BY DEF LedgerInv, LedgerTypeOK
  <1>3. over \in Nat /\ cost <= reservation[op] + over
    BY <1>1, <1>2 DEF Larger
  <1>4. /\ charged' = charged + cost /\ overrun' = overrun + over
        /\ held' = held - reservation[op]
        /\ reservation' = [reservation EXCEPT ![op] = 0]
    BY DEF Settle
  <1>5. unknown' \subseteq Operations
    BY DEF Settle, LedgerInv, LedgerTypeOK
  <1> HIDE DEF cost, over
  <1>6. LedgerTypeOK'
    BY <1>1, <1>2, <1>3, <1>4, <1>5 DEF LedgerInv, LedgerTypeOK
  <1>7. NoOverdraft'
    BY <1>1, <1>2, <1>3, <1>4, LedgerAssumption DEF LedgerInv, LedgerTypeOK, NoOverdraft
  <1> QED BY <1>6, <1>7 DEF LedgerInv

(* The ledger's step keeps the invariant.                                  *)
LEMMA LedgerStep ==
  ASSUME LedgerInv, [LedgerNext]_ledgerVars
  PROVE  LedgerInv'
  <1>1. ASSUME NEW op \in Operations, NEW want \in Amounts, Admit(op, want)
        PROVE  LedgerInv'
    BY <1>1, AdmitKeepsInv
  <1>2. ASSUME NEW op \in Operations, NEW usage \in Usage \cup {NoUsage}, Settle(op, usage)
        PROVE  LedgerInv'
    BY <1>2, SettleKeepsInv
  <1>3. CASE UNCHANGED ledgerVars
    BY <1>3 DEF LedgerInv, LedgerTypeOK, NoOverdraft, ledgerVars
  <1> QED BY <1>1, <1>2, <1>3 DEF LedgerNext

(* However admissions and settlements of concurrent nodes interleave, what *)
(* is charged and reserved exceeds the pool by no more than providers used *)
(* beyond their reservations (TaskTokenLedger.admit and settle).           *)
THEOREM LedgerHolds == LedgerSpec => []LedgerInv
  <1>1. LedgerInit => LedgerInv
    BY LedgerAssumption DEF LedgerInit, LedgerInv, LedgerTypeOK, NoOverdraft
  <1>2. LedgerInv /\ [LedgerNext]_ledgerVars => LedgerInv'
    BY LedgerStep
  <1> QED BY <1>1, <1>2, PTL DEF LedgerSpec

-----------------------------------------------------------------------------
(* The run as a user of its ledger.                                        *)

(* A node concludes by one settlement and touches no cancellation flag.    *)
LEMMA ConcludeSettles ==
  ASSUME NEW n \in Nodes, NEW how, NEW reported, NEW usage \in Usage \cup {NoUsage},
         Conclude(n, how, reported, usage)
  PROVE  LedgerNext /\ UNCHANGED cancelVars
  <1>1. Settle(n, usage) /\ UNCHANGED cancelVars
    BY DEF Conclude
  <1> QED BY <1>1 DEF LedgerNext, Nodes

(* Every step of a run is one admission, one settlement or leaves the      *)
(* ledger alone.                                                           *)
LEMMA StepUsesLedger ==
  ASSUME [Next]_vars
  PROVE  [LedgerNext]_ledgerVars
  <1>1. CASE Run
    BY <1>1 DEF Run, Start, Boot, BeginWave, CancelWave, EndSerial, EndParallel
  <1>2. CASE CancelRun \/ CancelDriver
    BY <1>2 DEF CancelRun, CancelDriver
  <1>3. ASSUME NEW n \in Nodes, Provide(n)
        PROVE  UNCHANGED ledgerVars
    BY <1>3 DEF Provide, Change, Commit
  <1>4. ASSUME NEW n \in Nodes, Execute(n)
        PROVE  [LedgerNext]_ledgerVars
    <2>1. CASE RefuseNode(n) \/ PassCancelCheck(n)
      BY <2>1 DEF RefuseNode, PassCancelCheck
    <2>2. CASE EnterNode(n)
      <3>1. Limit[n] \in Amounts
        BY GraphAssumption DEF Amounts
      <3> QED BY <2>2, <3>1 DEF EnterNode, LedgerNext, Nodes
    <2>3. CASE NeverLaunched(n) \/ Unavailable(n) \/ ProviderRaises(n)
      BY <2>3, ConcludeSettles DEF NeverLaunched, Unavailable, ProviderRaises
    <2>4. CASE ProviderReturns(n)
      BY <2>4, ConcludeSettles, GraphAssumption DEF ProviderReturns
    <2> QED BY <1>4, <2>1, <2>2, <2>3, <2>4 DEF Execute
  <1>5. CASE UNCHANGED vars
    BY <1>5 DEF vars
  <1> QED BY <1>1, <1>2, <1>3, <1>4, <1>5 DEF Next

(* A run of the graph runtime uses its ledger as the ledger is specified.  *)
THEOREM UsesLedger == Spec => LedgerSpec
  <1>1. Init => LedgerInit
    BY DEF Init
  <1>2. [Next]_vars => [LedgerNext]_ledgerVars
    BY StepUsesLedger
  <1> QED BY <1>1, <1>2, PTL DEF Spec, LedgerSpec

(* Whatever the threads of a wave do at the same time, a run charges and   *)
(* reserves more than the task's pool only by what providers used beyond   *)
(* their reservations (_execute_node, TaskTokenLedger).                    *)
THEOREM NoOverdraftHolds == Spec => []NoOverdraft
  <1>1. LedgerInv => NoOverdraft
    BY DEF LedgerInv
  <1> QED BY <1>1, UsesLedger, LedgerHolds, PTL

-----------------------------------------------------------------------------
(* Cancellation.                                                           *)

(* A cancellation on its way has set the run's flag; one that has returned *)
(* has set the driver's as well, and that flag stays set.                  *)
CancelInv ==
  /\ canceller # "idle" => cancelRequested
  /\ canceller = "done" => driverCancel

(* Only Start, CancelRun and CancelDriver touch the flags; Start clears    *)
(* the driver's only when no cancellation has been requested.              *)
LEMMA CancelStep ==
  ASSUME CancelInv, [Next]_vars
  PROVE  CancelInv'
  <1> USE DEF CancelInv
  <1>1. CASE Start
    BY <1>1 DEF Start
  <1>2. CASE Boot \/ BeginWave \/ CancelWave \/ EndSerial \/ EndParallel
    BY <1>2 DEF Boot, BeginWave, CancelWave, EndSerial, EndParallel, cancelVars
  <1>3. CASE CancelRun \/ CancelDriver
    BY <1>3 DEF CancelRun, CancelDriver
  <1>4. ASSUME NEW n \in Nodes, Execute(n) \/ Provide(n)
        PROVE  UNCHANGED cancelVars
    <2>1. CASE RefuseNode(n) \/ EnterNode(n) \/ PassCancelCheck(n)
      BY <2>1 DEF RefuseNode, EnterNode, PassCancelCheck
    <2>2. CASE NeverLaunched(n) \/ Unavailable(n) \/ ProviderReturns(n) \/ ProviderRaises(n)
      BY <2>2 DEF NeverLaunched, Unavailable, ProviderReturns, ProviderRaises, Conclude
    <2>3. CASE Provide(n)
      BY <2>3 DEF Provide, Change, Commit
    <2> QED BY <1>4, <2>1, <2>2, <2>3 DEF Execute
  <1>5. CASE UNCHANGED vars
    BY <1>5 DEF vars, cancelVars
  <1> QED BY <1>1, <1>2, <1>3, <1>4, <1>5 DEF Next, Run, cancelVars

(* Whatever a provider returns, a node ends in a final state.              *)
LEMMA JudgedEnded ==
  ASSUME NEW n, NEW how, NEW reported, NEW audited, NEW moved
  PROVE  Judge(n, how, reported, audited, moved).status \in Ended
  <1>1. Returned(n, how).status \in Ended
    BY DEF Returned, Ran, Ended
  <1>2. Ran("failed", "scope_violation").status \in Ended
        /\ Ran("failed", "objective_not_met").status \in Ended
    BY DEF Ran, Ended
  <1> QED BY <1>1, <1>2 DEF Judge

StatesOK == st \in [Nodes -> NodeStates]

(* Concluding a node gives it a final state and leaves the others.         *)
LEMMA ConcludeEnds ==
  ASSUME StatesOK, NEW n \in Nodes, NEW how, NEW reported, NEW usage,
         Conclude(n, how, reported, usage)
  PROVE  \E s \in Ended : st' = [st EXCEPT ![n] = s]
  <1> DEFINE audited == IF phase = "serial" THEN Delta(snap) ELSE {}
             moved   == phase = "serial" /\ head # snap.head
             status  == Judge(n, how, reported, audited, moved).status
  <1>1. st' = [st EXCEPT ![n] = status]
    BY DEF Conclude
  <1>2. status \in Ended
    BY JudgedEnded
  <1> QED BY <1>1, <1>2

(* Only the driver's look at its cancel flag brings a node to its          *)
(* provider; every other step keeps its state or gives it another one.     *)
LEMMA StateStep ==
  ASSUME StatesOK, [Next]_vars
  PROVE  /\ StatesOK'
         /\ driverCancel => \A n \in Nodes : st'[n] = "provider" => st[n] = "provider"
  <1> DEFINE Goal == /\ StatesOK'
                     /\ driverCancel => \A m \in Nodes : st'[m] = "provider" => st[m] = "provider"
             Stopped(states) ==
               [m \in Nodes |-> IF states[m] = "waiting" THEN "skipped" ELSE states[m]]
             Kept(states) ==
               /\ states \in [Nodes -> NodeStates]
               /\ \A m \in Nodes : states[m] = "provider" => st[m] = "provider"
  <1> USE DEF NodeStates, Ended
  <1>1. Kept(st)
    BY DEF StatesOK
  <1>2. ASSUME NEW states, Kept(states), st' = states \/ st' = Stopped(states)
        PROVE  Goal
    BY <1>2 DEF StatesOK
  <1>3. CASE Start \/ Boot \/ CancelRun \/ CancelDriver \/ UNCHANGED vars
    <2>1. st' = st
      BY <1>3 DEF Start, Boot, CancelRun, CancelDriver, nodeVars, vars
    <2> QED BY <1>1, <1>2, <2>1
  <1>4. CASE BeginWave \/ CancelWave
    <2>1. st' = st \/ st' = Stopped(st)
      BY <1>4 DEF BeginWave, CancelWave, Halt
    <2> QED BY <1>1, <1>2, <2>1
  <1>5. ASSUME NEW states, NEW codes, Kept(states), Advance(states, codes)
        PROVE  Goal
    <2>1. st' = states \/ st' = Stopped(states)
      BY <1>5 DEF Advance, Halt
    <2> QED BY <1>2, <1>5, <2>1
  <1>6. CASE EndSerial
    BY <1>1, <1>5, <1>6 DEF EndSerial
  <1>7. CASE EndParallel
    <2>1. PICK states \in {st, [st EXCEPT ![Waves[wave][1]] = "failed"]} :
            \E codes : Advance(states, codes)
      BY <1>7 DEF EndParallel
    <2>2. Kept(states)
      BY <1>1, <2>1 DEF StatesOK
    <2> QED BY <1>5, <2>1, <2>2
  <1>8. ASSUME NEW n \in Nodes, Provide(n)
        PROVE  Goal
    <2>1. st' = st
      BY <1>8 DEF Provide, Change, Commit, nodeVars
    <2> QED BY <1>1, <1>2, <2>1
  <1>9. ASSUME NEW n \in Nodes, Execute(n)
        PROVE  Goal
    <2>1. CASE PassCancelCheck(n)
      BY <2>1 DEF PassCancelCheck, StatesOK
    <2>2. CASE RefuseNode(n) \/ EnterNode(n)
      BY <2>2 DEF RefuseNode, EnterNode, StatesOK
    <2>3. CASE NeverLaunched(n) \/ Unavailable(n) \/ ProviderReturns(n) \/ ProviderRaises(n)
      <3>1. PICK s \in Ended : st' = [st EXCEPT ![n] = s]
        BY <2>3, ConcludeEnds DEF NeverLaunched, Unavailable, ProviderReturns, ProviderRaises
      <3> QED BY <3>1 DEF StatesOK
    <2> QED BY <1>9, <2>1, <2>2, <2>3 DEF Execute
  <1> QED BY <1>3, <1>4, <1>6, <1>7, <1>8, <1>9 DEF Next, Run

(* Once cancel() has returned no node passes the look at it, for every     *)
(* graph and every interleaving of the caller of cancel(), the run and the *)
(* threads of its pool: begin_run() clears the driver's flag only under    *)
(* the lock under which it sees that nobody has cancelled.                 *)
THEOREM CancelIsSeenHolds == Spec => CancelIsSeen
  <1> DEFINE Inv == CancelInv /\ StatesOK
             Quiet == canceller = "done" =>
                        \A n \in Nodes : st'[n] = "provider" => st[n] = "provider"
  <1>1. Init => Inv
    BY DEF Init, CancelInv, StatesOK, NodeStates
  <1>2. Inv /\ [Next]_vars => Inv'
    BY CancelStep, StateStep
  <1>3. Inv /\ [Next]_vars => Quiet
    BY StateStep DEF CancelInv
  <1>4. Spec => [][Quiet]_vars
    BY <1>1, <1>2, <1>3, PTL DEF Spec
  <1> QED BY <1>4 DEF CancelIsSeen
-----------------------------------------------------------------------------
(* A cancellation of an earlier run does not reach into this one.          *)

(* Before a run has begun nothing of it has; once it has, the driver is    *)
(* cancelled only when the run is.                                         *)
OwnInv ==
  /\ phase = "new" => \A n \in Nodes : st[n] = "waiting"
  /\ phase # "new" /\ driverCancel => cancelRequested
  /\ OwnCancellation

(* Only a provider that was cancelled is judged cancelled.                 *)
LEMMA JudgedCancelled ==
  ASSUME NEW n, NEW how, NEW reported, NEW audited, NEW moved,
         Judge(n, how, reported, audited, moved).status = "cancelled"
  PROVE  how = "cancelled"
  <1>1. Judge(n, how, reported, audited, moved).status
          \in {"failed", Returned(n, how).status}
    BY DEF Judge, Ran
  <1>2. Returned(n, how).status = "cancelled"
    BY <1>1
  <1> QED BY <1>2 DEF Returned, Ran

(* A node that concludes does so in a run that has begun, and is cancelled *)
(* only if its driver was.                                                 *)
LEMMA ConcludeOwn ==
  ASSUME StatesOK, OwnInv, NEW n \in Nodes, st[n] # "waiting",
         NEW how, NEW reported, NEW usage, Conclude(n, how, reported, usage),
         how = "cancelled" => driverCancel
  PROVE  OwnInv'
  <1> DEFINE audited == IF phase = "serial" THEN Delta(snap) ELSE {}
             moved   == phase = "serial" /\ head # snap.head
             status  == Judge(n, how, reported, audited, moved).status
  <1>1. st' = [st EXCEPT ![n] = status] /\ UNCHANGED <<phase, cancelVars>>
    BY DEF Conclude
  <1>2. status = "cancelled" => cancelRequested
    BY JudgedCancelled DEF OwnInv
  <1> QED BY <1>1, <1>2 DEF OwnInv, OwnCancellation, StatesOK, cancelVars

LEMMA OwnStep ==
  ASSUME HasBeginRun, CancelInv, StatesOK, OwnInv, [Next]_vars
  PROVE  OwnInv'
  <1> DEFINE Stopped(states) ==
               [m \in Nodes |-> IF states[m] = "waiting" THEN "skipped" ELSE states[m]]
             Kept(states) ==
               /\ states \in [Nodes -> NodeStates]
               /\ \A m \in Nodes : states[m] = "cancelled" => st[m] = "cancelled"
  <1>1. ASSUME NEW states, Kept(states), st' = states \/ st' = Stopped(states),
               phase # "new", phase' # "new", UNCHANGED cancelVars
        PROVE  OwnInv'
    BY <1>1 DEF OwnInv, OwnCancellation, cancelVars
  <1>2. Kept(st)
    BY DEF StatesOK
  <1>3. CASE Start
    BY <1>3 DEF Start, Finished, OwnInv, OwnCancellation, nodeVars
  <1>4. CASE CancelRun \/ CancelDriver
    BY <1>4 DEF CancelRun, CancelDriver, CancelInv, OwnInv, OwnCancellation, nodeVars
  <1>5. CASE Boot \/ BeginWave \/ CancelWave
    <2>1. st' = st \/ st' = Stopped(st)
      BY <1>5 DEF Boot, BeginWave, CancelWave, Halt, nodeVars
    <2>2. phase # "new" /\ phase' # "new" /\ UNCHANGED cancelVars
      BY <1>5 DEF Boot, BeginWave, CancelWave, Halt, Finished
    <2> QED BY <1>1, <1>2, <2>1, <2>2
  <1>6. ASSUME NEW states, NEW codes, Kept(states), Advance(states, codes),
               phase # "new", UNCHANGED cancelVars
        PROVE  OwnInv'
    <2>1. (st' = states \/ st' = Stopped(states)) /\ phase' # "new"
      BY <1>6 DEF Advance, Halt, Finished
    <2> QED BY <1>1, <1>6, <2>1
  <1>7. CASE EndSerial
    BY <1>2, <1>6, <1>7 DEF EndSerial
  <1>8. CASE EndParallel
    <2>1. PICK states \in {st, [st EXCEPT ![Waves[wave][1]] = "failed"]} :
            \E codes : Advance(states, codes)
      BY <1>8 DEF EndParallel
    <2>2. Kept(states)
      BY <1>2, <2>1 DEF NodeStates, Ended
    <2>3. phase # "new" /\ UNCHANGED cancelVars
      BY <1>8 DEF EndParallel
    <2> QED BY <1>6, <2>1, <2>2, <2>3
  <1>9. ASSUME NEW n \in Nodes, Execute(n)
        PROVE  OwnInv'
    <2>1. CASE RefuseNode(n) \/ EnterNode(n) \/ PassCancelCheck(n)
      <3>1. PICK s \in {"failed", "admitted", "provider"} : st' = [st EXCEPT ![n] = s]
        BY <2>1 DEF RefuseNode, EnterNode, PassCancelCheck
      <3>2. phase # "new" /\ UNCHANGED <<phase, cancelVars>>
        BY <2>1 DEF RefuseNode, EnterNode, PassCancelCheck, MayEnter, IsNext, OwnInv
      <3> QED BY <3>1, <3>2 DEF OwnInv, OwnCancellation, StatesOK, cancelVars
    <2>2. CASE NeverLaunched(n) \/ Unavailable(n) \/ ProviderRaises(n)
      BY <2>2, ConcludeOwn DEF NeverLaunched, Unavailable, ProviderRaises
    <2>3. CASE ProviderReturns(n)
      <3>1. PICK how, reported, usage :
              Conclude(n, how, reported, usage) /\ (how = "cancelled" => driverCancel)
        BY <2>3 DEF ProviderReturns
      <3> QED BY <2>3, <3>1, ConcludeOwn DEF ProviderReturns
    <2> QED BY <1>9, <2>1, <2>2, <2>3 DEF Execute
  <1>10. ASSUME UNCHANGED <<st, phase, cancelVars>>
         PROVE  OwnInv'
    BY <1>10 DEF OwnInv, OwnCancellation, cancelVars
  <1>11. ASSUME NEW n \in Nodes, Provide(n)
         PROVE  OwnInv'
    BY <1>10, <1>11 DEF Provide, Change, Commit, nodeVars
  <1>12. CASE UNCHANGED vars
    BY <1>10, <1>12 DEF vars, nodeVars
  <1> QED BY <1>3, <1>4, <1>5, <1>7, <1>8, <1>9, <1>11, <1>12 DEF Next, Run

(* With a driver that has a begin_run(), no node of a run that nobody      *)
(* cancelled ends cancelled, whatever an earlier run left in the driver    *)
(* and however a cancellation of this one falls.                           *)
THEOREM OwnCancellationHolds ==
  ASSUME HasBeginRun
  PROVE  Spec => []OwnCancellation
  <1> DEFINE Inv == CancelInv /\ StatesOK /\ OwnInv
  <1>1. Init => Inv
    BY DEF Init, CancelInv, StatesOK, NodeStates, OwnInv, OwnCancellation
  <1>2. Inv /\ [Next]_vars => Inv'
    BY CancelStep, StateStep, OwnStep
  <1>3. Inv => OwnCancellation
    BY DEF OwnInv
  <1> QED BY <1>1, <1>2, <1>3, PTL DEF Spec

-----------------------------------------------------------------------------
(* The waves, and the promise of a task graph.                             *)

(* Every node is in exactly one wave, and waves hold nothing else.         *)
LEMMA WaveFacts ==
  /\ \A v \in 1..Len(Waves) : InWave(v) \subseteq Nodes
  /\ \A n \in Nodes : \E v \in 1..Len(Waves) : n \in InWave(v)
  /\ \A n \in Nodes : \A v, w \in 1..Len(Waves) : n \in InWave(v) /\ n \in InWave(w) => v = w
  /\ \A w \in 1..Len(Waves) : \A n \in InWave(w) : \A d \in DependsOn[n] :
       d \in Nodes /\ \E v \in 1..Len(Waves) : v < w /\ d \in InWave(v)
  <1>1. Len(Waves) \in Nat /\ \A v \in 1..Len(Waves) : Waves[v] \in Seq(Nodes)
    BY GraphAssumption
  <1>2. \A v \in 1..Len(Waves) : InWave(v) \subseteq Nodes
    BY <1>1 DEF InWave
  <1>3. \A n \in Nodes : \E w \in 1..Len(Waves) :
          /\ n \in InWave(w)
          /\ \A v \in 1..Len(Waves) : n \in InWave(v) => v = w
          /\ \A d \in DependsOn[n] : \E v \in 1..(w - 1) : d \in InWave(v)
    BY GraphAssumption
  <1>4. \A n \in Nodes : \E v \in 1..Len(Waves) : n \in InWave(v)
    BY <1>3
  <1>5. \A n \in Nodes : \A v, w \in 1..Len(Waves) : n \in InWave(v) /\ n \in InWave(w) => v = w
    BY <1>3
  <1>6. ASSUME NEW w \in 1..Len(Waves), NEW n \in InWave(w), NEW d \in DependsOn[n]
        PROVE  d \in Nodes /\ \E v \in 1..Len(Waves) : v < w /\ d \in InWave(v)
    <2>1. n \in Nodes
      BY <1>2
    <2>2. \E v \in 1..(w - 1) : d \in InWave(v)
      BY <1>3, <2>1
    <2>3. \E v \in 1..Len(Waves) : v < w /\ d \in InWave(v)
      BY <1>1, <2>2
    <2> QED BY <1>2, <2>3
  <1> QED BY <1>2, <1>4, <1>5, <1>6

Phases == {"new", "boot", "wave", "serial", "parallel", "done"}

(* Until the run is over the waves before the current one are completed    *)
(* and those behind it untouched; at the start of a wave it is untouched   *)
(* itself; a run that is over has no node at work, and is completed only   *)
(* if every node is.                                                       *)
Frontier ==
  phase # "done" =>
    \A v \in 1..Len(Waves) : \A n \in InWave(v) :
      /\ v < wave => st[n] = "completed"
      /\ v > wave => st[n] = "waiting"

WaveUntouched == phase \in {"new", "boot", "wave"} => \A n \in Current : st[n] = "waiting"

PoolHasNodes == phase = "parallel" => Current # {}

OverIsOver ==
  phase = "done" =>
    /\ Active = {}
    /\ outcome.status = "completed" => \A n \in Nodes : st[n] = "completed"

GraphInv ==
  /\ StatesOK
  /\ wave \in 1..Len(Waves) /\ phase \in Phases
  /\ Frontier /\ WaveUntouched /\ PoolHasNodes /\ OverIsOver

LEMMA GraphInit == Init => GraphInv
  <1> SUFFICES ASSUME Init PROVE GraphInv
    OBVIOUS
  <1>1. phase = "new" /\ wave = 1 /\ st = [n \in Nodes |-> "waiting"]
    BY DEF Init
  <1>2. Len(Waves) \in Nat /\ Len(Waves) > 0
    BY GraphAssumption
  <1>3. StatesOK
    BY <1>1 DEF StatesOK, NodeStates
  <1>4. Frontier /\ WaveUntouched
    BY <1>1, <1>2, WaveFacts DEF Frontier, WaveUntouched, Current
  <1> QED BY <1>1, <1>2, <1>3, <1>4 DEF GraphInv, Phases, PoolHasNodes, OverIsOver

(* The node whose result decides is one that did not complete.             *)
LEMMA FirstFailedFails ==
  ASSUME wave \in 1..Len(Waves), NEW states, \E n \in Current : states[n] # "completed"
  PROVE  FirstFailed(states) \in Current /\ states[FirstFailed(states)] # "completed"
  <1> DEFINE W == Waves[wave]
             T == {i \in 1..Len(W) : states[W[i]] # "completed"}
             P(i) == /\ states[W[i]] # "completed"
                     /\ \A j \in 1..(i - 1) : states[W[j]] = "completed"
  <1>1. Len(W) \in Nat
    BY GraphAssumption
  <1>2. T \subseteq Nat /\ T # {}
    BY <1>1 DEF Current, InWave
  <1>3. PICK i \in T : \A j \in T : i <= j
    BY <1>2, LeastExists
  <1>4. i \in 1..Len(W) /\ P(i)
    BY <1>1, <1>3
  <1>5. \E k \in 1..Len(W) : P(k)
    BY <1>4
  <1> DEFINE k == CHOOSE k \in 1..Len(W) : P(k)
  <1>6. k \in 1..Len(W) /\ P(k)
    BY <1>5
  <1>7. FirstFailed(states) = W[k]
    BY DEF FirstFailed
  <1> QED BY <1>6, <1>7 DEF Current, InWave

(* A node at work is one of the current wave, which has begun.             *)
LEMMA ActiveIsCurrent ==
  ASSUME GraphInv, NEW n \in Nodes, st[n] \in {"admitted", "provider"}
  PROVE  n \in Current /\ phase \in {"serial", "parallel"}
  <1>1. phase # "done"
    BY DEF GraphInv, OverIsOver, Active
  <1>2. PICK v \in 1..Len(Waves) : n \in InWave(v)
    BY WaveFacts
  <1>3. v = wave
    BY <1>1, <1>2 DEF GraphInv, Frontier
  <1>4. n \in Current
    BY <1>2, <1>3 DEF Current
  <1>5. phase \notin {"new", "boot", "wave"}
    BY <1>4 DEF GraphInv, WaveUntouched
  <1> QED BY <1>1, <1>4, <1>5 DEF GraphInv, Phases

LEMMA CurrentIsNodes ==
  ASSUME GraphInv
  PROVE  Current \subseteq Nodes
  BY WaveFacts DEF GraphInv, Current

(* A step of one node of the current wave.                                 *)
LEMMA NodeKeepsGraph ==
  ASSUME GraphInv, NEW n \in Current, phase \in {"serial", "parallel"},
         NEW s \in NodeStates, st' = [st EXCEPT ![n] = s],
         UNCHANGED <<phase, wave, outcome>>
  PROVE  GraphInv'
  <1>1. n \in Nodes
    BY CurrentIsNodes
  <1>2. StatesOK'
    BY <1>1 DEF GraphInv, StatesOK
  <1>3. \A v \in 1..Len(Waves) : \A m \in InWave(v) : v # wave => m # n /\ m \in Nodes
    BY <1>1, WaveFacts DEF GraphInv, Current
  <1>4. Frontier'
    BY <1>2, <1>3 DEF GraphInv, StatesOK, Frontier
  <1>5. WaveUntouched' /\ PoolHasNodes' /\ OverIsOver'
    BY DEF WaveUntouched, PoolHasNodes, OverIsOver, Current
  <1> QED BY <1>2, <1>4, <1>5 DEF GraphInv

(* A step that touches neither the nodes nor the waves.                    *)
LEMMA SameGraph ==
  ASSUME GraphInv, UNCHANGED <<st, phase, wave, outcome>>
  PROVE  GraphInv'
  BY DEF GraphInv, StatesOK, Frontier, WaveUntouched, PoolHasNodes, OverIsOver, Current, Active

Stopping(states) == [n \in Nodes |-> IF states[n] = "waiting" THEN "skipped" ELSE states[n]]

(* The results of a wave that is over: those of the nodes, of which one    *)
(* may have been failed by the audit.                                      *)
Results(states) ==
  /\ phase \in {"serial", "parallel"} /\ Active = {}
  /\ states \in [Nodes -> NodeStates]
  /\ \A n \in Nodes : \/ states[n] = st[n]
                      \/ n \in Current /\ st[n] \in Ended /\ states[n] = "failed"

(* The run halts with a node that did not complete, goes on to the next    *)
(* wave when all of this one did, or is completed with the last.           *)
LEMMA AdvanceCases ==
  ASSUME GraphInv, NEW states, Results(states), NEW codes, Advance(states, codes)
  PROVE  \/ /\ \E n \in Current : states[n] # "completed"
            /\ phase' = "done" /\ outcome'.status # "completed" /\ st' = Stopping(states)
            /\ wave' = wave
         \/ /\ \A n \in Current : states[n] = "completed"
            /\ wave < Len(Waves) /\ wave' = wave + 1
            /\ phase' = "wave" /\ st' = states /\ st = states
         \/ /\ \A n \in Nodes : st[n] = "completed" /\ states[n] = "completed"
            /\ phase' = "done" /\ outcome'.status = "completed" /\ st' = states
            /\ wave' = wave
  <1>1. CASE \E n \in Current : states[n] # "completed"
    <2> DEFINE n == FirstFailed(states)
    <2>1. states[n] # "completed"
      BY <1>1, FirstFailedFails DEF GraphInv
    <2>2. Halt(states, states[n], codes[n]) /\ wave' = wave
      BY <1>1 DEF Advance
    <2>3. phase' = "done" /\ outcome'.status = states[n] /\ st' = Stopping(states)
      BY <2>2 DEF Halt, Finished, Stopping
    <2> QED BY <1>1, <2>1, <2>2, <2>3
  <1>2. CASE \A n \in Current : states[n] = "completed"
    <2>1. \A n \in Nodes : states[n] = st[n]
      BY <1>2 DEF Results
    <2>2. states = st
      BY <2>1 DEF Results, GraphInv, StatesOK
    <2>3. CASE wave < Len(Waves)
      BY <1>2, <2>2, <2>3 DEF Advance
    <2>4. CASE ~(wave < Len(Waves))
      <3>1. wave = Len(Waves) /\ phase # "done"
        BY <2>4, GraphAssumption DEF GraphInv, Results
      <3>2. ASSUME NEW n \in Nodes
            PROVE  st[n] = "completed"
        <4>1. PICK v \in 1..Len(Waves) : n \in InWave(v)
          BY WaveFacts
        <4>2. v < wave \/ v = wave
          BY <3>1
        <4> QED BY <1>2, <2>2, <3>1, <4>1, <4>2 DEF GraphInv, Frontier, Current
      <3>3. Halt(states, "completed", "none") /\ wave' = wave
        BY <1>2, <2>4 DEF Advance
      <3>4. phase' = "done" /\ outcome'.status = "completed" /\ st' = Stopping(states)
        BY <3>3 DEF Halt, Finished, Stopping
      <3>5. st' = states
        BY <2>2, <3>2, <3>4 DEF Stopping, GraphInv, StatesOK
      <3> QED BY <2>2, <3>2, <3>3, <3>4, <3>5
    <2> QED BY <2>3, <2>4
  <1> QED BY <1>1, <1>2

LEMMA AdvanceKeepsGraph ==
  ASSUME GraphInv, NEW states, Results(states), NEW codes, Advance(states, codes)
  PROVE  GraphInv'
  <1>0. Len(Waves) \in Nat /\ wave \in 1..Len(Waves) /\ phase # "done"
    BY GraphAssumption DEF GraphInv, Results
  <1>1. CASE phase' = "done" /\ outcome'.status # "completed" /\ st' = Stopping(states) /\ wave' = wave
    <2>1. \A n \in Nodes : states[n] \notin {"admitted", "provider"}
      BY DEF Results, Active, Ended
    <2>2. StatesOK' /\ Active' = {}
      BY <1>1, <2>1 DEF StatesOK, Stopping, Results, NodeStates, Active
    <2> QED BY <1>0, <1>1, <2>2 DEF GraphInv, Phases, Frontier, WaveUntouched, PoolHasNodes, OverIsOver
  <1>2. CASE /\ \A n \in Current : states[n] = "completed"
             /\ wave < Len(Waves) /\ wave' = wave + 1
             /\ phase' = "wave" /\ st' = states /\ st = states
    <2>1. StatesOK' /\ wave' \in 1..Len(Waves)
      BY <1>0, <1>2 DEF StatesOK, Results
    <2>2. ASSUME NEW v \in 1..Len(Waves), NEW n \in InWave(v)
          PROVE  /\ v < wave' => st'[n] = "completed"
                 /\ v > wave' => st'[n] = "waiting"
                 /\ v = wave' => st'[n] = "waiting"
      <3>1. v < wave' => v < wave \/ v = wave
        BY <1>0, <1>2
      <3>2. v >= wave' => v > wave
        BY <1>0, <1>2
      <3>3. v < wave => st[n] = "completed"
        BY <1>0 DEF GraphInv, Frontier
      <3>4. v > wave => st[n] = "waiting"
        BY <1>0 DEF GraphInv, Frontier
      <3>5. v = wave => st[n] = "completed"
        BY <1>2 DEF Current
      <3> QED BY <1>0, <1>2, <3>1, <3>2, <3>3, <3>4, <3>5
    <2>3. Frontier'
      BY <2>2 DEF Frontier
    <2>4. WaveUntouched'
      BY <2>1, <2>2 DEF WaveUntouched, Current
    <2> QED BY <1>2, <2>1, <2>3, <2>4 DEF GraphInv, Phases, PoolHasNodes, OverIsOver
  <1>3. CASE /\ \A n \in Nodes : st[n] = "completed" /\ states[n] = "completed"
             /\ phase' = "done" /\ outcome'.status = "completed" /\ st' = states
             /\ wave' = wave
    <2>1. StatesOK' /\ Active' = {}
      BY <1>3 DEF StatesOK, Results, Active
    <2> QED BY <1>0, <1>3, <2>1 DEF GraphInv, Phases, Frontier, WaveUntouched, PoolHasNodes, OverIsOver
  <1> QED BY <1>1, <1>2, <1>3, AdvanceCases

(* The node a wave is about to start.                                      *)
LEMMA NextNode ==
  ASSUME GraphInv, NEW n \in Nodes, IsNext(n)
  PROVE  /\ n \in Current /\ st[n] = "waiting" /\ phase \in {"serial", "parallel"}
         /\ \A d \in DependsOn[n] : d \in Nodes /\ st[d] = "completed"
  <1>1. n \in Current /\ st[n] = "waiting" /\ phase \in {"serial", "parallel"}
    BY DEF IsNext
  <1>2. ASSUME NEW d \in DependsOn[n]
        PROVE  d \in Nodes /\ st[d] = "completed"
    <2>1. wave \in 1..Len(Waves) /\ n \in InWave(wave)
      BY <1>1 DEF GraphInv, Current
    <2>2. PICK v \in 1..Len(Waves) : v < wave /\ d \in InWave(v)
      BY <2>1, WaveFacts
    <2> QED BY <1>1, <2>1, <2>2, WaveFacts DEF GraphInv, Frontier
  <1> QED BY <1>1, <1>2

(* What EndSerial and EndParallel hand to Advance.                         *)
LEMMA SerialResults ==
  ASSUME GraphInv, EndSerial
  PROVE  Results(st) /\ Advance(st, code)
  BY DEF EndSerial, Results, GraphInv, StatesOK

LEMMA ParallelResults ==
  ASSUME GraphInv, EndParallel
  PROVE  \E states, codes : Results(states) /\ Advance(states, codes)
  <1>1. phase = "parallel" /\ \A n \in Current : st[n] \in Ended
    BY DEF EndParallel
  <1>2. Active = {}
    BY <1>1, ActiveIsCurrent DEF Active, Ended
  <1> DEFINE first == Waves[wave][1]
  <1>3. PICK states \in {st, [st EXCEPT ![first] = "failed"]} : \E codes : Advance(states, codes)
    BY DEF EndParallel
  <1>4. \A n \in Nodes : states[n] = st[n] \/ (n = first /\ states[n] = "failed")
    BY <1>3 DEF GraphInv, StatesOK
  <1>5. states \in [Nodes -> NodeStates]
    BY <1>3 DEF GraphInv, StatesOK, NodeStates, Ended
  <1>6. Len(Waves[wave]) \in Nat /\ wave \in 1..Len(Waves)
    BY GraphAssumption DEF GraphInv
  <1>7. CASE Len(Waves[wave]) > 0
    <2>1. first \in Current
      BY <1>6, <1>7 DEF Current, InWave
    <2>2. Results(states)
      BY <1>1, <1>2, <1>4, <1>5, <2>1 DEF Results
    <2> QED BY <1>3, <2>2
  <1>8. CASE ~(Len(Waves[wave]) > 0)
    <2>1. Current = {}
      BY <1>6, <1>8 DEF Current, InWave
    <2> QED BY <1>1, <2>1 DEF GraphInv, PoolHasNodes
  <1> QED BY <1>7, <1>8

LEMMA BeginWaveKeepsGraph ==
  ASSUME GraphInv, BeginWave
  PROVE  GraphInv'
  <1>1. phase = "wave" /\ wave' = wave
    BY DEF BeginWave
  <1>2. CASE Halt(st, "cancelled", "cancelled")
    <2>1. phase' = "done" /\ outcome'.status # "completed" /\ st' = Stopping(st)
      BY <1>2 DEF Halt, Finished, Stopping
    <2>2. Active = {}
      BY <1>1, ActiveIsCurrent DEF Active
    <2>3. StatesOK' /\ Active' = {}
      BY <2>1, <2>2 DEF GraphInv, StatesOK, Stopping, NodeStates, Active
    <2> QED BY <1>1, <2>1, <2>3
            DEF GraphInv, Phases, Frontier, WaveUntouched, PoolHasNodes, OverIsOver
  <1>3. CASE st' = st /\ phase' = IF CanParallelize THEN "parallel" ELSE "serial"
    <2>1. CanParallelize => Current # {}
      BY FS_EmptySet DEF CanParallelize
    <2> QED BY <1>1, <1>3, <2>1 DEF GraphInv, StatesOK, Phases, Frontier, WaveUntouched,
                                     PoolHasNodes, OverIsOver, Current
  <1> QED BY <1>2, <1>3 DEF BeginWave

LEMMA CancelWaveKeepsGraph ==
  ASSUME GraphInv, CancelWave
  PROVE  GraphInv'
  <1>1. /\ phase' = "done" /\ outcome'.status # "completed" /\ st' = Stopping(st)
        /\ wave' = wave /\ Active = {}
    BY DEF CancelWave, Halt, Finished, Stopping, IsNext
  <1>2. StatesOK' /\ Active' = {}
    BY <1>1 DEF GraphInv, StatesOK, Stopping, NodeStates, Active
  <1> QED BY <1>1, <1>2 DEF GraphInv, Phases, Frontier, WaveUntouched, PoolHasNodes, OverIsOver

(* The run starts, or ends before its first wave.                          *)
LEMMA StartKeepsGraph ==
  ASSUME GraphInv, Start \/ Boot
  PROVE  GraphInv'
  <1>1. /\ phase \in {"new", "boot"} /\ UNCHANGED <<st, wave>>
        /\ \/ phase' \in {"boot", "wave"}
           \/ phase' = "done" /\ outcome'.status # "completed"
    BY DEF Start, Boot, Finished, nodeVars
  <1>2. Active = {}
    BY <1>1, ActiveIsCurrent DEF Active
  <1>3. StatesOK' /\ Active' = {} /\ Current' = Current
    BY <1>1, <1>2 DEF GraphInv, StatesOK, Active, Current
  <1> QED BY <1>1, <1>3 DEF GraphInv, Phases, Frontier, WaveUntouched, PoolHasNodes, OverIsOver

LEMMA ExecuteKeepsGraph ==
  ASSUME GraphInv, NEW n \in Nodes, Execute(n)
  PROVE  GraphInv'
  <1>1. UNCHANGED <<phase, wave, outcome>>
    BY DEF Execute, RefuseNode, EnterNode, PassCancelCheck, NeverLaunched, Unavailable,
           ProviderReturns, ProviderRaises, Conclude
  <1>2. CASE RefuseNode(n) \/ EnterNode(n)
    <2>1. PICK s \in {"failed", "admitted"} : st' = [st EXCEPT ![n] = s] /\ IsNext(n)
      BY <1>2 DEF RefuseNode, EnterNode, MayEnter
    <2>2. n \in Current /\ phase \in {"serial", "parallel"} /\ s \in NodeStates
      BY <2>1, NextNode DEF NodeStates, Ended
    <2> QED BY <1>1, <2>1, <2>2, NodeKeepsGraph
  <1>3. CASE PassCancelCheck(n)
    <2>1. st' = [st EXCEPT ![n] = "provider"] /\ st[n] = "admitted"
      BY <1>3 DEF PassCancelCheck
    <2>2. "provider" \in NodeStates
      BY DEF NodeStates
    <2> QED BY <1>1, <2>1, <2>2, ActiveIsCurrent, NodeKeepsGraph
  <1>4. CASE NeverLaunched(n) \/ Unavailable(n) \/ ProviderReturns(n) \/ ProviderRaises(n)
    <2>1. st[n] \in {"admitted", "provider"}
      BY <1>4 DEF NeverLaunched, Unavailable, ProviderReturns, ProviderRaises
    <2>2. PICK s \in Ended : st' = [st EXCEPT ![n] = s]
      BY <1>4, ConcludeEnds
         DEF NeverLaunched, Unavailable, ProviderReturns, ProviderRaises, GraphInv
    <2>3. s \in NodeStates
      BY DEF NodeStates
    <2> QED BY <1>1, <2>1, <2>2, <2>3, ActiveIsCurrent, NodeKeepsGraph
  <1> QED BY <1>2, <1>3, <1>4 DEF Execute

LEMMA GraphStep ==
  ASSUME GraphInv, [Next]_vars
  PROVE  GraphInv'
  <1>1. CASE EndSerial
    BY <1>1, SerialResults, AdvanceKeepsGraph
  <1>2. CASE EndParallel
    BY <1>2, ParallelResults, AdvanceKeepsGraph
  <1>3. CASE CancelRun \/ CancelDriver \/ UNCHANGED vars
    BY <1>3, SameGraph DEF CancelRun, CancelDriver, vars, nodeVars
  <1>4. ASSUME NEW n \in Nodes, Provide(n)
        PROVE  GraphInv'
    BY <1>4, SameGraph DEF Provide, Change, Commit, nodeVars
  <1> QED BY <1>1, <1>2, <1>3, <1>4, BeginWaveKeepsGraph, CancelWaveKeepsGraph, StartKeepsGraph,
             ExecuteKeepsGraph DEF Next, Run

-----------------------------------------------------------------------------
(* The refinement.                                                         *)

Node == [n \in Nodes |-> NodeOf(n)]

LEMMA PromiseInit == Init => Promise!Init
  BY DEF Init, Promise!Init, NodeOf, VerdictOf

(* A step that changes neither a node, as the caller sees it, nor the      *)
(* verdict.                                                                *)
LEMMA Stutters ==
  ASSUME \A n \in Nodes : NodeOf(n)' = NodeOf(n), VerdictOf' = VerdictOf
  PROVE  UNCHANGED Promise!graphVars
  <1>1. Node' = Node
    BY DEF Node
  <1> QED BY <1>1 DEF Node, Promise!graphVars

(* A step of one node at work, or about to be.                             *)
LEMMA NodeChanges ==
  ASSUME GraphInv, NEW n \in Current, phase \in {"serial", "parallel"},
         NEW s, st' = [st EXCEPT ![n] = s], UNCHANGED <<phase, outcome>>
  PROVE  Node' = [Node EXCEPT ![n] = NodeOf(n)'] /\ VerdictOf = "open" /\ VerdictOf' = "open"
  <1>1. n \in Nodes
    BY CurrentIsNodes
  <1>2. \A m \in Nodes \ {n} : NodeOf(m)' = NodeOf(m)
    BY <1>1 DEF NodeOf, GraphInv, StatesOK
  <1>3. Node' = [Node EXCEPT ![n] = NodeOf(n)']
    BY <1>1, <1>2 DEF Node
  <1> QED BY <1>3 DEF VerdictOf

(* The run stops: what did not start is skipped, and what the audit of the *)
(* last wave failed has nothing built on it.                               *)
LEMMA StopsPromise ==
  ASSUME GraphInv, Active = {}, phase # "done",
         NEW states \in [Nodes -> NodeStates],
         \A n \in Nodes : \/ states[n] = st[n]
                          \/ n \in Current /\ st[n] \in Ended /\ states[n] = "failed",
         phase' = "done", outcome'.status # "completed", st' = Stopping(states)
  PROVE  Promise!Stop
  <1> DEFINE revoked == {n \in Nodes : NodeOf(n) = "completed" /\ states[n] # "completed"}
  <1>1. VerdictOf = "open" /\ VerdictOf' = "stopped"
    BY DEF VerdictOf
  <1>2. \A n \in Nodes : Node[n] # "running"
    BY DEF Active, Node, NodeOf, GraphInv, StatesOK, NodeStates, Ended
  <1>3. revoked \in SUBSET {n \in Nodes : Node[n] = "completed"}
    BY DEF Node
  <1>4. ASSUME NEW n \in Nodes, Node[n] # "waiting", NEW d \in DependsOn[n], d \in revoked
        PROVE  FALSE
    <2>1. st[n] # "waiting"
      BY <1>4 DEF Node, NodeOf
    <2>2. PICK w \in 1..Len(Waves) : n \in InWave(w)
      BY WaveFacts
    <2>3. ~(w > wave)
      BY <2>1, <2>2 DEF GraphInv, Frontier
    <2>4. PICK v \in 1..Len(Waves) : v < w /\ d \in InWave(v)
      BY <2>2, WaveFacts
    <2>5. d \in Current /\ wave \in 1..Len(Waves)
      BY <1>4 DEF NodeOf, GraphInv
    <2>6. v = wave
      BY <1>4, <2>4, <2>5, WaveFacts DEF Current
    <2> QED BY <2>3, <2>4, <2>5, <2>6, GraphAssumption
  <1>5. ASSUME NEW n \in Nodes
        PROVE  NodeOf(n)' = IF n \in revoked THEN "failed"
                            ELSE IF NodeOf(n) = "waiting" THEN "skipped" ELSE NodeOf(n)
    <2>1. st'[n] = IF states[n] = "waiting" THEN "skipped" ELSE states[n]
      BY DEF Stopping
    <2>2. st[n] \in NodeStates \ {"admitted", "provider"}
      BY DEF Active, GraphInv, StatesOK
    <2>3. CASE states[n] = st[n]
      BY <2>1, <2>2, <2>3 DEF NodeOf, NodeStates, Ended
    <2>4. CASE st[n] \in Ended /\ states[n] = "failed"
      BY <2>1, <2>4 DEF NodeOf, Ended
    <2> QED BY <2>3, <2>4
  <1>6. Node' = [n \in Nodes |-> IF n \in revoked THEN "failed"
                                 ELSE IF Node[n] = "waiting" THEN "skipped" ELSE Node[n]]
    BY <1>5 DEF Node
  <1>7. \A n \in Nodes : Node[n] # "waiting" => DependsOn[n] \cap revoked = {}
    BY <1>4
  <1> HIDE DEF revoked
  <1>8. Promise!Idle
    BY <1>2 DEF Promise!Idle, Node
  <1> QED BY <1>1, <1>3, <1>6, <1>7, <1>8 DEF Promise!Stop, Node

LEMMA AdvancePromise ==
  ASSUME GraphInv, NEW states, Results(states), NEW codes, Advance(states, codes)
  PROVE  [Promise!Next]_Promise!graphVars
  <1>0. phase # "done"
    BY DEF Results
  <1>1. CASE phase' = "done" /\ outcome'.status # "completed" /\ st' = Stopping(states)
    BY <1>0, <1>1, StopsPromise DEF Results, Promise!Next
  <1>2. CASE phase' = "wave" /\ st' = states /\ st = states
    BY <1>0, <1>2, Stutters DEF NodeOf, VerdictOf
  <1>3. CASE /\ \A n \in Nodes : st[n] = "completed" /\ states[n] = "completed"
             /\ phase' = "done" /\ outcome'.status = "completed" /\ st' = states
    <2>1. \A n \in Nodes : NodeOf(n) = "completed" /\ NodeOf(n)' = "completed"
      BY <1>3 DEF NodeOf
    <2>2. Node' = Node /\ \A n \in Nodes : Node[n] = "completed"
      BY <2>1 DEF Node
    <2>3. VerdictOf = "open" /\ VerdictOf' = "completed"
      BY <1>0, <1>3 DEF VerdictOf
    <2>4. Promise!Complete
      BY <2>2, <2>3 DEF Promise!Complete, Node
    <2> QED BY <2>4 DEF Promise!Next
  <1> QED BY <1>1, <1>2, <1>3, AdvanceCases

LEMMA ExecutePromise ==
  ASSUME GraphInv, NEW n \in Nodes, Execute(n)
  PROVE  [Promise!Next]_Promise!graphVars
  <1>0. st \in [Nodes -> NodeStates]
    BY DEF GraphInv, StatesOK
  <1>1. UNCHANGED <<phase, outcome>>
    BY DEF Execute, RefuseNode, EnterNode, PassCancelCheck, NeverLaunched, Unavailable,
           ProviderReturns, ProviderRaises, Conclude
  <1>2. CASE RefuseNode(n) \/ EnterNode(n)
    <2>1. PICK s \in {"failed", "admitted"} : st' = [st EXCEPT ![n] = s] /\ IsNext(n)
      BY <1>2 DEF RefuseNode, EnterNode, MayEnter
    <2>2. n \in Current /\ st[n] = "waiting" /\ phase \in {"serial", "parallel"}
          /\ \A d \in DependsOn[n] : d \in Nodes /\ st[d] = "completed"
      BY <2>1, NextNode
    <2>3. Node' = [Node EXCEPT ![n] = NodeOf(n)'] /\ VerdictOf = "open" /\ VerdictOf' = "open"
      BY <1>1, <2>1, <2>2, NodeChanges
    <2>4. Node[n] = "waiting" /\ \A d \in DependsOn[n] : Node[d] = "completed"
      BY <2>2 DEF Node, NodeOf
    <2>5. Promise!Ready(n)
      BY <2>3, <2>4 DEF Promise!Ready, Node
    <2>6. st'[n] = s
      BY <1>0, <2>1
    <2>7. NodeOf(n)' = "running" \/ NodeOf(n)' = "failed"
      BY <2>6 DEF NodeOf
    <2>8. Promise!Begin(n) \/ Promise!Refuse(n)
      BY <2>3, <2>5, <2>7 DEF Promise!Begin, Promise!Refuse, Node
    <2> QED BY <2>8 DEF Promise!Next
  <1>3. CASE PassCancelCheck(n)
    <2>1. st' = [st EXCEPT ![n] = "provider"] /\ st[n] = "admitted"
      BY <1>3 DEF PassCancelCheck
    <2>2. \A m \in Nodes : NodeOf(m)' = NodeOf(m)
      BY <1>0, <1>1, <2>1 DEF NodeOf
    <2> QED BY <1>1, <2>2, Stutters DEF VerdictOf
  <1>4. CASE NeverLaunched(n) \/ Unavailable(n) \/ ProviderReturns(n) \/ ProviderRaises(n)
    <2>1. st[n] \in {"admitted", "provider"}
      BY <1>4 DEF NeverLaunched, Unavailable, ProviderReturns, ProviderRaises
    <2>2. PICK s \in Ended : st' = [st EXCEPT ![n] = s]
      BY <1>4, ConcludeEnds
         DEF NeverLaunched, Unavailable, ProviderReturns, ProviderRaises, GraphInv
    <2>3. Node' = [Node EXCEPT ![n] = NodeOf(n)'] /\ VerdictOf = "open" /\ VerdictOf' = "open"
      BY <1>1, <2>1, <2>2, ActiveIsCurrent, NodeChanges
    <2>4. Node[n] = "running"
      BY <2>1 DEF Node, NodeOf
    <2>5. st'[n] = s
      BY <1>0, <2>2
    <2>6. NodeOf(n)' \in {"completed", "failed"}
      BY <2>5 DEF NodeOf, Ended
    <2>7. Promise!End(n)
      BY <2>3, <2>4, <2>6 DEF Promise!End, Node
    <2> QED BY <2>7 DEF Promise!Next
  <1> QED BY <1>2, <1>3, <1>4 DEF Execute

LEMMA PromiseStep ==
  ASSUME GraphInv, [Next]_vars
  PROVE  [Promise!Next]_Promise!graphVars
  <1>0. st \in [Nodes -> NodeStates]
    BY DEF GraphInv, StatesOK
  <1>1. CASE EndSerial
    BY <1>1, SerialResults, AdvancePromise
  <1>2. CASE EndParallel
    BY <1>2, ParallelResults, AdvancePromise
  <1>3. ASSUME phase # "done", phase' = "done", outcome'.status # "completed",
               st' = Stopping(st), Active = {}
        PROVE  [Promise!Next]_Promise!graphVars
    BY <1>0, <1>3, StopsPromise DEF Promise!Next
  <1>4. ASSUME UNCHANGED <<st, outcome>>, phase' = phase \/ (phase # "done" /\ phase' # "done")
        PROVE  [Promise!Next]_Promise!graphVars
    <2>1. \A n \in Nodes : NodeOf(n)' = NodeOf(n)
      BY <1>4 DEF NodeOf
    <2> QED BY <1>4, <2>1, Stutters DEF VerdictOf
  <1>5. CASE CancelWave
    BY <1>3, <1>5 DEF CancelWave, Halt, Finished, Stopping, IsNext
  <1>6. CASE BeginWave
    <2>1. Active = {} /\ phase = "wave"
      BY <1>6, ActiveIsCurrent DEF BeginWave, Active
    <2> QED BY <1>3, <1>4, <1>6, <2>1 DEF BeginWave, Halt, Finished, Stopping
  <1>7. CASE Start \/ Boot
    <2>1. Active = {} /\ phase \in {"new", "boot"} /\ st' = st
      BY <1>7, ActiveIsCurrent DEF Start, Boot, Active, nodeVars
    <2>2. CASE phase' = "done" /\ outcome'.status # "completed"
      <3>1. \A n \in Nodes : NodeOf(n)' = IF NodeOf(n) = "waiting" THEN "skipped" ELSE NodeOf(n)
        BY <1>0, <2>1, <2>2 DEF NodeOf, Active
      <3>2. Node' = [n \in Nodes |-> IF n \in {} THEN "failed"
                                     ELSE IF Node[n] = "waiting" THEN "skipped" ELSE Node[n]]
        BY <3>1 DEF Node
      <3>3. \A n \in Nodes : Node[n] # "running"
        BY <1>0, <2>1 DEF Node, NodeOf, Active, NodeStates, Ended
      <3>4. VerdictOf = "open" /\ VerdictOf' = "stopped"
        BY <2>1, <2>2 DEF VerdictOf
      <3>5. Promise!Idle
        BY <3>3 DEF Promise!Idle, Node
      <3>6. Promise!Stop
        <4> DEFINE revoked == {}
        <4>1. revoked \in SUBSET {n \in Nodes : Node[n] = "completed"}
          OBVIOUS
        <4>2. \A n \in Nodes : Node[n] # "waiting" => DependsOn[n] \cap revoked = {}
          OBVIOUS
        <4> QED BY <3>2, <3>4, <3>5, <4>1, <4>2 DEF Promise!Stop, Node
      <3> QED BY <3>6 DEF Promise!Next
    <2>3. CASE phase' \in {"boot", "wave"} /\ UNCHANGED outcome
      BY <1>4, <2>1, <2>3
    <2> QED BY <1>7, <2>2, <2>3 DEF Start, Boot, Finished
  <1>8. CASE CancelRun \/ CancelDriver \/ UNCHANGED vars
    BY <1>4, <1>8 DEF CancelRun, CancelDriver, vars, nodeVars
  <1>9. ASSUME NEW n \in Nodes, Provide(n)
        PROVE  [Promise!Next]_Promise!graphVars
    BY <1>4, <1>9 DEF Provide, Change, Commit, nodeVars
  <1> QED BY <1>1, <1>2, <1>5, <1>6, <1>7, <1>8, <1>9, ExecutePromise DEF Next, Run

LEMMA GraphInvariant == Spec => []GraphInv
  BY GraphInit, GraphStep, PTL DEF Spec

(* For any graph, scopes, budgets and threads a run implements the promise *)
(* of a task graph: a node starts only when its dependencies have          *)
(* completed, a wave that did not complete ends the run, an audit fails    *)
(* only what nothing was built on, and the verdict is final                *)
(* (CodexGraphRuntime.run and _execute_node against TaskGraph.tla).        *)
THEOREM GraphKeepsPromise == Spec => KeepsPromise
  BY GraphInit, GraphStep, PromiseInit, PromiseStep, PTL DEF Spec, KeepsPromise, Promise!Spec

-----------------------------------------------------------------------------
(* The audit: what goes on to verification is accounted for.               *)

Accounted(p) == /\ \E n \in Nodes : p \in Owned(n)
                /\ \E n \in Nodes : p \in changed[n]

(* Nothing was committed, and what Git shows changed is accounted for.     *)
CleanAt(tree, commits) ==
  commits = 0 /\ \A p \in Paths : tree[p] # "none" => Accounted(p)

Violated == \E n \in Nodes : st[n] = "failed" /\ code[n] = "scope_violation"

AuditTypes ==
  /\ DOMAIN code = Nodes /\ DOMAIN changed = Nodes
  /\ \A n \in Nodes : st[n] \in {"waiting", "admitted", "provider"} => changed[n] = {}

(* Between nodes, between waves and at the end the worktree is clean in    *)
(* that sense, or a node stands for the violation; while nodes are at work *)
(* the snapshot their audit compares with is clean.                        *)
Audited ==
  /\ phase \in {"new", "boot"} => head = 0
  /\ phase = "wave" => CleanAt(git, head)
  /\ phase = "serial" /\ Active = {} => CleanAt(git, head) \/ Violated
  /\ phase = "serial" /\ Active # {} => CleanAt(snap.git, snap.head)
  /\ phase = "parallel" => CleanAt(snap.git, snap.head)
  /\ phase = "done" => \/ CleanAt(git, head)
                       \/ outcome.status # "completed" /\ outcome.error # "budget_exceeded"
                       \/ outcome.status # "completed" /\ Violated

AuditInv == AuditTypes /\ Audited

LEMMA AuditInit == Init => AuditInv
  BY DEF Init, AuditInv, AuditTypes, Audited

LEMMA AuditAccounts == AuditInv => VerifiedChangesAccounted
  <1> SUFFICES ASSUME AuditInv, phase = "done", outcome.status = "completed" \/ Continues
               PROVE  CleanAt(git, head)
    BY DEF VerifiedChangesAccounted, CleanAt, Accounted
  <1>1. CASE outcome.status = "completed"
    BY <1>1 DEF AuditInv, Audited
  <1>2. CASE Continues
    <2>1. outcome.error = "budget_exceeded" /\ ~Violated
      BY <1>2 DEF Continues, Violated
    <2> QED BY <2>1 DEF AuditInv, Audited
  <1> QED BY <1>1, <1>2

(* What is in some record of changes stays in one.                         *)
LEMMA CleanGrows ==
  ASSUME NEW tree, NEW commits, CleanAt(tree, commits),
         \A n \in Nodes : changed[n] \subseteq changed'[n]
  PROVE  /\ commits = 0
         /\ \A p \in Paths : tree[p] # "none" => Accounted(p)'
  BY DEF CleanAt, Accounted

(* A serial wave that goes on has no violation in it.                      *)
LEMMA GoesOnUnviolated ==
  ASSUME GraphInv, phase # "done", \A n \in Current : st[n] \in {"waiting", "completed"}
  PROVE  ~Violated
  <1> SUFFICES ASSUME NEW n \in Nodes, st[n] = "failed" PROVE FALSE
    BY DEF Violated
  <1>1. PICK v \in 1..Len(Waves) : n \in InWave(v)
    BY WaveFacts
  <1>2. v = wave
    BY <1>1 DEF GraphInv, Frontier
  <1> QED BY <1>1, <1>2 DEF Current

LEMMA StartKeepsAudit ==
  ASSUME GraphInv, AuditInv, Start \/ Boot
  PROVE  AuditInv'
  <1>1. UNCHANGED <<st, code, changed, git, head>> /\ phase \in {"new", "boot"}
    BY DEF Start, Boot, nodeVars, treeVars
  <1>2. AuditTypes'
    BY <1>1 DEF AuditInv, AuditTypes
  <1>3. CASE Start
    <2>1. \/ phase' = "boot"
          \/ phase' = "done" /\ outcome'.status # "completed" /\ outcome'.error # "budget_exceeded"
      BY <1>3 DEF Start, Finished
    <2> QED BY <1>1, <1>2, <2>1 DEF AuditInv, Audited
  <1>4. CASE Boot
    <2>1. \/ phase' = "wave" /\ \A p \in Paths : git[p] = "none"
          \/ phase' = "done" /\ outcome'.status # "completed" /\ outcome'.error # "budget_exceeded"
      BY <1>4 DEF Boot, Finished
    <2>2. phase' = "wave" => CleanAt(git, head)'
      BY <1>1, <2>1 DEF AuditInv, Audited, CleanAt
    <2> QED BY <1>2, <2>1, <2>2 DEF AuditInv, Audited
  <1> QED BY <1>3, <1>4

LEMMA WaveKeepsAudit ==
  ASSUME GraphInv, AuditInv, BeginWave \/ CancelWave
  PROVE  AuditInv'
  <1>1. UNCHANGED <<code, changed, git, head>>
    BY DEF BeginWave, CancelWave, treeVars
  <1>2. CASE Halt(st, "cancelled", "cancelled")
    <2>1. /\ phase' = "done" /\ st' = Stopping(st)
          /\ outcome'.status # "completed" /\ outcome'.error # "budget_exceeded"
      BY <1>2 DEF Halt, Finished, Stopping
    <2>2. AuditTypes'
      BY <1>1, <2>1 DEF AuditInv, AuditTypes, Stopping
    <2> QED BY <2>1, <2>2 DEF AuditInv, Audited
  <1>3. CASE /\ phase = "wave" /\ phase' = IF CanParallelize THEN "parallel" ELSE "serial"
             /\ snap' = IF CanParallelize THEN Snapshot ELSE snap
             /\ st' = st
    <2>1. CleanAt(git, head)
      BY <1>3 DEF AuditInv, Audited
    <2>2. CleanAt(git, head)'
      BY <1>1, <2>1 DEF CleanAt, Accounted
    <2>3. Active = {}
      BY <1>3, ActiveIsCurrent DEF Active
    <2>4. Active' = {}
      BY <1>3, <2>3 DEF Active
    <2>5. AuditTypes'
      BY <1>1, <1>3 DEF AuditInv, AuditTypes
    <2>6. CASE CanParallelize
      <3>1. phase' = "parallel" /\ snap'.git = git' /\ snap'.head = head'
        BY <1>1, <1>3, <2>6 DEF Snapshot
      <3> QED BY <2>2, <2>5, <3>1 DEF AuditInv, Audited
    <2>7. CASE ~CanParallelize
      BY <1>3, <2>2, <2>4, <2>5, <2>7 DEF AuditInv, Audited
    <2> QED BY <2>6, <2>7
  <1> QED BY <1>2, <1>3 DEF BeginWave, CancelWave

(* Nodes that are refused, admitted, or pass the driver's look.            *)
LEMMA EnterKeepsAudit ==
  ASSUME GraphInv, AuditInv, NEW n \in Nodes,
         RefuseNode(n) \/ EnterNode(n) \/ PassCancelCheck(n)
  PROVE  AuditInv'
  <1>0. st \in [Nodes -> NodeStates] /\ UNCHANGED <<phase, changed, git, head>>
    BY DEF GraphInv, StatesOK, RefuseNode, EnterNode, PassCancelCheck, treeVars
  <1>1. \A tree, commits : CleanAt(tree, commits) => CleanAt(tree, commits)'
    BY <1>0 DEF CleanAt, Accounted
  <1>2. CASE RefuseNode(n) \/ EnterNode(n)
    <2>1. PICK s \in {"failed", "admitted"} : st' = [st EXCEPT ![n] = s] /\ IsNext(n)
      BY <1>2 DEF RefuseNode, EnterNode, MayEnter
    <2>2. n \in Current /\ st[n] = "waiting" /\ phase \in {"serial", "parallel"}
      BY <2>1, NextNode
    <2>3. AuditTypes'
      BY <1>0, <1>2, <2>1, <2>2 DEF RefuseNode, EnterNode, AuditInv, AuditTypes
    <2>4. CASE phase = "parallel"
      <3>1. snap' = snap
        BY <1>2, <2>4 DEF RefuseNode, EnterNode
      <3>2. CleanAt(snap.git, snap.head)
        BY <2>4 DEF AuditInv, Audited
      <3>3. CleanAt(snap.git, snap.head)'
        BY <1>0, <3>1, <3>2 DEF CleanAt, Accounted
      <3> QED BY <1>0, <2>3, <2>4, <3>3 DEF AuditInv, Audited
    <2>5. CASE phase = "serial"
      <3>1. Active = {} /\ \A m \in Current : st[m] \in {"waiting", "completed"}
        BY <2>1, <2>5 DEF IsNext
      <3>2. CleanAt(git, head)
        BY <2>5, <3>1, GoesOnUnviolated DEF AuditInv, Audited
      <3>3. CleanAt(git, head)'
        BY <1>0, <3>2 DEF CleanAt, Accounted
      <3>4. CASE RefuseNode(n)
        <4>1. Active' = {}
          BY <1>0, <3>1, <3>4 DEF RefuseNode, Active
        <4> QED BY <1>0, <2>3, <2>5, <3>3, <4>1 DEF AuditInv, Audited
      <3>5. CASE EnterNode(n)
        <4>1. n \in Active' /\ snap'.git = git' /\ snap'.head = head'
          BY <1>0, <2>5, <3>5 DEF EnterNode, Active, Snapshot
        <4> QED BY <1>0, <2>3, <2>5, <3>3, <4>1 DEF AuditInv, Audited
      <3> QED BY <1>2, <3>4, <3>5
    <2> QED BY <2>2, <2>4, <2>5
  <1>3. CASE PassCancelCheck(n)
    <2>1. st[n] = "admitted" /\ st' = [st EXCEPT ![n] = "provider"] /\ UNCHANGED <<code, snap>>
      BY <1>3 DEF PassCancelCheck, nodeVars
    <2>2. AuditTypes'
      BY <1>0, <2>1 DEF AuditInv, AuditTypes
    <2>3. n \in Active /\ n \in Active' /\ phase \in {"serial", "parallel"}
      BY <1>0, <2>1, ActiveIsCurrent DEF Active
    <2>4. CleanAt(snap.git, snap.head)
      BY <2>3 DEF AuditInv, Audited
    <2>5. CleanAt(snap.git, snap.head)'
      BY <1>0, <2>1, <2>4 DEF CleanAt, Accounted
    <2> QED BY <1>0, <2>2, <2>3, <2>5 DEF AuditInv, Audited
  <1> QED BY <1>2, <1>3

(* The judgement finds what the audit saw outside the node's scopes.       *)
LEMMA JudgedViolation ==
  ASSUME NEW n, NEW how, NEW reported, NEW audited, NEW moved \in BOOLEAN,
         ~ (Judge(n, how, reported, audited, moved) = Ran("failed", "scope_violation"))
  PROVE  ~moved /\ \A p \in audited : p \in Owned(n)
  <1>1. ~moved /\ Unauthorized(reported \cup audited, Owned(n), Exact[n], existing[n]) = {}
    BY DEF Judge
  <1> QED BY <1>1 DEF Unauthorized

(* A node is through: in a serial wave all that changed since it was       *)
(* entered is within its scopes and in its record, or the node is failed   *)
(* for it; on the pool the snapshot of the wave waits for the wave's end.  *)
LEMMA ConcludeKeepsAudit ==
  ASSUME GraphInv, AuditInv, NEW n \in Nodes, st[n] \in {"admitted", "provider"},
         NEW how, NEW reported, NEW usage, Conclude(n, how, reported, usage)
  PROVE  AuditInv'
  <1> DEFINE audited == IF phase = "serial" THEN Delta(snap) ELSE {}
             moved   == phase = "serial" /\ head # snap.head
             result  == Judge(n, how, reported, audited, moved)
  <1>0. st \in [Nodes -> NodeStates] /\ DOMAIN code = Nodes /\ DOMAIN changed = Nodes
    BY DEF GraphInv, StatesOK, AuditInv, AuditTypes
  <1>1. /\ st' = [st EXCEPT ![n] = result.status]
        /\ code' = [code EXCEPT ![n] = result.error]
        /\ changed' = [changed EXCEPT ![n] = reported \cup audited]
        /\ UNCHANGED <<phase, git, head, snap>>
    BY DEF Conclude, Recorded, treeVars
  <1>2. result.status \in Ended
    BY JudgedEnded
  <1>3. n \in Active /\ phase \in {"serial", "parallel"}
    BY ActiveIsCurrent DEF Active
  <1>4. CleanAt(snap.git, snap.head)
    BY <1>3 DEF AuditInv, Audited
  <1>5. changed[n] = {}
    BY DEF AuditInv, AuditTypes
  <1>6. \A m \in Nodes : changed[m] \subseteq changed'[m]
    BY <1>0, <1>1, <1>5
  <1>7. CleanAt(snap.git, snap.head)'
    BY <1>1, <1>4, <1>6 DEF CleanAt, Accounted
  <1>8. AuditTypes'
    BY <1>0, <1>1, <1>2 DEF AuditInv, AuditTypes, Ended
  <1>9. ASSUME phase = "serial", result # Ran("failed", "scope_violation")
        PROVE  CleanAt(git, head)'
    <2>1. moved \in BOOLEAN /\ audited = Delta(snap)
      BY <1>9
    <2>2. ~moved /\ \A p \in audited : p \in Owned(n)
      BY <1>9, <2>1, JudgedViolation
    <2>3. head = 0
      BY <1>4, <1>9, <2>2 DEF CleanAt
    <2>4. ASSUME NEW p \in Paths, git[p] # "none"
          PROVE  Accounted(p)'
      <3>1. CASE git[p] = snap.git[p]
        BY <1>1, <1>7, <2>4, <3>1 DEF CleanAt
      <3>2. CASE git[p] # snap.git[p]
        <4>1. p \in audited
          BY <2>1, <3>2 DEF Delta
        <4>2. p \in Owned(n) /\ p \in changed'[n]
          BY <1>0, <1>1, <2>2, <4>1
        <4> QED BY <4>2 DEF Accounted
      <3> QED BY <3>1, <3>2
    <2> QED BY <1>1, <2>3, <2>4 DEF CleanAt
  <1>10. ASSUME result = Ran("failed", "scope_violation")
         PROVE  Violated'
    <2>1. result.status = "failed" /\ result.error = "scope_violation"
      BY <1>10 DEF Ran
    <2> QED BY <1>0, <1>1, <2>1 DEF Violated
  <1> QED BY <1>1, <1>3, <1>7, <1>8, <1>9, <1>10 DEF AuditInv, Audited

LEMMA ProviderKeepsAudit ==
  ASSUME GraphInv, AuditInv, NEW n \in Nodes, Provide(n)
  PROVE  AuditInv'
  <1>1. st[n] = "provider" /\ UNCHANGED <<st, code, changed, phase, snap>>
    BY DEF Provide, Change, Commit, nodeVars
  <1>2. n \in Active /\ n \in Active' /\ phase \in {"serial", "parallel"}
    BY <1>1, ActiveIsCurrent DEF Active
  <1>3. CleanAt(snap.git, snap.head)
    BY <1>2 DEF AuditInv, Audited
  <1>4. CleanAt(snap.git, snap.head)'
    BY <1>1, <1>3 DEF CleanAt, Accounted
  <1>5. AuditTypes'
    BY <1>1 DEF AuditInv, AuditTypes
  <1> QED BY <1>1, <1>2, <1>4, <1>5 DEF AuditInv, Audited

(* The end of a wave, once its audit is done: what is clean stays clean,   *)
(* and a violation ends the run.                                           *)
LEMMA AdvanceKeepsAudit ==
  ASSUME GraphInv, AuditInv, NEW states, Results(states), NEW codes, Advance(states, codes),
         code' = codes, DOMAIN codes = Nodes, DOMAIN changed' = Nodes,
         UNCHANGED <<git, head>>,
         \A n \in Nodes : st[n] = "waiting" => changed'[n] = {},
         \/ CleanAt(git, head)'
         \/ \E n \in Nodes : states[n] = "failed" /\ codes[n] = "scope_violation"
  PROVE  AuditInv'
  <1>0. \A n \in Nodes : st[n] \notin {"admitted", "provider"}
    BY DEF Results, Active
  <1>1. \A n \in Nodes : states[n] \in {"waiting", "admitted", "provider"} => changed'[n] = {}
    BY <1>0 DEF Results
  <1>2. CASE phase' = "done" /\ outcome'.status # "completed" /\ st' = Stopping(states)
    <2>1. AuditTypes'
      BY <1>1, <1>2 DEF AuditTypes, Stopping
    <2>2. ASSUME NEW n \in Nodes, states[n] = "failed", codes[n] = "scope_violation"
          PROVE  Violated'
      BY <1>2, <2>2 DEF Violated, Stopping
    <2> QED BY <1>2, <2>1, <2>2 DEF AuditInv, Audited
  <1>3. CASE /\ \A n \in Current : states[n] = "completed"
             /\ phase' = "wave" /\ st' = states /\ st = states
    <2>1. AuditTypes'
      BY <1>1, <1>3 DEF AuditTypes
    <2>2. \A n \in Nodes : states[n] # "failed"
      <3> SUFFICES ASSUME NEW n \in Nodes PROVE states[n] # "failed"
        OBVIOUS
      <3>1. PICK v \in 1..Len(Waves) : n \in InWave(v)
        BY WaveFacts
      <3>2. (v < wave \/ v > wave \/ v = wave) /\ phase # "done"
        BY GraphAssumption DEF GraphInv, Results
      <3> QED BY <1>3, <3>1, <3>2 DEF GraphInv, Frontier, Current
    <2> QED BY <1>3, <2>1, <2>2 DEF AuditInv, Audited
  <1>4. CASE /\ \A n \in Nodes : st[n] = "completed" /\ states[n] = "completed"
             /\ phase' = "done" /\ st' = states
    <2>1. AuditTypes'
      BY <1>4 DEF AuditTypes
    <2> QED BY <1>4, <2>1 DEF AuditInv, Audited
  <1> QED BY <1>2, <1>3, <1>4, AdvanceCases

LEMMA SerialKeepsAudit ==
  ASSUME GraphInv, AuditInv, EndSerial
  PROVE  AuditInv'
  <1>1. /\ phase = "serial" /\ Active = {} /\ UNCHANGED <<code, changed, git, head>>
        /\ Results(st) /\ Advance(st, code)
    BY SerialResults DEF EndSerial, treeVars
  <1>2. CleanAt(git, head) \/ Violated
    BY <1>1 DEF AuditInv, Audited
  <1>3. CleanAt(git, head) => CleanAt(git, head)'
    BY <1>1 DEF CleanAt, Accounted
  <1>4. /\ DOMAIN code = Nodes /\ DOMAIN changed' = Nodes /\ code' = code
        /\ \A n \in Nodes : st[n] = "waiting" => changed'[n] = {}
    BY <1>1 DEF AuditInv, AuditTypes
  <1>5. Violated => \E n \in Nodes : st[n] = "failed" /\ code[n] = "scope_violation"
    BY DEF Violated
  <1> QED BY <1>1, <1>2, <1>3, <1>4, <1>5, AdvanceKeepsAudit

(* A wave on the pool is audited as a whole: a change that no scope of the *)
(* wave allows fails its first node, every other is within the scope of a  *)
(* node whose record it is added to.                                       *)
LEMMA ParallelKeepsAudit ==
  ASSUME GraphInv, AuditInv, EndParallel
  PROVE  AuditInv'
  <1> DEFINE audited  == Delta(snap)
             scopes   == UNION {Owned(n) : n \in Current}
             exact    == UNION {Exact[n] : n \in Current}
             present  == {p \in UNION {Creation[n] : n \in Current} : Exists(p)}
             violated == Unauthorized(audited, scopes, exact, present) # {} \/ head # snap.head
             first    == Waves[wave][1]
             states   == IF violated THEN [st EXCEPT ![first] = "failed"] ELSE st
             codes    == IF violated THEN [code EXCEPT ![first] = "scope_violation"] ELSE code
             mine(n)  == audited \ Unauthorized(audited, Owned(n), Exact[n], present)
  <1>1. /\ phase = "parallel" /\ \A n \in Current : st[n] \in Ended
        /\ code' = codes /\ Advance(states, codes)
        /\ changed' = [n \in Nodes |-> IF n \in Current THEN changed[n] \cup mine(n) ELSE changed[n]]
        /\ UNCHANGED <<git, head>>
    BY DEF EndParallel, treeVars
  <1>2. first \in Current /\ Current \subseteq Nodes
    <2>1. Len(Waves[wave]) \in Nat /\ Current # {}
      BY <1>1, GraphAssumption DEF GraphInv, PoolHasNodes
    <2>2. 1 \in 1..Len(Waves[wave])
      BY <2>1 DEF Current, InWave
    <2> QED BY <2>2, CurrentIsNodes DEF Current, InWave
  <1>3. /\ DOMAIN code = Nodes /\ st \in [Nodes -> NodeStates]
        /\ \A n \in Nodes : st[n] = "waiting" => changed[n] = {}
    BY DEF AuditInv, AuditTypes, GraphInv, StatesOK
  <1>4. Results(states)
    <2>1. Active = {}
      BY <1>1, ActiveIsCurrent DEF Active, Ended
    <2>2. states \in [Nodes -> NodeStates]
      BY <1>3 DEF NodeStates, Ended
    <2>3. \A n \in Nodes : states[n] = st[n] \/ (n = first /\ states[n] = "failed")
      BY <1>3
    <2> HIDE DEF states
    <2> QED BY <1>1, <1>2, <2>1, <2>2, <2>3 DEF Results
  <1>5. ASSUME violated
        PROVE  \E n \in Nodes : states[n] = "failed" /\ codes[n] = "scope_violation"
    <2>1. states = [st EXCEPT ![first] = "failed"] /\ codes = [code EXCEPT ![first] = "scope_violation"]
      BY <1>5
    <2>2. states[first] = "failed" /\ codes[first] = "scope_violation"
      BY <1>2, <1>3, <2>1
    <2> QED BY <1>2, <2>2
  <1>6. ASSUME ~violated
        PROVE  CleanAt(git, head)'
    <2>1. CleanAt(snap.git, snap.head) /\ head = snap.head
      BY <1>1, <1>6 DEF AuditInv, Audited
    <2>2. \A n \in Nodes : changed[n] \subseteq changed'[n]
      BY <1>1
    <2>3. ASSUME NEW p \in Paths, git[p] # "none"
          PROVE  Accounted(p)'
      <3>1. CASE git[p] = snap.git[p]
        BY <2>1, <2>2, <2>3, <3>1 DEF CleanAt, Accounted
      <3>2. CASE git[p] # snap.git[p]
        <4>1. p \in audited
          BY <3>2 DEF Delta
        <4>2. p \in scopes /\ (p \in present => p \in exact)
          BY <1>6, <4>1 DEF Unauthorized
        <4>3. PICK n \in Current : p \in Owned(n) /\ (p \in present => p \in Exact[n])
          <5>1. CASE p \in present
            BY <4>2, <5>1 DEF Owned
          <5>2. CASE p \notin present
            BY <4>2, <5>2
          <5> QED BY <5>1, <5>2
        <4>4. p \in mine(n)
          BY <4>1, <4>3 DEF Unauthorized
        <4>5. n \in Nodes /\ p \in changed'[n]
          BY <1>1, <1>2, <4>3, <4>4
        <4> QED BY <4>3, <4>5 DEF Accounted
      <3> QED BY <3>1, <3>2
    <2> QED BY <1>1, <2>1, <2>3 DEF CleanAt
  <1>7. DOMAIN codes = Nodes /\ DOMAIN changed' = Nodes
    BY <1>1, <1>3
  <1>8. \A n \in Nodes : st[n] = "waiting" => changed'[n] = {}
    BY <1>1, <1>3 DEF Ended
  <1> HIDE DEF states, codes, violated
  <1> QED BY <1>1, <1>4, <1>5, <1>6, <1>7, <1>8, AdvanceKeepsAudit

LEMMA AuditStep ==
  ASSUME GraphInv, AuditInv, [Next]_vars
  PROVE  AuditInv'
  <1>1. ASSUME UNCHANGED <<st, code, changed, phase, git, head, snap, outcome>>
        PROVE  AuditInv'
    BY <1>1 DEF AuditInv, AuditTypes, Audited, CleanAt, Accounted, Violated, Active
  <1>2. CASE CancelRun \/ CancelDriver \/ UNCHANGED vars
    BY <1>1, <1>2 DEF CancelRun, CancelDriver, vars, nodeVars, treeVars
  <1>3. ASSUME NEW n \in Nodes, Execute(n)
        PROVE  AuditInv'
    <2>1. CASE RefuseNode(n) \/ EnterNode(n) \/ PassCancelCheck(n)
      BY <2>1, EnterKeepsAudit
    <2>2. CASE NeverLaunched(n) \/ Unavailable(n) \/ ProviderReturns(n) \/ ProviderRaises(n)
      BY <2>2, ConcludeKeepsAudit DEF NeverLaunched, Unavailable, ProviderReturns, ProviderRaises
    <2> QED BY <1>3, <2>1, <2>2 DEF Execute
  <1> QED BY <1>2, <1>3, StartKeepsAudit, WaveKeepsAudit, SerialKeepsAudit, ParallelKeepsAudit,
             ProviderKeepsAudit DEF Next, Run

(* For any graph, scopes, providers and threads: a result that goes on to  *)
(* verification, completed or cut short by its budget, was not committed,  *)
(* and each path Git shows changed lies in the scope of some node and in   *)
(* the changed_files of one (_execute_node, run,                           *)
(* _budget_result_can_continue_to_verification).                           *)
THEOREM ChangesAccountedHolds == Spec => []VerifiedChangesAccounted
  BY GraphInit, GraphStep, AuditInit, AuditStep, AuditAccounts, PTL DEF Spec

-----------------------------------------------------------------------------
(* What a run leaves in the ledger.                                        *)

(* Only a node at work holds a reservation, that of its whole limit.       *)
HeldByActive ==
  /\ reservation \in [Operations -> Nat]
  /\ \A n \in Nodes :
       reservation[n] = IF st[n] \in {"admitted", "provider"} THEN Limit[n] ELSE 0

ReservationsReturned == phase = "done" => \A n \in Nodes : reservation[n] = 0

LEMMA HeldStep ==
  ASSUME GraphInv, HeldByActive, [Next]_vars
  PROVE  HeldByActive'
  <1>0. st \in [Nodes -> NodeStates] /\ Nodes = Operations /\ reservation \in [Operations -> Nat]
    BY DEF GraphInv, StatesOK, Nodes, HeldByActive
  <1>1. ASSUME UNCHANGED <<st, reservation>>
        PROVE  HeldByActive'
    BY <1>1 DEF HeldByActive
  <1>2. ASSUME Active = {}, UNCHANGED reservation,
               \A n \in Nodes : st'[n] \notin {"admitted", "provider"}
        PROVE  HeldByActive'
    BY <1>2 DEF HeldByActive, Active
  <1>9. ASSUME Active = {}, NEW states, NEW codes, Advance(states, codes),
               \A n \in Nodes : states[n] \notin {"admitted", "provider"}
        PROVE  \A n \in Nodes : st'[n] \notin {"admitted", "provider"}
    BY <1>9 DEF Advance, Halt
  <1>3. CASE Start \/ Boot \/ CancelRun \/ CancelDriver \/ UNCHANGED vars
    BY <1>1, <1>3 DEF Start, Boot, CancelRun, CancelDriver, vars, nodeVars, ledgerVars
  <1>4. CASE BeginWave \/ CancelWave
    <2>1. Active = {}
      BY <1>4, ActiveIsCurrent DEF BeginWave, CancelWave, IsNext, Active
    <2>2. \A n \in Nodes : st'[n] \notin {"admitted", "provider"}
      BY <1>4, <2>1 DEF BeginWave, CancelWave, Halt, Active
    <2> QED BY <1>2, <1>4, <2>1, <2>2 DEF BeginWave, CancelWave, ledgerVars
  <1>5. CASE EndSerial
    <2>1. Active = {} /\ Advance(st, code) /\ UNCHANGED reservation
      BY <1>5 DEF EndSerial, ledgerVars
    <2>2. \A n \in Nodes : st[n] \notin {"admitted", "provider"}
      BY <2>1 DEF Active
    <2> QED BY <1>2, <1>9, <2>1, <2>2
  <1>6. CASE EndParallel
    <2>1. Active = {}
      BY <1>6, ParallelResults DEF Results
    <2>2. PICK states, codes :
            /\ Advance(states, codes)
            /\ states = st \/ states = [st EXCEPT ![Waves[wave][1]] = "failed"]
      BY <1>6 DEF EndParallel
    <2>3. \A n \in Nodes : states[n] \notin {"admitted", "provider"}
      BY <1>0, <2>1, <2>2 DEF Active
    <2> QED BY <1>2, <1>6, <1>9, <2>1, <2>2, <2>3 DEF EndParallel, ledgerVars
  <1>7. ASSUME NEW n \in Nodes, Provide(n)
        PROVE  HeldByActive'
    BY <1>1, <1>7 DEF Provide, Change, Commit, nodeVars, ledgerVars
  <1>8. ASSUME NEW n \in Nodes, Execute(n)
        PROVE  HeldByActive'
    <2>1. CASE RefuseNode(n)
      <3>1. st[n] = "waiting" /\ st' = [st EXCEPT ![n] = "failed"] /\ UNCHANGED reservation
        BY <2>1 DEF RefuseNode, MayEnter, IsNext, ledgerVars
      <3> QED BY <1>0, <3>1 DEF HeldByActive
    <2>2. CASE EnterNode(n)
      <3>1. /\ st' = [st EXCEPT ![n] = "admitted"]
            /\ reservation' = [reservation EXCEPT ![n] = Limit[n]] /\ Limit[n] \in Nat
        BY <2>2, GraphAssumption DEF EnterNode, Admit
      <3> QED BY <1>0, <3>1 DEF HeldByActive
    <2>3. CASE PassCancelCheck(n)
      <3>1. st[n] = "admitted" /\ st' = [st EXCEPT ![n] = "provider"] /\ UNCHANGED reservation
        BY <2>3 DEF PassCancelCheck, ledgerVars
      <3> QED BY <1>0, <3>1 DEF HeldByActive
    <2>4. CASE NeverLaunched(n) \/ Unavailable(n) \/ ProviderReturns(n) \/ ProviderRaises(n)
      <3>1. PICK how, reported, usage : Conclude(n, how, reported, usage)
        BY <2>4 DEF NeverLaunched, Unavailable, ProviderReturns, ProviderRaises
      <3>2. PICK s \in Ended : st' = [st EXCEPT ![n] = s]
        BY <3>1, ConcludeEnds DEF GraphInv
      <3>3. reservation' = [reservation EXCEPT ![n] = 0]
        BY <3>1 DEF Conclude, Settle
      <3> QED BY <1>0, <3>2, <3>3 DEF HeldByActive, Ended
    <2> QED BY <1>8, <2>1, <2>2, <2>3, <2>4 DEF Execute
  <1> QED BY <1>3, <1>4, <1>5, <1>6, <1>7, <1>8 DEF Next, Run

(* However a run ends, refused, cancelled, failed or completed, no node of *)
(* it has kept a reservation: each that was admitted was settled           *)
(* (_execute_node, TaskTokenLedger.settle).                                *)
THEOREM ReservationsReturnedHolds == Spec => []ReservationsReturned
  <1>1. Init => HeldByActive
    BY LedgerAssumption DEF Init, LedgerInit, HeldByActive, Nodes
  <1>2. GraphInv /\ HeldByActive => ReservationsReturned
    BY DEF GraphInv, OverIsOver, Active, HeldByActive, ReservationsReturned
  <1> QED BY <1>1, <1>2, GraphInit, GraphStep, HeldStep, PTL DEF Spec

(* Admissions and settlements keep the total they subtract from the pool   *)
(* equal to the reservations they make and give back.                      *)
LEMMA HeldSumStep ==
  ASSUME LedgerTypeOK, HeldIsSum, [LedgerNext]_ledgerVars
  PROVE  HeldIsSum'
  <1>1. IsFiniteSet(Operations) /\ reservation \in [Operations -> Nat] /\ held \in Int
    BY LedgerAssumption DEF LedgerTypeOK
  <1>2. held = SumFunctionOnSet(reservation, Operations)
    BY <1>1 DEF HeldIsSum, SumFunction
  <1>3. ASSUME NEW op \in Operations, NEW amount \in Nat,
               reservation' = [reservation EXCEPT ![op] = amount],
               held' = held - reservation[op] + amount
        PROVE  HeldIsSum'
    <2> DEFINE rest == Operations \ {op}
               left == SumFunctionOnSet(reservation, rest)
    <2>1. reservation' \in [Operations -> Nat] /\ reservation'[op] = amount
      BY <1>1, <1>3
    <2>2. IsFiniteSet(rest) /\ \A x \in rest : reservation[x] \in Int /\ reservation[x] = reservation'[x]
      BY <1>1, <1>3, FS_RemoveElement
    <2>3. SumFunctionOnSet(reservation', rest) = left /\ left \in Int
      BY <2>2, SumsOfEqual, SumStep
    <2>4. SumFunctionOnSet(reservation, Operations) = reservation[op] + left
      BY <1>1, SumWithout
    <2>5. SumFunctionOnSet(reservation', Operations)
            = reservation'[op] + SumFunctionOnSet(reservation', rest)
      <3> DEFINE later == reservation'
      <3>1. \A x \in Operations : later[x] \in Int
        BY <2>1
      <3> HIDE DEF later
      <3>2. SumFunctionOnSet(later, Operations) = later[op] + SumFunctionOnSet(later, Operations \ {op})
        BY <1>1, <3>1, SumWithout
      <3> QED BY <3>2 DEF later
    <2> DEFINE given == reservation[op]
    <2>6. given \in Int /\ amount \in Int /\ held \in Int /\ left \in Int
      BY <1>1, <2>3
    <2>7. held = given + left /\ held' = held - given + amount
      BY <1>2, <1>3, <2>4, Zenon
    <2>8. SumFunctionOnSet(reservation', Operations) = amount + left
      BY <2>1, <2>3, <2>5, Zenon
    <2> HIDE DEF left, given
    <2>9. held' = amount + left
      BY <2>6, <2>7
    <2> QED BY <2>1, <2>8, <2>9 DEF HeldIsSum, SumFunction
  <1>4. ASSUME NEW op \in Operations, NEW want \in Amounts, Admit(op, want)
        PROVE  HeldIsSum'
    <2>1. reservation[op] = 0 /\ want \in Nat
      BY <1>4 DEF Admit, Refuses, Amounts
    <2>2. reservation' = [reservation EXCEPT ![op] = want] /\ held' = held - reservation[op] + want
      BY <1>1, <1>4, <2>1 DEF Admit
    <2> QED BY <1>3, <2>1, <2>2
  <1>5. ASSUME NEW op \in Operations, NEW usage \in Usage \cup {NoUsage}, Settle(op, usage)
        PROVE  HeldIsSum'
    <2>1. reservation' = [reservation EXCEPT ![op] = 0] /\ held' = held - reservation[op] + 0
      BY <1>1, <1>5 DEF Settle
    <2> QED BY <1>3, <2>1
  <1>6. CASE UNCHANGED ledgerVars
    BY <1>6 DEF HeldIsSum, ledgerVars
  <1> QED BY <1>4, <1>5, <1>6 DEF LedgerNext

(* The limits of nodes without usage, one more node at a time.             *)
LEMMA LimitsGrow ==
  ASSUME NEW some \in SUBSET Nodes, NEW n \in Nodes
  PROVE  LET total(S) == SumFunction([m \in S |-> Limit[m]])
         IN total(some) \in Int /\ total(some \cup {n}) <= total(some) + Limit[n]
  <1> DEFINE total(S) == SumFunction([m \in S |-> Limit[m]])
             all      == some \cup {n}
             over     == [m \in all |-> Limit[m]]
  <1>1. IsFiniteSet(some) /\ IsFiniteSet(all) /\ Limit \in [Nodes -> Nat \ {0}] /\ all \subseteq Nodes
    BY LedgerAssumption, GraphAssumption, FS_Subset DEF Nodes
  <1>2. \A S : total(S) = SumFunctionOnSet([m \in S |-> Limit[m]], S)
    BY DEF SumFunction
  <1>3. SumFunctionOnSet([m \in some |-> Limit[m]], some) \in Int
    <2> DEFINE part == [m \in some |-> Limit[m]]
    <2>1. \A m \in some : part[m] \in Int
      BY <1>1
    <2> HIDE DEF part
    <2>2. SumFunctionOnSet(part, some) \in Int
      BY <1>1, <2>1, SumStep
    <2> QED BY <2>2 DEF part
  <1>4. CASE n \in some
    <2>1. all = some
      BY <1>4
    <2> QED BY <1>1, <1>2, <1>3, <2>1
  <1>5. CASE n \notin some
    <2> DEFINE part == [m \in some |-> Limit[m]]
    <2>1. (\A m \in all : over[m] \in Int) /\ over[n] = Limit[n] /\ \A m \in some : over[m] = part[m]
      BY <1>1
    <2>2. n \in all /\ all \ {n} = some
      BY <1>5
    <2> HIDE DEF part, over, all
    <2>3. SumFunctionOnSet(over, all) = over[n] + SumFunctionOnSet(over, some)
      BY <1>1, <2>1, <2>2, SumWithout
    <2>4. \A m \in some : over[m] \in Int /\ over[m] = part[m]
      BY <2>1, <2>2
    <2>5. SumFunctionOnSet(over, some) = SumFunctionOnSet(part, some)
      BY <1>1, <2>4, SumsOfEqual
    <2>6. total(all) = SumFunctionOnSet(over, all) /\ total(some) = SumFunctionOnSet(part, some)
      BY <1>2 DEF over, part
    <2>7. total(some) \in Int /\ Limit[n] \in Int
      BY <1>1, <1>2, <1>3
    <2> HIDE DEF total
    <2>8. total(all) <= total(some) + Limit[n]
      BY <2>1, <2>3, <2>5, <2>6, <2>7
    <2> QED BY <2>7, <2>8 DEF total, all
  <1> QED BY <1>4, <1>5

UnknownCharged ==
  unknown \subseteq Nodes /\ charged >= SumFunction([n \in unknown |-> Limit[n]])

(* A node that reports nothing is charged the limit it reserved.           *)
LEMMA UnknownStep ==
  ASSUME LedgerTypeOK, HeldByActive, UnknownCharged, [Next]_vars
  PROVE  UnknownCharged'
  <1> DEFINE total(S) == SumFunction([m \in S |-> Limit[m]])
  <1>1. charged \in Nat /\ total(unknown) <= charged /\ unknown \subseteq Nodes
    BY DEF LedgerTypeOK, UnknownCharged
  <1>2. ASSUME NEW n \in Nodes, st[n] \in {"admitted", "provider"},
               NEW how, NEW reported, NEW usage \in Usage \cup {NoUsage},
               Conclude(n, how, reported, usage)
        PROVE  UnknownCharged'
    <2>1. Settle(n, usage)
      BY <1>2 DEF Conclude
    <2>2. Charge(n, usage) \in Nat /\ charged' = charged + Charge(n, usage)
      BY <2>1, ChargeIsNat DEF Settle, Nodes
    <2>3. CASE usage.source = "none"
      <3>1. Charge(n, usage) = Limit[n]
        BY <1>2, <2>3 DEF Charge, HeldByActive
      <3>2. unknown' = unknown \cup {n}
        BY <2>1, <2>3 DEF Settle
      <3>3. total(unknown) \in Int /\ total(unknown \cup {n}) <= total(unknown) + Limit[n]
        BY <1>1, LimitsGrow
      <3>4. Limit[n] \in Int
        BY GraphAssumption
      <3>5. total(unknown \cup {n}) \in Int
        <4>1. unknown \cup {n} \in SUBSET Nodes
          BY <1>1
        <4> QED BY <4>1, LimitsGrow
      <3> HIDE DEF total
      <3>6. charged' >= total(unknown \cup {n})
        BY <1>1, <2>2, <3>1, <3>3, <3>4, <3>5
      <3> QED BY <1>1, <3>2, <3>6 DEF UnknownCharged, total
    <2>4. CASE usage.source # "none"
      <3>1. unknown' = unknown
        BY <2>1, <2>4 DEF Settle
      <3>2. total(unknown) \in Int
        <4>1. unknown \in SUBSET Nodes /\ n \in Nodes
          BY <1>1
        <4> QED BY <4>1, LimitsGrow
      <3> HIDE DEF total
      <3>3. charged' >= total(unknown)
        BY <1>1, <2>2, <3>2
      <3> QED BY <1>1, <3>1, <3>3 DEF UnknownCharged, total
    <2> QED BY <2>3, <2>4
  <1>3. ASSUME UNCHANGED <<charged, unknown>>
        PROVE  UnknownCharged'
    BY <1>3 DEF UnknownCharged
  <1>4. CASE Run \/ CancelRun \/ CancelDriver \/ UNCHANGED vars
    BY <1>3, <1>4 DEF Run, Start, Boot, BeginWave, CancelWave, EndSerial, EndParallel, CancelRun,
                      CancelDriver, vars, ledgerVars
  <1>5. ASSUME NEW n \in Nodes, Provide(n)
        PROVE  UnknownCharged'
    BY <1>3, <1>5 DEF Provide, Change, Commit, ledgerVars
  <1>6. ASSUME NEW n \in Nodes, Execute(n)
        PROVE  UnknownCharged'
    <2>1. CASE RefuseNode(n) \/ PassCancelCheck(n) \/ EnterNode(n)
      BY <1>3, <2>1 DEF RefuseNode, PassCancelCheck, EnterNode, Admit, ledgerVars
    <2>2. CASE NeverLaunched(n) \/ Unavailable(n) \/ ProviderRaises(n)
      BY <1>2, <2>2 DEF NeverLaunched, Unavailable, ProviderRaises
    <2>3. CASE ProviderReturns(n)
      BY <1>2, <2>3, GraphAssumption DEF ProviderReturns
    <2> QED BY <1>6, <2>1, <2>2, <2>3 DEF Execute
  <1> QED BY <1>4, <1>5, <1>6 DEF Next

ClosedInv == GraphInv /\ HeldByActive /\ LedgerInv /\ HeldIsSum /\ UnknownCharged

(* The ledger adds up at every step, nothing is left in it when the run is *)
(* over, and what an opaque node may have used stays charged, for every    *)
(* graph and every set of limits (TaskTokenLedger).                        *)
THEOREM LedgerClosedHolds == Spec => []LedgerClosed
  <1>1. Init => ClosedInv
    <2> SUFFICES ASSUME Init PROVE ClosedInv
      OBVIOUS
    <2>1. LedgerInit
      BY DEF Init
    <2>2. GraphInv
      BY GraphInit
    <2>3. HeldByActive
      BY <2>1, LedgerAssumption DEF Init, LedgerInit, HeldByActive, Nodes
    <2>4. LedgerInv
      BY <2>1, LedgerAssumption DEF LedgerInit, LedgerInv, LedgerTypeOK, NoOverdraft
    <2>5. HeldIsSum
      <3>1. DOMAIN reservation = Operations /\ \A x \in Operations : reservation[x] = 0
        BY <2>1 DEF LedgerInit
      <3>2. SumFunctionOnSet(reservation, Operations) = 0
        BY <3>1, LedgerAssumption, SumOfZeros
      <3> QED BY <2>1, <3>1, <3>2 DEF LedgerInit, HeldIsSum, SumFunction
    <2>6. UnknownCharged
      <3> DEFINE none == [n \in {} |-> Limit[n]]
      <3>1. IsFiniteSet({}) /\ DOMAIN none = {} /\ \A x \in {} : none[x] = 0
        BY FS_EmptySet
      <3> HIDE DEF none
      <3>2. SumFunctionOnSet(none, {}) = 0
        BY <3>1, SumOfZeros
      <3>3. SumFunction(none) = 0
        BY <3>1, <3>2 DEF SumFunction
      <3>4. unknown = {} /\ charged = 0
        BY <2>1 DEF LedgerInit
      <3>5. SumFunction([n \in unknown |-> Limit[n]]) = 0
        BY <3>3, <3>4 DEF none
      <3> QED BY <3>4, <3>5 DEF UnknownCharged
    <2> QED BY <2>2, <2>3, <2>4, <2>5, <2>6 DEF ClosedInv
  <1>2. ClosedInv /\ [Next]_vars => ClosedInv'
    BY GraphStep, HeldStep, StepUsesLedger, LedgerStep, HeldSumStep, UnknownStep
    DEF ClosedInv, LedgerInv
  <1>3. ClosedInv => LedgerClosed
    <2> SUFFICES ASSUME ClosedInv PROVE LedgerClosed
      OBVIOUS
    <2>1. ASSUME phase = "done" PROVE held = 0
      <3>1. \A n \in Operations : reservation[n] = 0
        BY <2>1 DEF ClosedInv, GraphInv, OverIsOver, Active, HeldByActive, Nodes
      <3>2. SumFunctionOnSet(reservation, Operations) = 0
        BY <3>1, LedgerAssumption, SumOfZeros
      <3>3. DOMAIN reservation = Operations
        BY DEF ClosedInv, HeldByActive
      <3> QED BY <3>2, <3>3 DEF ClosedInv, HeldIsSum, SumFunction
    <2> QED BY <2>1 DEF ClosedInv, LedgerClosed, UnknownCharged
  <1> QED BY <1>1, <1>2, <1>3, PTL DEF Spec
=============================================================================
