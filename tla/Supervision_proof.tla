------------------------- MODULE Supervision_proof --------------------------
(***************************************************************************)
(* What stands between a ticket and a result that may be delivered, proved *)
(* of each component alone: the failure memory and its gate, for any       *)
(* number of tickets, rows, causes and observations; the provider routing  *)
(* of the nodes of a wave, for any number of nodes, routes and files; and  *)
(* the verification of a run, for any project, checks and rounds; and the  *)
(* plan, the packs and the graph of a ticket, for any ticket, project,     *)
(* classification of its files and scores.                                 *)
(***************************************************************************)
EXTENDS Planning, FailureMemory, Router, Verification, FiniteSetTheorems, SequenceTheorems,
        WellFoundedInduction, TLAPS

-----------------------------------------------------------------------------
(* The inductive invariant.  No failure has two rows, and the open rows are   *)
(* those of the failures that stand: this is what merging, pruning and        *)
(* resolving have to keep together.                                           *)

Keys ==
  [cause : Causes, target : {TargetOf[t] : t \in Tickets \cup {NoTicket}}, files : Snapshots]

Rows == [key : Keys, open : BOOLEAN]

DeskTypeOK ==
  /\ active \in Tickets \cup {NoTicket} /\ content \in Snapshots
  /\ cycles \in [Tickets -> Nat] /\ carried \in Nat /\ observed \in Nat

DistinctKeys(rows) == \A i, j \in DOMAIN rows : rows[i].key = rows[j].key => i = j

OpenKeys(rows) == {rows[i].key : i \in {j \in DOMAIN rows : rows[j].open}}

MemoryTypeOK == memory \in Seq(Rows) /\ Len(memory) <= MaxRows

MemoryInv ==
  /\ DeskTypeOK /\ MemoryTypeOK
  /\ DistinctKeys(memory) /\ standing = OpenKeys(memory)

-----------------------------------------------------------------------------
(* The table.                                                                 *)

(* What is left when a row is deleted.                                        *)
LEMMA WithoutRow ==
  ASSUME NEW S, NEW s \in Seq(S), NEW i \in 1..Len(s)
  PROVE  /\ Without(s, i) \in Seq(S) /\ Len(Without(s, i)) = Len(s) - 1
         /\ \A j \in 1..(Len(s) - 1) : Without(s, i)[j] = IF j < i THEN s[j] ELSE s[j + 1]
  <1> DEFINE front == SubSeq(s, 1, i - 1)
             back == SubSeq(s, i + 1, Len(s))
  <1>1. /\ front \in Seq(S) /\ Len(front) = i - 1
        /\ \A j \in 1..(i - 1) : front[j] = s[j]
    BY SubSeqProperties
  <1>2. /\ back \in Seq(S) /\ Len(back) = Len(s) - i
        /\ \A j \in 1..(Len(s) - i) : back[j] = s[i + j]
    <2>1. CASE i = Len(s)
      BY <2>1, SubSeqProperties
    <2>2. CASE i < Len(s)
      BY <2>2, SubSeqProperties
    <2> QED BY <2>1, <2>2
  <1>3. Without(s, i) = front \o back
    BY DEF Without, RemoveAt
  <1>4. /\ front \o back \in Seq(S) /\ Len(front \o back) = Len(front) + Len(back)
        /\ \A j \in 1..(Len(front) + Len(back)) :
             (front \o back)[j] = IF j <= Len(front) THEN front[j] ELSE back[j - Len(front)]
    BY <1>1, <1>2, ConcatProperties
  <1> HIDE DEF front, back
  <1>5. Len(s) \in Nat
    OBVIOUS
  <1>6. Len(front) + Len(back) = Len(s) - 1
    BY <1>1, <1>2, <1>5
  <1>7. ASSUME NEW j \in 1..(Len(s) - 1)
        PROVE  (front \o back)[j] = IF j < i THEN s[j] ELSE s[j + 1]
    <2>0. i \in Int /\ j \in Int /\ (j < i \/ j >= i)
      BY <1>5
    <2>1. CASE j < i
      BY <1>1, <1>4, <1>5, <1>6, <2>1
    <2>2. CASE j >= i
      <3>1. (front \o back)[j] = back[j - (i - 1)]
        BY <1>1, <1>4, <1>5, <1>6, <2>2
      <3>2. j - (i - 1) \in 1..(Len(s) - i) /\ i + (j - (i - 1)) = j + 1
        BY <1>5, <2>2
      <3>3. (front \o back)[j] = s[j + 1]
        BY <1>2, <3>1, <3>2
      <3>4. ~(j < i)
        BY <2>0, <2>2
      <3> QED BY <3>3, <3>4
    <2> QED BY <2>0, <2>1, <2>2
  <1> QED BY <1>3, <1>4, <1>6, <1>7

AllKeys(rows) == {rows[i].key : i \in DOMAIN rows}

(* Deleting a row takes its failure out of the table, and no other.           *)
LEMMA WithoutKeys ==
  ASSUME NEW rows \in Seq(Rows), DistinctKeys(rows), NEW i \in DOMAIN rows
  PROVE  /\ Without(rows, i) \in Seq(Rows) /\ Len(Without(rows, i)) = Len(rows) - 1
         /\ DistinctKeys(Without(rows, i))
         /\ OpenKeys(Without(rows, i)) = OpenKeys(rows) \ {rows[i].key}
         /\ AllKeys(Without(rows, i)) = AllKeys(rows) \ {rows[i].key}
  <1> DEFINE less == Without(rows, i)
             old(j) == IF j < i THEN j ELSE j + 1
             new(j) == IF j < i THEN j ELSE j - 1
  <1>1. Len(rows) \in Nat /\ DOMAIN rows = 1..Len(rows) /\ i \in 1..Len(rows)
    OBVIOUS
  <1>2. /\ less \in Seq(Rows) /\ Len(less) = Len(rows) - 1
        /\ \A j \in 1..(Len(rows) - 1) : less[j] = IF j < i THEN rows[j] ELSE rows[j + 1]
    BY <1>1, WithoutRow
  <1> HIDE DEF less
  <1>3. DOMAIN less = 1..(Len(rows) - 1)
    BY <1>2
  <1>4. \A j \in DOMAIN less : old(j) \in DOMAIN rows \ {i} /\ less[j] = rows[old(j)]
    BY <1>1, <1>2, <1>3
  <1>5. \A j \in DOMAIN rows \ {i} : new(j) \in DOMAIN less /\ old(new(j)) = j
    BY <1>1, <1>3
  <1>6. \A j, k \in DOMAIN less : old(j) = old(k) => j = k
    BY <1>1, <1>3
  <1> HIDE DEF old, new
  <1>7. DistinctKeys(less)
    BY <1>4, <1>6 DEF DistinctKeys
  <1>8. \A j \in DOMAIN rows \ {i} : rows[j].key # rows[i].key
    BY DEF DistinctKeys
  <1>9. OpenKeys(less) = OpenKeys(rows) \ {rows[i].key}
    <2>1. ASSUME NEW k \in OpenKeys(less)
          PROVE  k \in OpenKeys(rows) \ {rows[i].key}
      <3>1. PICK j \in DOMAIN less : less[j].open /\ k = less[j].key
        BY <2>1 DEF OpenKeys
      <3> QED BY <1>4, <1>8, <3>1 DEF OpenKeys
    <2>2. ASSUME NEW k \in OpenKeys(rows) \ {rows[i].key}
          PROVE  k \in OpenKeys(less)
      <3>1. PICK j \in DOMAIN rows : rows[j].open /\ k = rows[j].key
        BY <2>2 DEF OpenKeys
      <3>2. j # i
        BY <2>2, <3>1
      <3> QED BY <1>4, <1>5, <3>1, <3>2 DEF OpenKeys
    <2> QED BY <2>1, <2>2
  <1>10. AllKeys(less) = AllKeys(rows) \ {rows[i].key}
    <2>1. ASSUME NEW k \in AllKeys(less)
          PROVE  k \in AllKeys(rows) \ {rows[i].key}
      BY <1>4, <1>8, <2>1 DEF AllKeys
    <2>2. ASSUME NEW k \in AllKeys(rows) \ {rows[i].key}
          PROVE  k \in AllKeys(less)
      BY <1>4, <1>5, <2>2 DEF AllKeys
    <2> QED BY <2>1, <2>2
  <1> QED BY <1>2, <1>7, <1>9, <1>10 DEF less

LEMMA MergedRow ==
  ASSUME NEW row \in Rows
  PROVE  Merged(row) = [key |-> row.key, open |-> TRUE]
  <1>1. Merged(row) \in Rows /\ Merged(row).key = row.key /\ Merged(row).open = TRUE
    BY DEF Merged, Rows
  <1>2. \A r \in Rows : r = [key |-> r.key, open |-> r.open]
    BY DEF Rows
  <1> QED BY <1>1, <1>2

(* A failure that is observed has one row, the last one, and it is open.      *)
LEMMA SavedRow ==
  ASSUME MemoryTypeOK, DistinctKeys(memory), NEW key \in Keys
  PROVE  /\ Saved(key) \in Seq(Rows)
         /\ Len(Saved(key)) \in 1..(MaxRows + 1)
         /\ Saved(key)[Len(Saved(key))] = [key |-> key, open |-> TRUE]
         /\ DistinctKeys(Saved(key))
         /\ OpenKeys(Saved(key)) = OpenKeys(memory) \cup {key}
  <1> DEFINE row == [key |-> key, open |-> TRUE]
  <1>1. row \in Rows /\ MaxRows \in Nat
    BY MemoryAssumption DEF Rows
  (* A new row at the end of rows that do not hold the failure.               *)
  <1>2. ASSUME NEW rest \in Seq(Rows), Len(rest) <= MaxRows, DistinctKeys(rest), key \notin AllKeys(rest)
        PROVE  /\ Append(rest, row) \in Seq(Rows)
               /\ Len(Append(rest, row)) \in 1..(MaxRows + 1)
               /\ Append(rest, row)[Len(Append(rest, row))] = row
               /\ DistinctKeys(Append(rest, row))
               /\ OpenKeys(Append(rest, row)) = OpenKeys(rest) \cup {key}
    <2> DEFINE all == Append(rest, row)
    <2>1. /\ all \in Seq(Rows) /\ Len(all) = Len(rest) + 1
          /\ \A i \in 1..Len(rest) : all[i] = rest[i]
          /\ all[Len(rest) + 1] = row
      BY <1>1, AppendProperties
    <2>2. /\ Len(rest) \in Nat /\ DOMAIN rest = 1..Len(rest)
          /\ DOMAIN all = 1..(Len(rest) + 1)
      BY <2>1
    <2> HIDE DEF all
    <2>3. \A i \in DOMAIN rest : all[i].key # key
      BY <1>2, <2>1, <2>2 DEF AllKeys
    <2>4. \A i \in DOMAIN all : i \in DOMAIN rest \/ (i = Len(rest) + 1 /\ all[i] = row)
      BY <2>1, <2>2
    <2>5. DistinctKeys(all)
      BY <1>2, <2>1, <2>2, <2>3, <2>4 DEF DistinctKeys
    <2>6. OpenKeys(all) = OpenKeys(rest) \cup {key}
      <3>1. \A i \in DOMAIN rest : i \in DOMAIN all /\ all[i] = rest[i]
        BY <2>1, <2>2
      <3>2. Len(rest) + 1 \in DOMAIN all
        BY <2>2
      <3>3. ASSUME NEW k \in OpenKeys(all)
            PROVE  k \in OpenKeys(rest) \cup {key}
        BY <2>4, <3>1, <3>3 DEF OpenKeys
      <3>4. ASSUME NEW k \in OpenKeys(rest) \cup {key}
            PROVE  k \in OpenKeys(all)
        BY <2>1, <3>1, <3>2, <3>4 DEF OpenKeys
      <3> QED BY <3>3, <3>4
    <2>7. Len(all) \in 1..(MaxRows + 1) /\ all[Len(all)] = row
      BY <1>1, <1>2, <2>1, <2>2
    <2> QED BY <2>1, <2>5, <2>6, <2>7 DEF all
  <1> HIDE DEF row
  <1>3. CASE Positions(key) = {}
    <2>1. Saved(key) = Append(memory, row)
      BY <1>3 DEF Saved, NewRow, row
    <2>2. key \notin AllKeys(memory)
      BY <1>3 DEF Positions, AllKeys
    <2> QED BY <1>2, <2>1, <2>2 DEF MemoryTypeOK, row
  <1>4. CASE Positions(key) # {}
    <2> DEFINE i == CHOOSE j \in Positions(key) : TRUE
    <2>1. i \in Positions(key)
      BY <1>4
    <2>2. Saved(key) = Append(Without(memory, i), Merged(memory[i]))
      BY <1>4 DEF Saved
    <2> HIDE DEF i
    <2>3. i \in DOMAIN memory /\ memory[i].key = key /\ memory[i] \in Rows
      BY <2>1 DEF Positions, MemoryTypeOK
    <2>4. Merged(memory[i]) = row
      BY <2>3, MergedRow DEF row
    <2> DEFINE rest == Without(memory, i)
    <2>5. /\ rest \in Seq(Rows) /\ Len(rest) = Len(memory) - 1 /\ DistinctKeys(rest)
          /\ OpenKeys(rest) = OpenKeys(memory) \ {key}
          /\ AllKeys(rest) = AllKeys(memory) \ {key}
      BY <2>3, WithoutKeys DEF MemoryTypeOK
    <2> HIDE DEF rest
    <2>6. Len(rest) <= MaxRows
      BY <1>1, <2>5 DEF MemoryTypeOK
    <2> QED BY <1>2, <2>2, <2>4, <2>5, <2>6 DEF rest, row
  <1> QED BY <1>3, <1>4

LEMMA AllKeysOfOpen ==
  ASSUME NEW rows, \A i \in DOMAIN rows : rows[i].open
  PROVE  OpenKeys(rows) = AllKeys(rows)
  BY DEF OpenKeys, AllKeys

(* Pruning forgets no failure, unless every row that is left is open.         *)
LEMMA PrunedRows ==
  ASSUME NEW rows \in Seq(Rows), Len(rows) \in 1..(MaxRows + 1), DistinctKeys(rows),
         rows[Len(rows)].open, NEW kept \in Pruned(rows)
  PROVE  /\ kept \in Seq(Rows) /\ Len(kept) <= MaxRows
         /\ DistinctKeys(kept) /\ rows[Len(rows)].key \in AllKeys(kept)
         /\ OpenKeys(kept) = IF \A i \in DOMAIN kept : kept[i].open
                             THEN OpenKeys(rows) \cap AllKeys(kept) ELSE OpenKeys(rows)
  <1>0. /\ MaxRows \in Nat \ {0} /\ Len(rows) \in Nat /\ DOMAIN rows = 1..Len(rows)
        /\ Len(rows) \in DOMAIN rows
    BY MemoryAssumption
  <1>1. OpenKeys(rows) \subseteq AllKeys(rows)
    BY DEF OpenKeys, AllKeys
  <1>2. CASE Len(rows) <= MaxRows
    <2>1. kept = rows
      BY <1>2 DEF Pruned
    <2> QED BY <1>0, <1>1, <1>2, <2>1, AllKeysOfOpen DEF AllKeys
  <1>3. CASE ~(Len(rows) <= MaxRows)
    <2> DEFINE closed == {i \in 1..(Len(rows) - 1) : ~rows[i].open}
    <2>1. PICK i \in IF closed # {} THEN closed ELSE 1..(Len(rows) - 1) : kept = Without(rows, i)
      BY <1>3 DEF Pruned
    <2>2. i \in 1..(Len(rows) - 1)
      BY <2>1
    <2>3. i \in DOMAIN rows /\ i # Len(rows)
      <3>1. \A n \in Nat : \A j \in 1..(n - 1) : j \in 1..n /\ j # n
        OBVIOUS
      <3> QED BY <1>0, <2>2, <3>1
    <2>4. /\ kept \in Seq(Rows) /\ Len(kept) = Len(rows) - 1 /\ DistinctKeys(kept)
          /\ OpenKeys(kept) = OpenKeys(rows) \ {rows[i].key}
          /\ AllKeys(kept) = AllKeys(rows) \ {rows[i].key}
      BY <2>1, <2>3, WithoutKeys
    <2>5. rows[Len(rows)].key \in AllKeys(kept)
      BY <1>0, <2>3, <2>4 DEF AllKeys, DistinctKeys
    <2>6. Len(kept) <= MaxRows
      BY <1>0, <2>4
    <2>7. CASE closed # {}
      <3>1. ~rows[i].open
        BY <2>1, <2>7
      <3>2. rows[i].key \notin OpenKeys(rows)
        BY <2>3, <3>1 DEF OpenKeys, DistinctKeys
      <3> QED BY <1>1, <2>4, <2>5, <2>6, <3>2
    <2>8. CASE closed = {}
      <3>1. \A j \in DOMAIN rows : rows[j].open
        BY <1>0, <2>8
      <3>2. OpenKeys(rows) = AllKeys(rows)
        BY <3>1, AllKeysOfOpen
      <3>3. OpenKeys(kept) = AllKeys(kept)
        BY <2>4, <3>2
      <3>4. \A j \in DOMAIN kept : kept[j].open
        <4>1. SUFFICES ASSUME NEW j \in DOMAIN kept
                       PROVE  kept[j].open
          OBVIOUS
        <4>2. PICK k \in DOMAIN kept : kept[k].open /\ kept[k].key = kept[j].key
          BY <3>3 DEF OpenKeys, AllKeys
        <4> QED BY <2>4, <4>2 DEF DistinctKeys
      <3> QED BY <2>4, <2>5, <2>6, <3>2, <3>3, <3>4
    <2> QED BY <2>7, <2>8
  <1> QED BY <1>2, <1>3

-----------------------------------------------------------------------------
(* The invariant.                                                             *)

(* An observation, whatever row it merges with and whatever it pushes out.    *)
LEMMA RecordStep ==
  ASSUME MemoryInv, NEW cause \in Causes, Record(cause)
  PROVE  MemoryTypeOK' /\ DistinctKeys(memory') /\ standing' = OpenKeys(memory') /\ observed' \in Nat
  <1> DEFINE key == Fingerprint(cause)
             rows == Saved(key)
  <1>1. key \in Keys
    BY DEF MemoryInv, DeskTypeOK, Fingerprint, Keys
  <1>2. memory' \in Pruned(rows) /\ standing' = (standing \cup {key}) \ Forgotten(memory')
    BY DEF Record
  <1> HIDE DEF key
  <1>3. /\ rows \in Seq(Rows) /\ Len(rows) \in 1..(MaxRows + 1) /\ DistinctKeys(rows)
        /\ rows[Len(rows)].open /\ rows[Len(rows)].key = key
        /\ OpenKeys(rows) = standing \cup {key}
    <2>1. /\ rows \in Seq(Rows) /\ Len(rows) \in 1..(MaxRows + 1) /\ DistinctKeys(rows)
          /\ rows[Len(rows)] = [key |-> key, open |-> TRUE]
          /\ OpenKeys(rows) = OpenKeys(memory) \cup {key}
      BY <1>1, SavedRow DEF MemoryInv
    <2> QED BY <2>1 DEF MemoryInv
  <1> HIDE DEF rows
  <1>4. /\ memory' \in Seq(Rows) /\ Len(memory') <= MaxRows
        /\ DistinctKeys(memory') /\ key \in AllKeys(memory')
        /\ OpenKeys(memory') = IF \A i \in DOMAIN memory' : memory'[i].open
                               THEN OpenKeys(rows) \cap AllKeys(memory') ELSE OpenKeys(rows)
    BY <1>2, <1>3, PrunedRows
  <1>5. standing' = OpenKeys(memory')
    BY <1>2, <1>3, <1>4 DEF Forgotten, AllKeys
  <1>6. observed' \in Nat
    BY DEF Record, MemoryInv, DeskTypeOK
  <1> QED BY <1>4, <1>5, <1>6 DEF MemoryTypeOK

TableInv ==
  /\ MemoryTypeOK /\ DistinctKeys(memory) /\ standing = OpenKeys(memory) /\ observed \in Nat

LEMMA CaptureStep ==
  ASSUME MemoryInv, Capture
  PROVE  TableInv'
  <1>1. CASE Reason \in Causes
    BY <1>1, RecordStep DEF Capture, TableInv
  <1>2. CASE Reason \notin Causes
    BY <1>2 DEF Capture, TableInv, MemoryInv, MemoryTypeOK, DeskTypeOK, DistinctKeys, OpenKeys
  <1> QED BY <1>1, <1>2

(* A verification that passed closes the row of a failure, if it still has one. *)
LEMMA ResolveStep ==
  ASSUME MemoryInv, NEW th \in Threads, ResolveAfter(th)
  PROVE  TableInv'
  <1> DEFINE key == Head(after[th].left)
  <1>1. /\ memory' = [i \in DOMAIN memory |->
                        IF memory[i].key = key THEN [memory[i] EXCEPT !.open = FALSE] ELSE memory[i]]
        /\ standing' = standing \ {key} /\ observed' = observed
    BY DEF ResolveAfter
  <1> HIDE DEF key
  <1>2. memory \in Seq(Rows) /\ Len(memory) \in Nat /\ DOMAIN memory = 1..Len(memory)
    BY DEF MemoryInv, MemoryTypeOK
  <1>3. \A i \in DOMAIN memory : memory'[i] = IF memory[i].key = key THEN [memory[i] EXCEPT !.open = FALSE] ELSE memory[i]
    BY <1>1
  <1>4. \A r \in Rows : /\ [r EXCEPT !.open = FALSE] \in Rows
                        /\ [r EXCEPT !.open = FALSE].key = r.key
                        /\ ~[r EXCEPT !.open = FALSE].open
    BY DEF Rows
  <1>5. \A i \in DOMAIN memory : /\ memory[i] \in Rows /\ memory'[i] \in Rows
                                 /\ memory'[i].key = memory[i].key
                                 /\ memory'[i].open <=> (memory[i].open /\ memory[i].key # key)
    <2>1. SUFFICES ASSUME NEW i \in DOMAIN memory
                   PROVE  /\ memory[i] \in Rows /\ memory'[i] \in Rows
                          /\ memory'[i].key = memory[i].key
                          /\ memory'[i].open <=> (memory[i].open /\ memory[i].key # key)
      OBVIOUS
    <2>2. memory[i] \in Rows
      BY <1>2
    <2>3. CASE memory[i].key = key
      <3>1. memory'[i] = [memory[i] EXCEPT !.open = FALSE]
        BY <1>3, <2>3
      <3> QED BY <1>4, <2>2, <2>3, <3>1
    <2>4. CASE memory[i].key # key
      <3>1. memory'[i] = memory[i]
        BY <1>3, <2>4
      <3> QED BY <2>2, <2>4, <3>1
    <2> QED BY <2>3, <2>4
  <1>6. /\ memory' \in [1..Len(memory) -> Rows] /\ DOMAIN memory' = DOMAIN memory
        /\ memory' \in Seq(Rows) /\ Len(memory') = Len(memory)
    BY <1>1, <1>2, <1>5
  <1>7. DistinctKeys(memory')
    BY <1>5, <1>6 DEF MemoryInv, DistinctKeys
  <1>8. OpenKeys(memory') = OpenKeys(memory) \ {key}
    <2>1. ASSUME NEW k \in OpenKeys(memory')
          PROVE  k \in OpenKeys(memory) \ {key}
      BY <1>5, <1>6, <2>1 DEF OpenKeys
    <2>2. ASSUME NEW k \in OpenKeys(memory) \ {key}
          PROVE  k \in OpenKeys(memory')
      BY <1>5, <1>6, <2>2 DEF OpenKeys
    <2> QED BY <2>1, <2>2
  <1> QED BY <1>1, <1>6, <1>7, <1>8 DEF TableInv, MemoryInv, MemoryTypeOK, DeskTypeOK

TableKept == UNCHANGED <<memory, standing, observed>>

LEMMA TableStutters ==
  ASSUME MemoryInv, TableKept
  PROVE  TableInv'
  BY DEF TableKept, TableInv, MemoryInv, MemoryTypeOK, DeskTypeOK, DistinctKeys, OpenKeys

(* Three actions write the table; the others have only the desk to disturb.   *)
LEMMA MemoryStep ==
  ASSUME MemoryInv, [MemoryNext]_memoryVars
  PROVE  MemoryInv'
  <1> DEFINE Kept == UNCHANGED <<active, content, cycles, carried>>
  <1> USE DEF ghosts, desk, records, Show, TableKept
  <1>1. ASSUME TableInv', active' \in Tickets \cup {NoTicket}, content' \in Snapshots,
               cycles' \in [Tickets -> Nat], carried' \in Nat
        PROVE  MemoryInv'
    BY <1>1 DEF MemoryInv, TableInv, DeskTypeOK
  <1>2. ASSUME TableInv', Kept
        PROVE  MemoryInv'
    BY <1>1, <1>2 DEF MemoryInv, DeskTypeOK
  <1>3. ASSUME TableKept, active' \in Tickets \cup {NoTicket}, UNCHANGED <<content, cycles, carried>>
        PROVE  MemoryInv'
    BY <1>1, <1>3, TableStutters DEF MemoryInv, DeskTypeOK
  <1>4. ASSUME NEW t \in Tickets, Select(t)
        PROVE  MemoryInv'
    BY <1>3, <1>4 DEF Select
  <1>5. ASSUME NEW t \in Tickets, Plan(t)
        PROVE  MemoryInv'
    <2>1. TableKept /\ active' = t /\ content' = content /\ carried' = 0
      BY <1>5 DEF Plan
    <2>2. cycles' \in [Tickets -> Nat]
      BY <1>5 DEF Plan, MemoryInv, DeskTypeOK
    <2> QED BY <1>1, <2>1, <2>2, TableStutters DEF MemoryInv, DeskTypeOK
  <1>6. CASE NewTicket
    BY <1>1, <1>6, TableStutters DEF NewTicket, MemoryInv, DeskTypeOK
  <1>7. CASE Resume
    <2>1. TableInv'
      BY <1>7, CaptureStep DEF Resume
    <2>2. active \in Tickets /\ carried' = cycles[active] /\ UNCHANGED <<content, cycles>> /\ active' = NoTicket
      BY <1>7 DEF Resume, MemoryInv, DeskTypeOK
    <2>3. carried' \in Nat
      BY <2>2 DEF MemoryInv, DeskTypeOK
    <2> QED BY <1>1, <2>1, <2>2, <2>3 DEF MemoryInv, DeskTypeOK
  <1>8. CASE StartTicket
    BY <1>2, <1>8, TableStutters DEF StartTicket
  <1>9. CASE Refused
    BY <1>2, <1>9, TableStutters DEF Refused
  <1>10. CASE LaunchRun
    BY <1>2, <1>10, TableStutters DEF LaunchRun
  <1>11. CASE Repair
    <2>1. TableKept /\ active' = active /\ UNCHANGED <<content, carried>>
      BY <1>11 DEF Repair
    <2>2. cycles' \in [Tickets -> Nat]
      BY <1>11 DEF Repair, MemoryInv, DeskTypeOK
    <2> QED BY <1>1, <2>1, <2>2, TableStutters DEF MemoryInv, DeskTypeOK
  <1>12. ASSUME NEW c \in Causes, Preflight(c) \/ Inspect(c)
         PROVE  MemoryInv'
    BY <1>2, <1>12, TableStutters DEF Preflight, Inspect, Unavailable
  <1>13. ASSUME NEW c \in Causes, RunRaises(c)
         PROVE  MemoryInv'
    BY <1>2, <1>13, TableStutters DEF RunRaises
  <1>14. ASSUME NEW o, Reverify(o)
         PROVE  MemoryInv'
    BY <1>2, <1>14, TableStutters DEF Reverify
  <1>15. ASSUME NEW o, RunEnds(o)
         PROVE  MemoryInv'
    BY <1>2, <1>15, TableStutters DEF RunEnds
  <1>16. ASSUME NEW th \in Threads, CaptureAfter(th)
         PROVE  MemoryInv'
    BY <1>2, <1>16, CaptureStep DEF CaptureAfter
  <1>17. ASSUME NEW th \in Threads, ListAfter(th) \/ ResolvedAfter(th)
         PROVE  MemoryInv'
    BY <1>2, <1>17, TableStutters DEF ListAfter, ResolvedAfter
  <1>18. ASSUME NEW th \in Threads, ResolveAfter(th)
         PROVE  MemoryInv'
    <2>1. TableInv'
      BY <1>18, ResolveStep
    <2> QED BY <1>2, <1>18, <2>1 DEF ResolveAfter
  <1>19. CASE EditFiles
    BY <1>1, <1>19, TableStutters DEF EditFiles, MemoryInv, DeskTypeOK
  <1>20. CASE Restart
    BY <1>1, <1>20, TableStutters DEF Restart, MemoryInv, DeskTypeOK
  <1>21. CASE UNCHANGED memoryVars
    BY <1>2, <1>21, TableStutters DEF memoryVars
  <1> QED
    BY <1>4, <1>5, <1>6, <1>7, <1>8, <1>9, <1>10, <1>11, <1>12, <1>13, <1>14, <1>15, <1>16,
       <1>17, <1>18, <1>19, <1>20, <1>21 DEF MemoryNext

LEMMA MemoryStarts == MemoryInit => MemoryInv
  <1> SUFFICES ASSUME MemoryInit PROVE MemoryInv
    OBVIOUS
  <1>1. DeskTypeOK
    BY DEF MemoryInit, DeskTypeOK
  <1>2. MemoryTypeOK
    BY MemoryAssumption DEF MemoryInit, MemoryTypeOK
  <1>3. DistinctKeys(memory) /\ standing = OpenKeys(memory)
    BY DEF MemoryInit, DistinctKeys, OpenKeys
  <1> QED BY <1>1, <1>2, <1>3 DEF MemoryInv

(* Whatever is observed, resolved and dropped in whatever order, the table    *)
(* holds one row of a failure, no more rows than it may, and exactly the      *)
(* failures that stand are open in it.                                        *)
THEOREM MemoryHolds == MemorySpec => []MemoryInv
  BY MemoryStarts, MemoryStep, PTL DEF MemorySpec

-----------------------------------------------------------------------------
(* The gate.                                                                  *)

LEMMA OpenAfterCounts ==
  ASSUME MemoryTypeOK, NEW i
  PROVE  Cardinality(OpenAfter(i)) \in Nat
  <1>1. IsFiniteSet(1..Len(memory))
    BY FS_Interval DEF MemoryTypeOK
  <1>2. OpenAfter(i) \subseteq 1..Len(memory)
    BY DEF OpenAfter, MemoryTypeOK
  <1> QED BY <1>1, <1>2, FS_Subset, FS_CardinalityType

(* A ticket is blocked by the failures that stand and that are not crowded out. *)
LEMMA BlockedByStanding ==
  ASSUME MemoryInv
  PROVE  (\E i \in Newest(Listed) : Repeats(memory[i])) <=>
         (\E key \in standing : /\ key.target = TargetOf[active] /\ key.files = content
                                /\ key.cause \notin External /\ ~Crowded(key))
  <1>0. Listed \in Nat /\ \A i : Cardinality(OpenAfter(i)) \in Nat
    BY MemoryAssumption, OpenAfterCounts DEF MemoryInv
  <1>1. ASSUME NEW i \in Newest(Listed), Repeats(memory[i])
        PROVE  memory[i].key \in standing /\ ~Crowded(memory[i].key)
    <2>1. i \in DOMAIN memory /\ memory[i].open /\ Cardinality(OpenAfter(i)) < Listed
      BY <1>1 DEF Newest
    <2>2. Positions(memory[i].key) = {i}
      BY <2>1 DEF Positions, MemoryInv, DistinctKeys
    <2> QED BY <1>0, <2>1, <2>2 DEF MemoryInv, OpenKeys, Crowded
  <1>2. ASSUME NEW key \in standing, ~Crowded(key)
        PROVE  \E i \in Newest(Listed) : memory[i].key = key
    <2>1. PICK i \in DOMAIN memory : memory[i].open /\ memory[i].key = key
      BY DEF MemoryInv, OpenKeys
    <2>2. Cardinality(OpenAfter(i)) < Listed
      BY <1>0, <1>2, <2>1 DEF Crowded, Positions
    <2> QED BY <2>1, <2>2 DEF Newest
  <1>3. ASSUME NEW i \in Newest(Listed), Repeats(memory[i])
        PROVE  \E key \in standing : /\ key.target = TargetOf[active] /\ key.files = content
                                     /\ key.cause \notin External /\ ~Crowded(key)
    BY <1>1, <1>3 DEF Repeats
  <1>4. ASSUME NEW key \in standing, key.target = TargetOf[active], key.files = content,
               key.cause \notin External, ~Crowded(key)
        PROVE  \E i \in Newest(Listed) : Repeats(memory[i])
    BY <1>2, <1>4 DEF Repeats
  <1> QED BY <1>3, <1>4

(* Only a start, and a repair whose cycle was begun, get into the gate.        *)
THEOREM RepeatIsRefusedHolds == MemorySpec => RepeatIsRefused
  <1> DEFINE Stands ==
        \E key \in standing : /\ key.target = TargetOf[active] /\ key.files = content
                              /\ key.cause \notin External /\ ~Crowded(key)
             Gated ==
        gate = "none" /\ gate' \in {"inspect", "refused"} /\ cycles'[active] = 0 =>
          (gate' = "refused" <=> Stands)
  <1>1. ASSUME MemoryInv, [MemoryNext]_memoryVars
        PROVE  Gated
    <2> SUFFICES ASSUME gate = "none", gate' \in {"inspect", "refused"}, cycles'[active] = 0
                 PROVE  gate' = "refused" <=> Stands
      OBVIOUS
    <2> HIDE DEF Stands
    <2>1. StartTicket \/ Repair
      BY <1>1 DEF MemoryNext, memoryVars, Select, Plan, NewTicket, Resume, Refused, LaunchRun, Preflight,
           Inspect, Unavailable, RunRaises, Reverify, RunEnds, CaptureAfter, ListAfter, ResolveAfter,
           ResolvedAfter, EditFiles, Restart
    <2>2. CASE StartTicket
      <3>1. cycles[active] = 0 /\ (gate' = "refused" <=> Blocked)
        BY <2>2 DEF StartTicket, records
      <3>2. Blocked <=> Stands
        BY <1>1, <3>1, BlockedByStanding DEF Blocked, Stands
      <3> QED BY <3>1, <3>2
    <2>3. CASE Repair
      <3>1. active \in Tickets /\ cycles' = [cycles EXCEPT ![active] = @ + 1] /\ cycles \in [Tickets -> Nat]
        BY <1>1, <2>3 DEF Repair, MemoryInv, DeskTypeOK
      <3>2. cycles'[active] # 0
        BY <3>1
      <3> QED BY <3>2
    <2> QED BY <2>1, <2>2, <2>3
  <1> QED BY <1>1, MemoryHolds, PTL DEF MemorySpec, RepeatIsRefused

-----------------------------------------------------------------------------
(* The nodes of a wave on their router (Router).                           *)

Stations == {"idle", "try", "check", "launch", "register", "poll", "wait", "audit", "decide", "done"}

\* Where a process may live, and where the tokens of the attempt are not yet
\* among those of the node.
Living    == {"register", "poll", "wait"}
Uncounted == Living \cup {"launch", "audit"}

NodeTypes(n) ==
  /\ pc[n] \in Stations /\ attempt[n] \in 1..(Routes + 1)
  /\ initial[n] \in [given : BOOLEAN, paths : SUBSET Paths]
  /\ used[n] \in 0..MaxTokens /\ tokens[n] \in 0..MaxTokens
  /\ proc[n] \in {"none", "running", "dying", "completed"} \cup Complaints
  /\ reported[n] \in SUBSET Paths /\ changed[n] \in SUBSET Paths /\ own[n] \in SUBSET Paths
  /\ verdict[n] \in {"none", "unavailable", "cancelled", "timed_out", "completed"} \cup Classes

Arrays ==
  /\ pc = [n \in Nodes |-> pc[n]] /\ attempt = [n \in Nodes |-> attempt[n]]
  /\ initial = [n \in Nodes |-> initial[n]] /\ used = [n \in Nodes |-> used[n]]
  /\ tokens = [n \in Nodes |-> tokens[n]] /\ proc = [n \in Nodes |-> proc[n]]
  /\ reported = [n \in Nodes |-> reported[n]] /\ changed = [n \in Nodes |-> changed[n]]
  /\ own = [n \in Nodes |-> own[n]] /\ verdict = [n \in Nodes |-> verdict[n]]

Shared ==
  /\ tree \subseteq Paths /\ cancelled \subseteq 1..Routes
  /\ canceller \in [route : 1..(Routes + 1), does : {"flag", "signal"}]
  /\ canceller.does = "signal" => canceller.route <= Routes
  /\ registered \subseteq Nodes /\ ran \subseteq Nodes /\ blind \subseteq Nodes

\* Nothing lives that the router has not started and not reaped; an attempt
\* has a route and, until it is counted, room in what the node may report.
Attempted(n) ==
  /\ Alive(n) => pc[n] \in Living
  /\ pc[n] \in Uncounted \cup {"check", "decide"} => attempt[n] \in Attempts
  /\ pc[n] \in Uncounted => used[n] + tokens[n] <= MaxTokens
  /\ pc[n] = "decide" => tokens[n] <= used[n]

\* Before an attempt nothing has been changed, and what ran before is paid.
Unspent(n) ==
  /\ pc[n] = "idle" => n \notin ran
  /\ pc[n] \in {"idle", "try", "check", "launch"} /\ n \notin blind => own[n] = {}
  /\ pc[n] \in {"try", "check", "launch"} /\ n \in ran => used[n] > 0
  /\ pc[n] \in {"check", "launch"} => used[n] < FreshLimit

\* After an attempt the result names what was changed.
Seen(n) ==
  /\ own[n] \subseteq tree
  /\ pc[n] # "idle" /\ n \notin blind => initial[n].given
  /\ pc[n] \in {"decide", "done"} /\ Audited(n) /\ n \notin blind => own[n] \subseteq changed[n]

NodeInv(n) == NodeTypes(n) /\ Attempted(n) /\ Unspent(n) /\ Seen(n)

RouterInv == Shared /\ Arrays /\ \A n \in Nodes : NodeInv(n)

\* What a step leaves alone of a node keeps its part of the invariant.
Untouched(n) ==
  /\ pc'[n] = pc[n] /\ attempt'[n] = attempt[n] /\ initial'[n] = initial[n]
  /\ used'[n] = used[n] /\ tokens'[n] = tokens[n] /\ proc'[n] = proc[n]
  /\ reported'[n] = reported[n] /\ changed'[n] = changed[n] /\ own'[n] = own[n]
  /\ verdict'[n] = verdict[n]
  /\ tree \subseteq tree' /\ (n \in blind' <=> n \in blind) /\ (n \in ran' <=> n \in ran)

LEMMA UntouchedKeeps ==
  ASSUME NEW n \in Nodes, NodeInv(n), Untouched(n)
  PROVE  NodeInv(n)'
  <1>1. NodeTypes(n)'
    BY DEF NodeInv, NodeTypes, Untouched
  <1>2. Attempted(n)'
    BY DEF NodeInv, Attempted, Untouched, Alive
  <1>3. Unspent(n)'
    BY DEF NodeInv, Unspent, Untouched
  <1>4. Seen(n)'
    BY DEF NodeInv, Seen, Untouched, Audited
  <1> QED BY <1>1, <1>2, <1>3, <1>4 DEF NodeInv

LEMMA AttemptsAreRoutes ==
  Attempts \subseteq 1..Routes
  BY RouterAssumption DEF Attempts

LEMMA RouterStarts == RouterInit => RouterInv
  <1> SUFFICES ASSUME RouterInit PROVE RouterInv
    OBVIOUS
  <1>1. Shared
    BY RouterAssumption DEF RouterInit, Shared
  <1>2. Arrays
    BY DEF RouterInit, Arrays
  <1>3. ASSUME NEW n \in Nodes PROVE NodeInv(n)
    <2>1. NodeTypes(n)
      BY <1>3, RouterAssumption DEF RouterInit, NodeTypes, Stations, NoAnswer
    <2>2. Attempted(n)
      BY <1>3 DEF RouterInit, Attempted, Alive, Uncounted, Living
    <2>3. Unspent(n) /\ Seen(n)
      BY <1>3 DEF RouterInit, Unspent, Seen
    <2> QED BY <2>1, <2>2, <2>3 DEF NodeInv
  <1> QED BY <1>1, <1>2, <1>3 DEF RouterInv

-----------------------------------------------------------------------------
\* The router's own steps of a node.
LEMMA DecidingStep ==
  ASSUME RouterInv, NEW n \in Nodes,
         LookFirst(n) \/ GiveUp(n) \/ PassOver(n) \/ Execute(n) \/ Decide(n)
  PROVE  RouterInv'
  <1>0. Shared /\ Arrays /\ NodeInv(n) /\ \A m \in Nodes : NodeInv(m)
    BY DEF RouterInv
  <1>1. Shared'
    BY <1>0 DEF Shared, LookFirst, GiveUp, PassOver, Execute, Decide, controlVars, processVars, ghostVars
  <1>2. Arrays'
    BY <1>0 DEF Arrays, LookFirst, GiveUp, PassOver, Execute, Decide, Goto, nodeVars, processVars, ghostVars
  <1>3. ASSUME NEW m \in Nodes, m # n PROVE NodeInv(m)'
    <2>1. Untouched(m)
      BY <1>0, <1>3 DEF Untouched, Arrays, LookFirst, GiveUp, PassOver, Execute, Decide, Goto, nodeVars,
           processVars, ghostVars
    <2> QED BY <1>0, <1>3, <2>1, UntouchedKeeps
  <1>4. NodeInv(n)'
    <2>0. Attempts \subseteq 1..Routes /\ Routes \in Nat /\ FreshLimit \in Nat /\ MaxTokens \in Nat
      BY AttemptsAreRoutes, RouterAssumption
    <2>1. CASE LookFirst(n)
      <3>1. /\ pc[n] = "idle" /\ pc'[n] = "try" /\ n \notin ran /\ own'[n] = own[n]
            /\ n \notin blind' => n \notin blind /\ initial'[n].given
            /\ initial'[n] \in [given : BOOLEAN, paths : SUBSET Paths]
        <4>1. PICK answer \in GitStatus :
                /\ initial' = [initial EXCEPT ![n] = answer]
                /\ blind' = IF ~answer.given THEN blind \cup {n} ELSE blind
          BY <2>1 DEF LookFirst
        <4>2. answer \in [given : BOOLEAN, paths : SUBSET Paths]
          <5>1. CASE answer = NoAnswer
            BY <5>1 DEF NoAnswer
          <5>2. CASE answer = [given |-> TRUE, paths |-> tree]
            BY <1>0, <5>2 DEF Shared
          <5> QED BY <5>1, <5>2 DEF GitStatus
        <4>3. initial'[n] = answer
          BY <1>0, <4>1 DEF Arrays
        <4>4. n \notin blind' => n \notin blind /\ answer.given
          <5>1. CASE answer.given
            BY <4>1, <5>1
          <5>2. CASE ~answer.given
            BY <4>1, <5>2
          <5> QED BY <5>1, <5>2
        <4> QED BY <1>0, <2>1, <4>2, <4>3, <4>4 DEF LookFirst, Goto, Arrays, NodeInv, Unspent
      <3>2. NodeTypes(n)'
        BY <1>0, <2>1, <3>1 DEF LookFirst, NodeInv, NodeTypes, Stations, processVars
      <3>3. Attempted(n)' /\ Unspent(n)'
        BY <1>0, <2>1, <3>1 DEF LookFirst, NodeInv, Attempted, Alive, Unspent, Uncounted, Living, processVars
      <3>4. Seen(n)'
        BY <1>0, <2>1, <3>1 DEF LookFirst, NodeInv, Seen
      <3> QED BY <3>2, <3>3, <3>4 DEF NodeInv
    <2>2. CASE GiveUp(n)
      <3>1. /\ pc[n] = "try" /\ pc'[n] = "done"
            /\ verdict'[n] \in {"unavailable", verdict[n]}
        BY <1>0, <2>2 DEF GiveUp, Goto, Arrays
      <3>2. NodeTypes(n)'
        BY <1>0, <2>2, <3>1 DEF GiveUp, NodeInv, NodeTypes, Stations, nodeVars, processVars, ghostVars
      <3>3. Attempted(n)' /\ Unspent(n)'
        BY <1>0, <2>2, <3>1 DEF GiveUp, NodeInv, Attempted, Alive, Unspent, Uncounted, Living, processVars
      <3>4. Seen(n)'
        BY <1>0, <2>2, <3>1 DEF GiveUp, NodeInv, Seen, Unspent, nodeVars, ghostVars
      <3> QED BY <3>2, <3>3, <3>4 DEF NodeInv
    <2>3. CASE PassOver(n)
      <3>1. pc[n] = "try" /\ pc'[n] = "try" /\ attempt'[n] = attempt[n] + 1 /\ attempt[n] \in Attempts
        BY <1>0, <2>3 DEF PassOver, Exhausted, Arrays
      <3>2. attempt'[n] \in 1..(Routes + 1)
        <4>1. attempt[n] \in 1..Routes
          BY <2>0, <3>1
        <4> QED BY <2>0, <3>1, <4>1
      <3>3. NodeTypes(n)'
        BY <1>0, <2>3, <3>1, <3>2 DEF PassOver, NodeInv, NodeTypes, processVars, ghostVars
      <3>4. Attempted(n)' /\ Unspent(n)'
        BY <1>0, <2>3, <3>1 DEF PassOver, NodeInv, Attempted, Alive, Unspent, Uncounted, Living, processVars, ghostVars
      <3>5. Seen(n)'
        BY <1>0, <2>3, <3>1 DEF PassOver, NodeInv, Seen, Audited, ghostVars
      <3> QED BY <3>3, <3>4, <3>5 DEF NodeInv
    <2>4. CASE Execute(n)
      <3>1. /\ pc[n] = "try" /\ pc'[n] = "check" /\ attempt[n] \in Attempts
            /\ used[n] < FreshLimit
        BY <1>0, <2>0, <2>4 DEF Execute, Exhausted, Goto, Arrays, NodeInv, NodeTypes
      <3>2. NodeTypes(n)'
        BY <1>0, <2>4, <3>1 DEF Execute, NodeInv, NodeTypes, Stations, nodeVars, processVars, ghostVars
      <3>3. Attempted(n)' /\ Unspent(n)'
        BY <1>0, <2>4, <3>1 DEF Execute, NodeInv, Attempted, Alive, Unspent, Uncounted, Living, nodeVars,
             processVars, ghostVars
      <3>4. Seen(n)'
        BY <1>0, <2>4, <3>1 DEF Execute, NodeInv, Seen, Audited, nodeVars, ghostVars
      <3> QED BY <3>2, <3>3, <3>4 DEF NodeInv
    <2>5. CASE Decide(n)
      <3>1. CASE MaySwitch(n)
        <4>1. /\ pc[n] = "decide" /\ pc'[n] = "try" /\ attempt'[n] = attempt[n] + 1
              /\ attempt[n] \in Attempts
          BY <1>0, <2>5, <3>1 DEF Decide, Goto, Arrays, NodeInv, Attempted
        <4>2. attempt'[n] \in 1..(Routes + 1)
          <5>1. attempt[n] \in 1..Routes
            BY <2>0, <4>1
          <5> QED BY <2>0, <4>1, <5>1
        <4>3. used[n] > 0
          BY <1>0, <2>0, <3>1, <4>1 DEF MaySwitch, NodeInv, NodeTypes, Attempted
        <4>4. n \notin blind => own[n] = {}
          BY <1>0, <3>1, <4>1 DEF MaySwitch, NodeInv, Seen, Audited
        <4>5. NodeTypes(n)'
          BY <1>0, <2>5, <4>1, <4>2 DEF Decide, NodeInv, NodeTypes, Stations, processVars, ghostVars
        <4>6. Attempted(n)'
          BY <1>0, <2>5, <4>1 DEF Decide, NodeInv, Attempted, Alive, Uncounted, Living, processVars
        <4>7. Unspent(n)'
          BY <2>5, <4>1, <4>3, <4>4 DEF Decide, Unspent, ghostVars
        <4>8. Seen(n)'
          BY <1>0, <2>5, <4>1 DEF Decide, NodeInv, Seen, Audited, ghostVars
        <4> QED BY <4>5, <4>6, <4>7, <4>8 DEF NodeInv
      <3>2. CASE ~MaySwitch(n)
        <4>1. pc[n] = "decide" /\ pc'[n] = "done" /\ UNCHANGED attempt
          BY <1>0, <2>5, <3>2 DEF Decide, Goto, Arrays
        <4>2. NodeTypes(n)'
          BY <1>0, <2>5, <4>1 DEF Decide, NodeInv, NodeTypes, Stations, processVars, ghostVars
        <4>3. Attempted(n)' /\ Unspent(n)'
          BY <1>0, <2>5, <4>1 DEF Decide, NodeInv, Attempted, Alive, Unspent, Uncounted, Living, processVars, ghostVars
        <4>4. Seen(n)'
          BY <1>0, <2>5, <4>1 DEF Decide, NodeInv, Seen, Audited, ghostVars
        <4> QED BY <4>2, <4>3, <4>4 DEF NodeInv
      <3> QED BY <3>1, <3>2
    <2> QED BY <2>1, <2>2, <2>3, <2>4, <2>5
  <1> QED BY <1>1, <1>2, <1>3, <1>4 DEF RouterInv

\* The audit compares the worktree with what the provider reported.
LEMMA AuditStep ==
  ASSUME RouterInv, NEW n \in Nodes, Audit(n)
  PROVE  RouterInv'
  <1>0. Shared /\ Arrays /\ NodeInv(n) /\ \A m \in Nodes : NodeInv(m)
    BY DEF RouterInv
  <1>1. PICK answer \in GitStatus :
          /\ changed' = [changed EXCEPT ![n] =
               reported[n] \cup IF Audited(n) THEN answer.paths ELSE {}]
          /\ blind' = IF ~answer.given THEN blind \cup {n} ELSE blind
    BY DEF Audit
  <1>2. Shared' /\ Arrays'
    BY <1>0, <1>1 DEF Audit, Shared, Arrays, Goto, controlVars, processVars
  <1>3. ASSUME NEW m \in Nodes, m # n PROVE NodeInv(m)'
    <2>1. Untouched(m)
      BY <1>0, <1>1, <1>3 DEF Untouched, Arrays, Audit, Goto, processVars
    <2> QED BY <1>0, <1>3, <2>1, UntouchedKeeps
  <1>4. NodeInv(n)'
    <2>1. /\ pc[n] = "audit" /\ pc'[n] = "decide" /\ used'[n] = used[n] + tokens[n]
          /\ changed'[n] = reported[n] \cup IF Audited(n) THEN answer.paths ELSE {}
          /\ UNCHANGED <<tree, attempt, initial, processVars, verdict, ran, own>>
      BY <1>0, <1>1 DEF Audit, Arrays, Goto
    <2>2. used[n] \in Nat /\ tokens[n] \in Nat /\ used[n] + tokens[n] <= MaxTokens /\ MaxTokens \in Nat
      BY <1>0, <2>1, RouterAssumption DEF NodeInv, NodeTypes, Attempted, Uncounted
    <2>3. used'[n] \in 0..MaxTokens /\ tokens[n] <= used'[n]
      BY <2>1, <2>2
    <2>4. answer.paths \subseteq Paths /\ (answer.given => answer.paths = tree)
      BY <1>0 DEF GitStatus, NoAnswer, Shared
    <2>5. NodeTypes(n)'
      BY <1>0, <2>1, <2>3, <2>4 DEF NodeInv, NodeTypes, Stations, processVars
    <2>6. Attempted(n)' /\ Unspent(n)'
      BY <1>0, <2>1, <2>3 DEF NodeInv, Attempted, Alive, Unspent, Uncounted, Living, processVars
    <2>7. Seen(n)'
      BY <1>0, <1>1, <2>1, <2>4 DEF NodeInv, Seen, Audited
    <2> QED BY <2>5, <2>6, <2>7 DEF NodeInv
  <1> QED BY <1>2, <1>3, <1>4 DEF RouterInv

\* Each failure of a process has a class.
LEMMA FailureClasses == \A c : FailureClass(c) \in Classes
  BY DEF FailureClass, Classes

\* The driver's steps of a node.
LEMMA DriverStep ==
  ASSUME RouterInv, NEW n \in Nodes,
         Check(n) \/ Launch(n) \/ Register(n) \/ Poll(n) \/ TimeOut(n) \/ Kill(n) \/ Reap(n)
  PROVE  RouterInv'
  <1>0. Shared /\ Arrays /\ NodeInv(n) /\ \A m \in Nodes : NodeInv(m)
    BY DEF RouterInv
  <1>00. UNCHANGED <<tree, controlVars, nodeVars, own, blind>>
    BY DEF Check, Launch, Register, Poll, TimeOut, Kill, Reap, Ends, ghostVars, nodeVars
  <1>1. Shared'
    BY <1>0, <1>00 DEF Shared, Check, Launch, Register, Poll, TimeOut, Kill, Reap, Ends, controlVars, ghostVars,
         processVars
  <1>2. Arrays'
    <2>1. CASE Poll(n) \/ TimeOut(n)
      BY <1>0, <1>00, <2>1 DEF Arrays, Poll, TimeOut, Ends, Terminate, Goto, nodeVars
    <2>2. CASE Check(n) \/ Launch(n) \/ Register(n) \/ Kill(n) \/ Reap(n)
      BY <1>0, <1>00, <2>2 DEF Arrays, Check, Launch, Register, Kill, Reap, Return, Goto, nodeVars
    <2> QED BY <2>1, <2>2
  <1>3. ASSUME NEW m \in Nodes, m # n PROVE NodeInv(m)'
    <2>1. Untouched(m)
      <3>1. CASE Poll(n) \/ TimeOut(n)
        BY <1>0, <1>00, <1>3, <3>1 DEF Untouched, Arrays, Poll, TimeOut, Ends, Terminate, Goto, nodeVars, ghostVars
      <3>2. CASE Check(n) \/ Launch(n) \/ Register(n) \/ Kill(n) \/ Reap(n)
        BY <1>0, <1>00, <1>3, <3>2 DEF Untouched, Arrays, Check, Launch, Register, Kill, Reap, Return, Goto, nodeVars,
             ghostVars
      <3> QED BY <3>1, <3>2
    <2> QED BY <1>0, <1>3, <2>1, UntouchedKeeps
  <1>4. NodeInv(n)'
    <2>0. Attempts \subseteq 1..Routes /\ Routes \in Nat /\ FreshLimit \in Nat /\ MaxTokens \in Nat
      BY AttemptsAreRoutes, RouterAssumption
    <2>1. CASE Check(n)
      <3>1. /\ pc[n] = "check" /\ pc'[n] \in {"audit", "launch"}
            /\ tokens'[n] = 0 /\ reported'[n] = {}
            /\ verdict'[n] \in {"unavailable", "cancelled", verdict[n]}
            /\ UNCHANGED <<proc, ran>>
        BY <1>0, <2>1 DEF Check, Return, Goto, Arrays, ghostVars
      <3>2. NodeTypes(n)'
        BY <1>0, <1>00, <2>0, <3>1 DEF NodeInv, NodeTypes, Stations, nodeVars
      <3>3. used[n] + 0 <= MaxTokens
        BY <1>0, <2>0 DEF NodeInv, NodeTypes
      <3>4. Attempted(n)'
        BY <1>0, <1>00, <3>1, <3>3 DEF NodeInv, Attempted, Alive, Uncounted, Living, nodeVars
      <3>5. Unspent(n)' /\ Seen(n)'
        BY <1>0, <1>00, <3>1 DEF NodeInv, Unspent, Seen, Audited, nodeVars
      <3> QED BY <3>2, <3>4, <3>5 DEF NodeInv
    <2>2. CASE Launch(n)
      <3>1. /\ pc[n] = "launch" /\ UNCHANGED <<tokens, reported>>
            /\ \/ pc'[n] = "audit" /\ verdict'[n] = "transient" /\ UNCHANGED <<proc, ran>>
               \/ pc'[n] = "register" /\ proc'[n] = "running" /\ verdict'[n] = verdict[n]
                    /\ ran' = ran \cup {n}
        BY <1>0, <2>2 DEF Launch, Return, Goto, Arrays
      <3>2. NodeTypes(n)'
        BY <1>0, <1>00, <3>1 DEF NodeInv, NodeTypes, Stations, nodeVars, Classes
      <3>3. Attempted(n)'
        BY <1>0, <1>00, <3>1 DEF NodeInv, Attempted, Alive, Uncounted, Living, nodeVars
      <3>4. Unspent(n)' /\ Seen(n)'
        BY <1>0, <1>00, <3>1 DEF NodeInv, Unspent, Seen, Audited, nodeVars
      <3> QED BY <3>2, <3>3, <3>4 DEF NodeInv
    <2>3. CASE Register(n)
      <3>1. /\ pc[n] = "register" /\ pc'[n] = "poll" /\ verdict'[n] = "none"
            /\ UNCHANGED <<tokens, reported, proc, ran>>
        BY <1>0, <2>3 DEF Register, Goto, Arrays, ghostVars
      <3>2. NodeTypes(n)'
        BY <1>0, <1>00, <3>1 DEF NodeInv, NodeTypes, Stations, nodeVars
      <3>3. Attempted(n)'
        BY <1>0, <1>00, <3>1 DEF NodeInv, Attempted, Alive, Uncounted, Living, nodeVars
      <3>4. Unspent(n)' /\ Seen(n)'
        BY <1>0, <1>00, <3>1 DEF NodeInv, Unspent, Seen, Audited, nodeVars
      <3> QED BY <3>2, <3>3, <3>4 DEF NodeInv
    <2>4. CASE Poll(n) \/ TimeOut(n)
      <3>1. /\ pc[n] = "poll" /\ pc'[n] = "wait"
            /\ verdict'[n] \in {"cancelled", "budget", "none", "timed_out"}
            /\ proc'[n] \in {"dying", proc[n]}
            /\ UNCHANGED <<tokens, reported, ran>>
        BY <1>0, <2>4 DEF Poll, TimeOut, Ends, Terminate, Goto, Arrays, ghostVars
      <3>2. NodeTypes(n)'
        BY <1>0, <1>00, <3>1 DEF NodeInv, NodeTypes, Stations, nodeVars, Classes
      <3>3. Attempted(n)'
        BY <1>0, <1>00, <3>1 DEF NodeInv, Attempted, Alive, Uncounted, Living, nodeVars
      <3>4. Unspent(n)' /\ Seen(n)'
        BY <1>0, <1>00, <3>1 DEF NodeInv, Unspent, Seen, Audited, nodeVars
      <3> QED BY <3>2, <3>3, <3>4 DEF NodeInv
    <2>5. CASE Kill(n)
      <3>1. /\ pc[n] = "wait" /\ proc'[n] = "other"
            /\ UNCHANGED <<pc, tokens, reported, verdict, ran>>
        BY <1>0, <2>5 DEF Kill, Arrays, ghostVars
      <3>2. NodeTypes(n)'
        BY <1>0, <1>00, <3>1 DEF NodeInv, NodeTypes, nodeVars, Complaints
      <3>3. Attempted(n)'
        BY <1>0, <1>00, <3>1 DEF NodeInv, Attempted, Alive, nodeVars
      <3>4. Unspent(n)' /\ Seen(n)'
        BY <1>0, <1>00, <3>1 DEF NodeInv, Unspent, Seen, Audited, nodeVars
      <3> QED BY <3>2, <3>3, <3>4 DEF NodeInv
    <2>6. CASE Reap(n)
      <3>1. /\ pc[n] = "wait" /\ pc'[n] = "audit" /\ proc'[n] = "none"
            /\ verdict'[n] = ResultOf(n)
            /\ UNCHANGED <<tokens, reported, ran>>
        BY <1>0, <2>6 DEF Reap, Return, Goto, Arrays, ghostVars
      <3>2. ResultOf(n) \in {"cancelled", "completed"} \cup Classes
        BY FailureClasses DEF ResultOf, Classes
      <3>3. NodeTypes(n)'
        BY <1>0, <1>00, <3>1, <3>2 DEF NodeInv, NodeTypes, Stations, nodeVars
      <3>4. Attempted(n)'
        BY <1>0, <1>00, <3>1 DEF NodeInv, Attempted, Alive, Uncounted, Living, nodeVars
      <3>5. Unspent(n)' /\ Seen(n)'
        BY <1>0, <1>00, <3>1 DEF NodeInv, Unspent, Seen, Audited, nodeVars
      <3> QED BY <3>3, <3>4, <3>5 DEF NodeInv
    <2> QED BY <2>1, <2>2, <2>3, <2>4, <2>5, <2>6
  <1> QED BY <1>1, <1>2, <1>3, <1>4 DEF RouterInv

\* cancel() signals the registered processes, alive or not.
LEMMA CancelStep ==
  ASSUME RouterInv, Cancel
  PROVE  RouterInv'
  <1>0. Shared /\ Arrays /\ \A m \in Nodes : NodeInv(m)
    BY DEF RouterInv
  <1>00. UNCHANGED <<tree, pc, nodeVars, registered, tokens, reported, verdict, ghostVars>>
    BY DEF Cancel, CancelFlag, CancelSignal, processVars
  <1>1. /\ proc' = [m \in Nodes |-> proc'[m]]
        /\ \A m \in Nodes : proc'[m] = proc[m] \/ (proc[m] = "running" /\ proc'[m] = "dying")
    <2>1. CASE CancelFlag
      BY <1>0, <2>1 DEF CancelFlag, Arrays, processVars
    <2>2. CASE CancelSignal
      <3> DEFINE signalled == {m \in registered : Route(m) = canceller.route}
      <3>1. proc' = [m \in Nodes |-> IF m \in signalled /\ proc[m] = "running" THEN "dying" ELSE proc[m]]
        BY <2>2 DEF CancelSignal, Terminate
      <3> HIDE DEF signalled
      <3> QED BY <3>1
    <2> QED BY <2>1, <2>2 DEF Cancel
  <1>2. Shared'
    <2>1. Routes \in Nat
      BY RouterAssumption
    <2>2. CASE CancelFlag
      <3>1. canceller.route \in 1..Routes /\ canceller'.route = canceller.route /\ canceller'.does = "signal"
            /\ canceller' \in [route : 1..(Routes + 1), does : {"flag", "signal"}]
        BY <1>0, <2>1, <2>2 DEF CancelFlag, Shared
      <3> QED BY <1>0, <1>00, <2>2, <3>1 DEF CancelFlag, Shared, ghostVars
    <2>3. CASE CancelSignal
      <3>1. canceller.route \in 1..Routes
        BY <1>0, <2>1, <2>3 DEF CancelSignal, Shared
      <3>2. /\ canceller' \in [route : 1..(Routes + 1), does : {"flag", "signal"}]
            /\ canceller'.does = "flag"
        BY <2>1, <2>3, <3>1 DEF CancelSignal
      <3> QED BY <1>0, <1>00, <2>3, <3>2 DEF CancelSignal, Shared, ghostVars
    <2> QED BY <2>2, <2>3 DEF Cancel
  <1>3. Arrays'
    BY <1>0, <1>00, <1>1 DEF Arrays, nodeVars, ghostVars
  <1>4. ASSUME NEW m \in Nodes PROVE NodeInv(m)'
    <2>1. NodeTypes(m)'
      BY <1>0, <1>00, <1>1, <1>4 DEF NodeInv, NodeTypes, nodeVars, ghostVars
    <2>2. Attempted(m)'
      BY <1>0, <1>00, <1>1, <1>4 DEF NodeInv, Attempted, Alive, nodeVars
    <2>3. Unspent(m)' /\ Seen(m)'
      BY <1>0, <1>00, <1>4 DEF NodeInv, Unspent, Seen, Audited, nodeVars, ghostVars
    <2> QED BY <2>1, <2>2, <2>3 DEF NodeInv
  <1> QED BY <1>2, <1>3, <1>4 DEF RouterInv

\* A living process works; somebody else changes the worktree.
LEMMA ProviderStep ==
  ASSUME RouterInv, NEW n \in Nodes, Provider(n)
  PROVE  RouterInv'
  <1>0. Shared /\ Arrays /\ NodeInv(n) /\ \A m \in Nodes : NodeInv(m)
    BY DEF RouterInv
  <1>00. UNCHANGED <<controlVars, pc, nodeVars, registered, verdict, ran, blind>>
    BY DEF Provider, Change, ReportUsage, Exit, ghostVars
  <1>1. pc[n] \in Living /\ pc'[n] = pc[n]
    BY <1>0, <1>00 DEF Provider, Change, ReportUsage, Exit, Alive, NodeInv, Attempted
  <1>2. CASE \E p \in Paths, told \in BOOLEAN : Change(n, p, told)
    <2>1. PICK p \in Paths, told \in BOOLEAN : Change(n, p, told)
      BY <1>2
    <2>2. Shared' /\ Arrays'
      BY <1>0, <1>00, <2>1 DEF Change, Shared, Arrays, controlVars, nodeVars
    <2>3. ASSUME NEW m \in Nodes, m # n PROVE NodeInv(m)'
      <3>1. Untouched(m)
        BY <1>0, <1>00, <2>1, <2>3 DEF Untouched, Arrays, Change, nodeVars
      <3> QED BY <1>0, <2>3, <3>1, UntouchedKeeps
    <2>4. /\ own'[n] = own[n] \cup {p} /\ tree' = tree \cup {p} /\ reported'[n] \in SUBSET Paths
          /\ UNCHANGED <<proc, tokens>>
      BY <1>0, <2>1 DEF Change, Arrays, NodeInv, NodeTypes
    <2>5. NodeTypes(n)'
      BY <1>0, <1>00, <2>4 DEF NodeInv, NodeTypes, nodeVars
    <2>6. Attempted(n)'
      BY <1>0, <1>00, <2>4 DEF NodeInv, Attempted, Alive, nodeVars
    <2>7. Unspent(n)' /\ Seen(n)'
      BY <1>0, <1>00, <1>1, <2>4 DEF NodeInv, Unspent, Seen, Audited, Living, nodeVars
    <2> QED BY <2>2, <2>3, <2>5, <2>6, <2>7 DEF RouterInv, NodeInv
  <1>3. CASE \E k \in Amounts : ReportUsage(n, k)
    <2>1. PICK k \in Amounts : ReportUsage(n, k)
      BY <1>3
    <2>2. Shared' /\ Arrays'
      BY <1>0, <1>00, <2>1 DEF ReportUsage, Shared, Arrays, controlVars, nodeVars, ghostVars
    <2>3. ASSUME NEW m \in Nodes, m # n PROVE NodeInv(m)'
      <3>1. Untouched(m)
        BY <1>0, <1>00, <2>1, <2>3 DEF Untouched, Arrays, ReportUsage, nodeVars, ghostVars
      <3> QED BY <1>0, <2>3, <3>1, UntouchedKeeps
    <2>4. /\ tokens'[n] = tokens[n] + k /\ proc'[n] \in {"dying", proc[n]}
          /\ UNCHANGED <<tree, reported, ghostVars>>
      BY <1>0, <2>1 DEF ReportUsage, Arrays
    <2>5. used[n] + tokens'[n] <= MaxTokens /\ tokens'[n] \in 0..MaxTokens
      <3>1. k \in Nat /\ MaxTokens \in Nat /\ used[n] \in Nat /\ tokens[n] \in Nat
        BY <1>0, RouterAssumption DEF NodeInv, NodeTypes
      <3>2. used[n] + tokens[n] + k <= MaxTokens
        BY <2>1 DEF ReportUsage
      <3> QED BY <2>4, <3>1, <3>2
    <2>6. NodeTypes(n)'
      BY <1>0, <1>00, <2>4, <2>5 DEF NodeInv, NodeTypes, nodeVars, ghostVars
    <2>7. Attempted(n)'
      BY <1>0, <1>00, <1>1, <2>4, <2>5 DEF NodeInv, Attempted, Alive, Living, nodeVars
    <2>8. Unspent(n)' /\ Seen(n)'
      BY <1>0, <1>00, <1>1, <2>4 DEF NodeInv, Unspent, Seen, Audited, Living, nodeVars, ghostVars
    <2> QED BY <2>2, <2>3, <2>6, <2>7, <2>8 DEF RouterInv, NodeInv
  <1>4. CASE \E how \in {"completed"} \cup Complaints : Exit(n, how)
    <2>1. PICK how \in {"completed"} \cup Complaints : Exit(n, how)
      BY <1>4
    <2>2. Shared' /\ Arrays'
      BY <1>0, <1>00, <2>1 DEF Exit, Shared, Arrays, controlVars, nodeVars, ghostVars
    <2>3. ASSUME NEW m \in Nodes, m # n PROVE NodeInv(m)'
      <3>1. Untouched(m)
        BY <1>0, <1>00, <2>1, <2>3 DEF Untouched, Arrays, Exit, nodeVars, ghostVars
      <3> QED BY <1>0, <2>3, <3>1, UntouchedKeeps
    <2>4. proc'[n] = how /\ UNCHANGED <<tree, tokens, reported, ghostVars>>
      BY <1>0, <2>1 DEF Exit, Arrays
    <2>5. NodeTypes(n)'
      BY <1>0, <1>00, <2>4 DEF NodeInv, NodeTypes, nodeVars, ghostVars
    <2>6. Attempted(n)'
      BY <1>0, <1>00, <1>1, <2>4 DEF NodeInv, Attempted, Alive, nodeVars
    <2>7. Unspent(n)' /\ Seen(n)'
      BY <1>0, <1>00, <2>4 DEF NodeInv, Unspent, Seen, Audited, nodeVars, ghostVars
    <2> QED BY <2>2, <2>3, <2>5, <2>6, <2>7 DEF RouterInv, NodeInv
  <1> QED BY <1>2, <1>3, <1>4 DEF Provider

LEMMA ElsewhereStep ==
  ASSUME RouterInv, NEW p \in Paths, Elsewhere(p)
  PROVE  RouterInv'
  <1>1. ASSUME NEW m \in Nodes PROVE NodeInv(m)'
    <2>1. Untouched(m)
      BY <1>1 DEF Untouched, Elsewhere, nodeVars, processVars, ghostVars
    <2> QED BY <1>1, <2>1, UntouchedKeeps DEF RouterInv
  <1>2. Shared' /\ Arrays'
    BY DEF RouterInv, Shared, Arrays, Elsewhere, controlVars, nodeVars, processVars, ghostVars
  <1> QED BY <1>1, <1>2 DEF RouterInv

\* RouterInv is inductive.
LEMMA RouterStep ==
  ASSUME RouterInv, [RouterNext]_routerVars
  PROVE  RouterInv'
  <1>1. CASE UNCHANGED routerVars
    <2>1. ASSUME NEW m \in Nodes PROVE NodeInv(m)'
      <3>1. Untouched(m)
        BY <1>1 DEF Untouched, routerVars, nodeVars, processVars, ghostVars
      <3> QED BY <2>1, <3>1, UntouchedKeeps DEF RouterInv
    <2>2. Shared' /\ Arrays'
      BY <1>1 DEF RouterInv, Shared, Arrays, routerVars, controlVars, nodeVars, processVars, ghostVars
    <2> QED BY <2>1, <2>2 DEF RouterInv
  <1>2. CASE RouterNext
    <2>1. ASSUME NEW n \in Nodes, Thread(n) \/ TimeOut(n) \/ Provider(n) PROVE RouterInv'
      BY <2>1, DecidingStep, AuditStep, DriverStep, ProviderStep DEF Thread
    <2> QED BY <1>2, <2>1, CancelStep, ElsewhereStep DEF RouterNext
  <1> QED BY <1>1, <1>2

THEOREM RouterHolds == RouterSpec => []RouterInv
  BY RouterStarts, RouterStep, PTL DEF RouterSpec

\* Every variable of the router and its drivers has its type.
THEOREM RouterTypeCorrect == RouterSpec => []RouterTypeOK
  <1>1. RouterInv => RouterTypeOK
    <2> SUFFICES ASSUME RouterInv PROVE RouterTypeOK
      OBVIOUS
    <2>1. \A n \in Nodes : NodeTypes(n)
      BY DEF RouterInv, NodeInv
    <2>2. /\ pc \in [Nodes -> Stations] /\ attempt \in [Nodes -> 1..(Routes + 1)]
          /\ initial \in [Nodes -> [given : BOOLEAN, paths : SUBSET Paths]]
          /\ used \in [Nodes -> 0..MaxTokens] /\ tokens \in [Nodes -> 0..MaxTokens]
      BY <2>1 DEF RouterInv, Arrays, NodeTypes
    <2>3. /\ proc \in [Nodes -> {"none", "running", "dying", "completed"} \cup Complaints]
          /\ reported \in [Nodes -> SUBSET Paths] /\ changed \in [Nodes -> SUBSET Paths]
          /\ own \in [Nodes -> SUBSET Paths]
          /\ verdict \in [Nodes -> {"none", "unavailable", "cancelled", "timed_out", "completed"}
                                    \cup Classes]
      BY <2>1 DEF RouterInv, Arrays, NodeTypes
    <2> QED BY <2>2, <2>3 DEF RouterTypeOK, RouterInv, Shared, Stations
  <1> QED BY <1>1, RouterHolds, PTL

\* A second provider is started only after one that changed nothing and said
\* what it used, and a result names what its providers changed.
THEOREM ChangesAreSeenHolds == RouterSpec => []ChangesAreSeen
  <1>1. RouterInv => ChangesAreSeen
    <2> SUFFICES ASSUME RouterInv, NEW n \in Nodes
                 PROVE  /\ pc[n] = "launch" /\ n \in ran =>
                             /\ n \notin blind => own[n] = {}
                             /\ used[n] \in 1..(FreshLimit - 1)
                        /\ pc[n] = "done" /\ Audited(n) /\ n \notin blind => own[n] \subseteq changed[n]
      BY DEF ChangesAreSeen
    <2>1. NodeInv(n) /\ used[n] \in Nat /\ FreshLimit \in Nat
      BY RouterAssumption DEF RouterInv, NodeInv, NodeTypes
    <2>2. pc[n] = "launch" /\ n \in ran => used[n] \in 1..(FreshLimit - 1)
      BY <2>1 DEF NodeInv, Unspent
    <2> QED BY <2>1, <2>2 DEF NodeInv, Unspent, Seen
  <1> QED BY <1>1, RouterHolds, PTL

-----------------------------------------------------------------------------
(* The verification of a run (Verification).                               *)

Steps == {"idle", "gate", "before", "agent", "after", "verify", "sign", "check", "save"}

Findings == {"unreadable", "entry", "unprepared", "links", "nothing", "stale"}

Stops == {"none", "cancel", "deadline"}

Copies == [kind : {"php", "node"}, version : Contracts, missing : SUBSET Managers,
           entry : {"sound", "stale"}, links : {"sound", "doubled", "broken"}]

CommandStates ==
  [does : {"none", "poll", "grace", "join", "report"}, manager : Managers \cup {"none"},
   leader : {"none", "running", "zero", "other", "killed"}, helper : {"none", "group", "away"},
   stop : Stops]

Looks     == [checks : Seq(Checks), found : SUBSET Findings, at : Nat]
Outcomes  == [check : Checks, ok : BOOLEAN, stop : Stops, asked : BOOLEAN]
Signed    == [checks : Seq(Checks), version : Contracts \cup {"none"}]
Reports   ==
  [status : {"none", "pass", "fail"}, results : Seq(Outcomes), found : SUBSET Findings,
   contract : Signed]

VerificationTypes ==
  /\ project \in Copies /\ stage \in Steps /\ round \in Nat /\ look \in Looks
  /\ command \in CommandStates /\ event \in {"none", "clear", "set"}
  /\ results \in Seq(Outcomes) /\ contract \in Signed
  /\ shown \in Reports /\ linked \in Reports /\ edits \in Nat

\* A command belongs to the stage that began it: a check to the checks, with a
\* check left to answer for; an installation to a preparation.
CommandOwned ==
  /\ command.does = "none" => Quiet
  /\ command.does # "none" /\ command.manager # "none" => stage \in {"gate", "before", "after"}
  /\ command.does # "none" /\ command.manager = "none" => stage = "check" /\ ChecksLeft

\* Until the copy is changed, the gate has seen it as it is, and what it let
\* pass can be verified.
Verifiable == Readable(project) /\ Mapped(project) # <<>> /\ Prerequisites(project) = {}

Gated ==
  /\ look.at <= edits
  /\ stage = "gate" /\ look.at = edits => look = Look(project)
  /\ stage \in {"before", "agent"} /\ look.at = edits => Verifiable

\* The results so far are those of the first checks of the contract, and one
\* that came after the request to stop has the request still standing.
Answered ==
  /\ stage \notin {"check", "save"} => results = <<>>
  /\ stage = "check" =>
       /\ contract.checks = look.checks /\ Len(results) <= Len(look.checks)
       /\ \A i \in 1..Len(results) :
            /\ results[i].check = look.checks[i] /\ results[i].stop = "none"
            /\ results[i].asked => Asked

\* What PassIsEarned says of one report.
Earned(r) ==
  r.status = "pass" =>
    /\ r.results # <<>> /\ r.found = {}
    /\ [i \in 1..Len(r.results) |-> r.results[i].check] = r.contract.checks
    /\ \A i \in 1..Len(r.results) :
         r.results[i].ok /\ r.results[i].stop = "none" /\ ~r.results[i].asked

VerificationInv ==
  VerificationTypes /\ CommandOwned /\ Gated /\ Answered /\ Earned(shown) /\ Earned(linked)

-----------------------------------------------------------------------------
\* The operators of the preflight.

LEMMA MappedType == \A p : Mapped(p) \in Seq(Checks)
  BY VerificationAssumption DEF Mapped, Readable

LEMMA DiagnosticsType == \A p : Diagnostics(p) \in SUBSET Findings
  BY DEF Diagnostics, Prerequisites, StaticFindings, Findings

LEMMA LookType ==
  ASSUME edits \in Nat
  PROVE  \A p : Look(p) \in Looks
  BY MappedType, DiagnosticsType DEF Look, Looks

\* What the gate lets pass can be verified.
LEMMA PassedGate ==
  ASSUME NEW p, Blocking(Look(p)) = {}
  PROVE  Readable(p) /\ Mapped(p) # <<>> /\ Prerequisites(p) = {}
  <1>1. Diagnostics(p) \subseteq {"links"}
    BY DEF Blocking, Look
  <1>2. Readable(p) /\ Mapped(p) # <<>>
    BY <1>1 DEF Diagnostics
  <1>3. Prerequisites(p) \subseteq Diagnostics(p)
    BY DEF Diagnostics
  <1>4. "links" \notin Prerequisites(p)
    BY DEF Prerequisites
  <1> QED BY <1>1, <1>2, <1>3, <1>4

\* An installation leaves nothing to be diagnosed that was not before.
LEMMA InstallingKeeps ==
  ASSUME NEW p \in Copies, NEW made,
         Readable(p) /\ Mapped(p) # <<>> /\ Prerequisites(p) = {}
  PROVE  LET q == [p EXCEPT !.missing = @ \ made]
         IN  q \in Copies /\ Readable(q) /\ Mapped(q) # <<>> /\ Prerequisites(q) = {}
  <1> DEFINE q == [p EXCEPT !.missing = @ \ made]
  <1>1. /\ q \in Copies /\ q.version = p.version /\ q.kind = p.kind /\ q.entry = p.entry
        /\ q.missing \subseteq p.missing
    BY DEF Copies
  <1> HIDE DEF q
  <1>2. Readable(q) /\ Mapped(q) = Mapped(p)
    BY <1>1 DEF Readable, Mapped
  <1>3. Prerequisites(q) = {}
    BY <1>1 DEF Prerequisites, EntryStale, Own
  <1> QED BY <1>1, <1>2, <1>3 DEF q

LEMMA NothingTypes ==
  /\ NoLook \in Looks /\ NoContract \in Signed /\ NoReport \in Reports /\ NoCommand \in CommandStates
  /\ Earned(NoReport) /\ <<>> \in Seq(Outcomes) /\ Len(<<>>) = 0
  BY DEF NoLook, NoContract, NoReport, NoCommand, Looks, Signed, Reports, CommandStates, Earned, Stops

\* A request or a worker that ends leaves nothing of its locals.
LEMMA LeaveStep ==
  ASSUME VerificationInv, Leave, project' \in Copies, command' = NoCommand,
         event' \in {"none", "clear", "set"}, shown' \in Reports, linked' \in Reports,
         Earned(shown'), Earned(linked'), UNCHANGED edits
  PROVE  VerificationInv'
  <1>1. VerificationTypes'
    BY NothingTypes DEF VerificationInv, VerificationTypes, Leave, Steps
  <1>2. CommandOwned'
    BY DEF CommandOwned, Quiet, NoCommand
  <1>3. Gated'
    BY DEF VerificationInv, VerificationTypes, Gated, Leave, NoLook
  <1>4. Answered'
    BY DEF Answered, Leave
  <1>5. Earned(shown)' /\ Earned(linked)'
    BY DEF Earned
  <1> QED BY <1>1, <1>2, <1>3, <1>4, <1>5 DEF VerificationInv

LEMMA VerificationStarts == VerificationInit => VerificationInv
  <1> SUFFICES ASSUME VerificationInit PROVE VerificationInv
    OBVIOUS
  <1>1. VerificationTypes
    BY NothingTypes DEF VerificationInit, VerificationTypes, Projects, Copies, Steps
  <1>2. CommandOwned /\ Gated /\ Answered
    BY DEF VerificationInit, CommandOwned, Gated, Answered, Quiet, NoCommand, NoLook
  <1>3. Earned(shown) /\ Earned(linked)
    BY NothingTypes DEF VerificationInit
  <1> QED BY <1>1, <1>2, <1>3 DEF VerificationInv

-----------------------------------------------------------------------------
\* The gate, and the preparation of what a stage needs.

LEMMA RepairTypes ==
  ASSUME NEW p \in Copies
  PROVE  LinksRepaired(p) \subseteq Copies /\ EntryRepaired(p) \subseteq Copies
  BY DEF Copies, LinksRepaired, EntryRepaired

LEMMA GateStep ==
  ASSUME VerificationInv, Start \/ Admit \/ TurnAway
  PROVE  VerificationInv'
  <1>0. VerificationTypes /\ CommandOwned /\ Gated /\ Answered /\ Earned(shown) /\ Earned(linked)
    BY DEF VerificationInv
  <1>1. CASE Start
    <2>1. project' \in Copies /\ look' = Look(project')
      <3>1. PICK p \in LinksRepaired(project) :
              \E q \in EntryRepaired(p) : project' = q /\ look' = Look(q)
        BY <1>1 DEF Start
      <3>2. p \in Copies
        BY <1>0, <3>1, RepairTypes DEF VerificationTypes
      <3> QED BY <3>1, <3>2, RepairTypes
    <2>2. VerificationTypes'
      BY <1>0, <1>1, <2>1, LookType DEF Start, VerificationTypes, Steps
    <2>3. CommandOwned'
      BY <1>0, <1>1 DEF Start, CommandOwned, Quiet
    <2>4. Gated'
      BY <1>0, <1>1, <2>1 DEF Start, VerificationTypes, Gated, Look
    <2>5. Answered'
      BY <1>0, <1>1 DEF Start, Answered
    <2> QED BY <1>0, <1>1, <2>2, <2>3, <2>4, <2>5 DEF Start, VerificationInv, Earned
  <1>2. CASE Admit
    <2>1. VerificationTypes'
      BY <1>0, <1>2, NothingTypes DEF Admit, VerificationTypes, Steps, locals
    <2>2. CommandOwned'
      BY <1>0, <1>2 DEF Admit, CommandOwned, Quiet, NoCommand
    <2>3. Gated'
      <3>1. look.at = edits => Verifiable
        BY <1>0, <1>2, PassedGate DEF Admit, Gated, Verifiable
      <3>2. look.at = edits => Verifiable'
        BY <1>2, <3>1 DEF Admit, Verifiable, Readable, Mapped, Prerequisites, EntryStale, Own
      <3> QED BY <1>0, <1>2, <3>2 DEF Admit, Gated, locals
    <2>4. Answered'
      BY <1>0, <1>2 DEF Admit, Answered, locals
    <2>5. Earned(shown)' /\ Earned(linked)'
      BY <1>0, <1>2, NothingTypes DEF Admit, Earned
    <2> QED BY <2>1, <2>2, <2>3, <2>4, <2>5 DEF VerificationInv
  <1>3. CASE TurnAway
    BY <1>0, <1>3, LeaveStep DEF TurnAway, VerificationTypes, Quiet
  <1> QED BY <1>1, <1>2, <1>3

\* The copy a preparation may leave.
LEMMA PreparedStep ==
  ASSUME VerificationInv, Prepared, NEW made, stage \in {"gate", "before", "after"},
         project' \in {project, [project EXCEPT !.missing = @ \ made]},
         command' = NoCommand, UNCHANGED <<event, shown, linked, edits>>
  PROVE  VerificationInv'
  <1>0. VerificationTypes /\ Gated /\ Answered /\ Earned(shown) /\ Earned(linked)
    BY DEF VerificationInv
  <1>1. project' \in Copies
    BY <1>0 DEF VerificationTypes, Copies
  <1>2. /\ stage' \in Steps /\ stage' \notin {"check", "save", "idle"} /\ stage \notin {"check", "save"}
        /\ stage = "gate" => stage' = "gate" /\ round' = round + 1 /\ look' = Look(project')
        /\ stage # "gate" => stage' \in {"agent", "verify"} /\ UNCHANGED <<round, look>>
        /\ stage' = "agent" => stage = "before"
        /\ UNCHANGED <<results, contract>>
    BY DEF Prepared, Steps
  <1>3. look' \in Looks /\ round' \in Nat
    BY <1>0, <1>2, LookType DEF VerificationTypes
  <1>4. VerificationTypes'
    BY <1>0, <1>1, <1>2, <1>3, NothingTypes DEF VerificationTypes
  <1>5. CommandOwned'
    BY DEF CommandOwned, Quiet, NoCommand
  <1>6. Gated'
    <2>1. CASE stage = "gate"
      BY <1>0, <1>2, <2>1 DEF Gated, Look, VerificationTypes
    <2>2. CASE stage = "before"
      <3>1. ASSUME Verifiable PROVE Verifiable'
        <4>1. CASE project' = project
          BY <3>1, <4>1 DEF Verifiable, Readable, Mapped, Prerequisites, EntryStale, Own
        <4>2. CASE project' = [project EXCEPT !.missing = @ \ made]
          BY <1>0, <3>1, <4>2, InstallingKeeps DEF Verifiable, VerificationTypes
        <4> QED BY <4>1, <4>2
      <3> QED BY <1>0, <1>2, <2>2, <3>1 DEF Gated
    <2>3. CASE stage = "after"
      BY <1>0, <1>2, <2>3 DEF Gated
    <2> QED BY <2>1, <2>2, <2>3
  <1>7. Answered'
    BY <1>0, <1>2 DEF Answered
  <1> QED BY <1>0, <1>4, <1>5, <1>6, <1>7 DEF VerificationInv, Earned

LEMMA BeginType ==
  ASSUME NEW m \in Managers \cup {"none"}, Begin(m)
  PROVE  command' \in CommandStates /\ command'.does = "poll" /\ command'.manager = m
  BY DEF Begin, CommandStates, Stops

LEMMA PreparationStep ==
  ASSUME VerificationInv, NothingToPrepare \/ CannotPrepare \/ Install \/ Installed
  PROVE  VerificationInv'
  <1>0. VerificationTypes /\ CommandOwned /\ Gated /\ Answered /\ Earned(shown) /\ Earned(linked)
    BY DEF VerificationInv
  <1>1. CASE NothingToPrepare
    <2>1. stage \in {"gate", "before", "after"} /\ command' = NoCommand
      BY <1>1 DEF NothingToPrepare, Preparing, Quiet
    <2> QED BY <1>1, <2>1, PreparedStep DEF NothingToPrepare
  <1>2. CASE CannotPrepare
    BY <1>0, <1>2, LeaveStep DEF CannotPrepare, Preparing, VerificationTypes, Quiet
  <1>3. CASE Install
    <2>1. /\ stage \in {"gate", "before", "after"} /\ command' \in CommandStates
          /\ command'.does # "none" /\ command'.manager # "none"
      <3>1. Planned(project) \in Managers
        BY <1>3 DEF Install, Planned, Managers
      <3> QED BY <1>3, <3>1, BeginType DEF Install, Preparing, Managers
    <2>2. VerificationTypes' /\ CommandOwned'
      BY <1>0, <1>3, <2>1 DEF Install, VerificationTypes, CommandOwned, locals
    <2>3. Gated' /\ Answered'
      BY <1>0, <1>3 DEF Install, Gated, Answered, Asked, Look, Mapped, Diagnostics, Verifiable, Readable,
           Prerequisites, StaticFindings, EntryStale, Own, locals
    <2> QED BY <1>0, <1>3, <2>2, <2>3 DEF Install, VerificationInv, Earned
  <1>4. CASE Installed
    <2>1. stage \in {"gate", "before", "after"} /\ command' = NoCommand
      BY <1>0, <1>4 DEF Installed, CommandOwned, NoCommand
    <2>2. PICK made \in {{}, {command.manager}} :
            /\ project' = [project EXCEPT !.missing = @ \ made]
            /\ Prepared \/ Leave
      BY <1>4 DEF Installed
    <2>3. project' \in Copies
      BY <1>0, <2>2 DEF VerificationTypes, Copies
    <2>4. UNCHANGED <<event, shown, linked, edits>>
      BY <1>4 DEF Installed
    <2>5. CASE Prepared
      BY <2>1, <2>2, <2>4, <2>5, PreparedStep
    <2>6. CASE Leave
      BY <1>0, <2>1, <2>3, <2>4, <2>6, LeaveStep DEF VerificationTypes
    <2> QED BY <2>2, <2>5, <2>6
  <1> QED BY <1>1, <1>2, <1>3, <1>4

-----------------------------------------------------------------------------
\* A command, its supervisor and its descendants.

LEMMA CommandStep ==
  ASSUME VerificationInv, Supervisor \/ Commands
  PROVE  VerificationInv'
  <1>0. VerificationTypes /\ CommandOwned /\ Gated /\ Answered /\ Earned(shown) /\ Earned(linked)
    BY DEF VerificationInv
  <1>1. UNCHANGED <<project, stage, event, locals, shown, linked, edits>>
    BY DEF Supervisor, Commands, Polled, StopFor, Grace, Join, CommandExits, HelperExit
  <1>2. /\ command' \in CommandStates /\ command'.manager = command.manager
        /\ command.does # "none" /\ command'.does # "none"
    <2>1. command.does = "none" => command = NoCommand
      BY <1>0 DEF CommandOwned, Quiet
    <2>2. CASE Supervisor
      BY <1>0, <2>2 DEF VerificationTypes, CommandStates, Supervisor, Polled, StopFor, Grace, Join,
           Does, Supervise, Stops
    <2>3. CASE Commands
      <3>1. command.does # "none"
        BY <2>1, <2>3 DEF Commands, CommandExits, HelperExit, NoCommand
      <3> QED BY <1>0, <2>3, <3>1 DEF VerificationTypes, CommandStates, Commands, CommandExits, HelperExit
    <2> QED BY <2>2, <2>3
  <1>3. VerificationTypes' /\ CommandOwned'
    BY <1>0, <1>1, <1>2 DEF VerificationTypes, CommandOwned, ChecksLeft, locals
  <1>4. Gated' /\ Answered'
    BY <1>0, <1>1 DEF Gated, Answered, Asked, Look, Mapped, Diagnostics, Verifiable, Readable,
         Prerequisites, StaticFindings, EntryStale, Own, locals
  <1> QED BY <1>0, <1>1, <1>3, <1>4 DEF VerificationInv, Earned

-----------------------------------------------------------------------------
\* The agent and the verification of what it did.

LEMMA ApproachStep ==
  ASSUME VerificationInv,
         (\E completed \in BOOLEAN : AgentEnds(completed)) \/ Revert \/ Examine \/ Sign
  PROVE  VerificationInv'
  <1>0. VerificationTypes /\ CommandOwned /\ Gated /\ Answered /\ Earned(shown) /\ Earned(linked)
    BY DEF VerificationInv
  <1>1. ASSUME NEW completed \in BOOLEAN, AgentEnds(completed) PROVE VerificationInv'
    <2>0. Quiet /\ stage = "agent"
      BY <1>0, <1>1 DEF AgentEnds, CommandOwned
    <2>1. CASE completed
      <3>1. stage' = "after" /\ UNCHANGED <<locals, project, command, event, shown, linked, edits>>
        BY <1>1, <2>1 DEF AgentEnds
      <3>2. VerificationTypes' /\ CommandOwned'
        BY <1>0, <2>0, <3>1 DEF VerificationTypes, Steps, CommandOwned, Quiet, NoCommand, locals
      <3>3. Gated' /\ Answered'
        BY <1>0, <2>0, <3>1 DEF Gated, Answered, locals
      <3> QED BY <1>0, <3>1, <3>2, <3>3 DEF VerificationInv, Earned
    <2>2. CASE ~completed
      BY <1>0, <1>1, <2>0, <2>2, LeaveStep DEF AgentEnds, VerificationTypes, Quiet
    <2> QED BY <2>1, <2>2
  <1>2. CASE Revert
    <2>1. VerificationTypes' /\ CommandOwned'
      BY <1>0, <1>2, NothingTypes DEF Revert, VerificationTypes, Steps, CommandOwned, Quiet, NoCommand, locals
    <2>2. Gated' /\ Answered'
      BY <1>0, <1>2 DEF Revert, Gated, Answered, locals
    <2> QED BY <1>0, <1>2, <2>1, <2>2, NothingTypes DEF Revert, VerificationInv, Earned
  <1>3. CASE Examine
    <2>0. Quiet /\ stage = "verify"
      BY <1>0, <1>3 DEF Examine, CommandOwned
    <2>1. CASE Asked /\ Raise /\ UNCHANGED command
      BY <1>0, <2>0, <2>1, LeaveStep DEF Raise, VerificationTypes, Quiet
    <2>2. CASE stage' = "sign" /\ look' = Look(project)
                 /\ UNCHANGED <<project, round, results, command, event, contract, shown, linked, edits>>
      <3>1. VerificationTypes' /\ CommandOwned'
        BY <1>0, <2>0, <2>2, LookType DEF VerificationTypes, Steps, CommandOwned, Quiet, NoCommand
      <3>2. Gated' /\ Answered'
        BY <1>0, <2>0, <2>2 DEF VerificationTypes, Gated, Answered, Look
      <3> QED BY <1>0, <2>2, <3>1, <3>2 DEF VerificationInv, Earned
    <2> QED BY <1>3, <2>1, <2>2 DEF Examine
  <1>4. CASE Sign
    <2>0. Quiet /\ stage = "sign" /\ results = <<>>
      BY <1>0, <1>4 DEF Sign, CommandOwned, Answered
    <2>1. Contract(look.checks, project) \in Signed
      BY <1>0 DEF Contract, Signed, VerificationTypes, Looks, Copies
    <2>2. VerificationTypes' /\ CommandOwned'
      BY <1>0, <1>4, <2>0, <2>1 DEF Sign, VerificationTypes, Steps, CommandOwned, Quiet, NoCommand
    <2>3. Gated'
      BY <1>0, <1>4, <2>0 DEF Sign, Gated
    <2>4. Answered'
      <3>1. Len(look.checks) \in Nat /\ Len(results) = 0
        BY <1>0, <2>0 DEF VerificationTypes, Looks
      <3> QED BY <1>4, <2>0, <3>1 DEF Sign, Answered, Contract
    <2> QED BY <1>0, <1>4, <2>2, <2>3, <2>4 DEF Sign, VerificationInv, Earned
  <1> QED BY <1>1, <1>2, <1>3, <1>4

\* A result is added for the next check.
LEMMA ResultStep ==
  ASSUME VerificationInv, stage = "check", ChecksLeft, NEW ok \in BOOLEAN, command.stop = "none",
         results' = Append(results, Result(ok)), command' = NoCommand,
         UNCHANGED <<project, stage, round, look, event, contract, shown, linked, edits>>
  PROVE  VerificationInv'
  <1>0. VerificationTypes /\ CommandOwned /\ Gated /\ Answered /\ Earned(shown) /\ Earned(linked)
    BY DEF VerificationInv
  <1>1. /\ look.checks \in Seq(Checks) /\ results \in Seq(Outcomes)
        /\ Len(results) \in Nat /\ Len(look.checks) \in Nat /\ Len(results) < Len(look.checks)
    BY <1>0 DEF VerificationTypes, Looks, ChecksLeft
  <1>2. look.checks[Len(results) + 1] \in Checks
    <2>1. Len(results) + 1 \in 1..Len(look.checks)
      BY <1>1
    <2> QED BY <1>1, <2>1
  <1>3. Result(ok) \in Outcomes /\ Result(ok).check = look.checks[Len(results) + 1]
        /\ Result(ok).stop = "none" /\ (Result(ok).asked => Asked)
    BY <1>2 DEF Result, Outcomes, Asked, Stops
  <1>4. /\ results' \in Seq(Outcomes) /\ Len(results') = Len(results) + 1
        /\ results'[Len(results) + 1] = Result(ok)
        /\ \A i \in 1..Len(results) : results'[i] = results[i]
    BY <1>1, <1>3
  <1>5. VerificationTypes' /\ CommandOwned' /\ Gated'
    BY <1>0, <1>4, NothingTypes DEF VerificationTypes, CommandOwned, Gated, Quiet, NoCommand
  <1>6. Answered'
    <2>1. ASSUME NEW i \in 1..Len(results')
          PROVE  /\ results'[i].check = look.checks[i] /\ results'[i].stop = "none"
                 /\ results'[i].asked => Asked
      <3>1. CASE i = Len(results) + 1
        BY <1>3, <1>4, <3>1
      <3>2. CASE i \in 1..Len(results)
        BY <1>0, <1>4, <3>2 DEF Answered
      <3> QED BY <1>1, <1>4, <2>1, <3>1, <3>2
    <2> QED BY <1>0, <1>1, <1>4, <2>1 DEF Answered, Asked
  <1> QED BY <1>0, <1>5, <1>6 DEF VerificationInv, Earned

LEMMA CheckStep ==
  ASSUME VerificationInv, Check127 \/ RunCheck \/ CheckEnds
  PROVE  VerificationInv'
  <1>0. VerificationTypes /\ CommandOwned /\ Gated /\ Answered /\ Earned(shown) /\ Earned(linked)
    BY DEF VerificationInv
  <1>1. CASE Check127
    <2>1. command = NoCommand /\ command.stop = "none"
      BY <1>1 DEF Check127, Quiet, NoCommand
    <2> QED BY <1>1, <2>1, ResultStep DEF Check127
  <1>2. CASE RunCheck
    <2>1. CASE Asked /\ Raise /\ UNCHANGED command
      BY <1>0, <1>2, <2>1, LeaveStep DEF RunCheck, Raise, VerificationTypes, Quiet
    <2>2. CASE Begin("none") /\ UNCHANGED <<project, stage, event, locals, shown, linked, edits>>
      <3>1. command' \in CommandStates /\ command'.manager = "none" /\ command'.does = "poll"
        BY <2>2, BeginType
      <3>2. stage = "check" /\ ChecksLeft
        BY <1>2 DEF RunCheck
      <3>3. VerificationTypes' /\ CommandOwned'
        BY <1>0, <2>2, <3>1, <3>2 DEF VerificationTypes, CommandOwned, ChecksLeft, locals
      <3>4. Gated' /\ Answered'
        BY <1>0, <2>2, <3>2 DEF Gated, Answered, Asked, locals
      <3> QED BY <1>0, <2>2, <3>3, <3>4 DEF VerificationInv, Earned
    <2> QED BY <1>2, <2>1, <2>2 DEF RunCheck
  <1>3. CASE CheckEnds
    <2>1. stage = "check" /\ ChecksLeft /\ command' = NoCommand
      BY <1>0, <1>3 DEF CheckEnds, CommandOwned, Does
    <2>2. CASE Raise
      BY <1>0, <2>1, <2>2, LeaveStep DEF Raise, VerificationTypes
    <2>3. CASE /\ command.stop = "none"
               /\ results' = Append(results, Result(command.leader = "zero"))
               /\ UNCHANGED <<project, stage, round, look, event, contract, shown, linked, edits>>
      BY <2>1, <2>3, ResultStep
    <2> QED BY <1>3, <2>2, <2>3 DEF CheckEnds
  <1> QED BY <1>1, <1>2, <1>3

\* A pass that is concluded is earned.
LEMMA ReportEarned ==
  ASSUME VerificationInv, stage = "check", ~ChecksLeft, ~Asked
  PROVE  Report \in Reports /\ Earned(Report)
  <1>0. VerificationTypes /\ Answered
    BY DEF VerificationInv
  <1>1. Report \in Reports
    BY <1>0 DEF VerificationTypes, Report, Reports, Looks
  <1>2. /\ Report.status = "pass" <=> Passed
        /\ Report.results = results /\ Report.found = look.found /\ Report.contract = contract
    BY DEF Report
  <1>3. ASSUME Passed
        PROVE  /\ results # <<>> /\ look.found = {}
               /\ [i \in 1..Len(results) |-> results[i].check] = contract.checks
               /\ \A i \in 1..Len(results) :
                    results[i].ok /\ results[i].stop = "none" /\ ~results[i].asked
    <2>1. /\ look.checks \in Seq(Checks) /\ results \in Seq(Outcomes) /\ look.checks # <<>>
          /\ look.found = {} /\ \A i \in 1..Len(results) : results[i].ok
      BY <1>0, <1>3 DEF VerificationTypes, Looks, Passed
    <2>2. /\ Len(results) = Len(look.checks) /\ contract.checks = look.checks
          /\ \A i \in 1..Len(results) :
               results[i].check = look.checks[i] /\ results[i].stop = "none" /\ ~results[i].asked
      <3>1. Len(results) \in Nat /\ Len(look.checks) \in Nat
        BY <2>1
      <3> QED BY <1>0, <2>1, <3>1 DEF Answered, ChecksLeft
    <2>3. results # <<>>
      BY <2>1, <2>2
    <2>4. [i \in 1..Len(results) |-> results[i].check] = look.checks
      BY <2>1, <2>2
    <2> QED BY <2>1, <2>2, <2>3, <2>4
  <1>4. Earned(Report)
    BY <1>2, <1>3 DEF Earned
  <1> QED BY <1>1, <1>4

LEMMA ConcludeStep ==
  ASSUME VerificationInv, Conclude \/ Link
  PROVE  VerificationInv'
  <1>0. VerificationTypes /\ CommandOwned /\ Gated /\ Answered /\ Earned(shown) /\ Earned(linked)
    BY DEF VerificationInv
  <1>1. CASE Conclude
    <2>0. stage = "check" /\ command = NoCommand /\ ~ChecksLeft
      BY <1>1 DEF Conclude, Quiet
    <2>1. CASE Raise /\ UNCHANGED command
      BY <1>0, <2>0, <2>1, LeaveStep DEF Raise, VerificationTypes
    <2>2. CASE ~Asked /\ shown' = Report /\ stage' = "save"
                 /\ UNCHANGED <<project, command, event, locals, linked, edits>>
      <3>1. shown' \in Reports /\ Earned(shown')
        BY <2>0, <2>2, ReportEarned
      <3>2. VerificationTypes' /\ CommandOwned'
        BY <1>0, <2>0, <2>2, <3>1 DEF VerificationTypes, Steps, CommandOwned, Quiet, NoCommand, locals
      <3>3. Gated' /\ Answered'
        BY <1>0, <2>0, <2>2 DEF Gated, Answered, locals
      <3>4. Earned(shown)' /\ Earned(linked)'
        BY <1>0, <2>2, <3>1 DEF Earned
      <3> QED BY <3>2, <3>3, <3>4 DEF VerificationInv
    <2> QED BY <1>1, <2>1, <2>2 DEF Conclude
  <1>2. CASE Link
    <2>1. command' = NoCommand
      BY <1>0, <1>2 DEF Link, CommandOwned, Quiet
    <2> QED BY <1>0, <1>2, <2>1, LeaveStep DEF Link, VerificationTypes
  <1> QED BY <1>1, <1>2

-----------------------------------------------------------------------------
\* Restart, the user and the environment.

LEMMA RestoredType ==
  ASSUME VerificationInv, NEW d \in SUBSET Findings, NEW c \in Signed
  PROVE  LET r == [linked EXCEPT !.status = "fail", !.found = @ \cup d, !.contract = c]
         IN  r \in Reports /\ r.status = "fail"
  BY DEF VerificationInv, VerificationTypes, Reports

LEMMA CurrentType ==
  ASSUME VerificationTypes
  PROVE  Current \in Signed
  BY MappedType, NothingTypes DEF VerificationTypes, Current, Contract, Signed, Copies

LEMMA WorldStep ==
  ASSUME VerificationInv, Crash \/ Restore \/ AskToStop \/ Edit
  PROVE  VerificationInv'
  <1>0. VerificationTypes /\ CommandOwned /\ Gated /\ Answered /\ Earned(shown) /\ Earned(linked)
    BY DEF VerificationInv
  <1>1. CASE Crash
    BY <1>0, <1>1, LeaveStep, NothingTypes DEF Crash, VerificationTypes
  <1>2. CASE Restore
    <2>0. stage = "idle" /\ Quiet
      BY <1>0, <1>2 DEF Restore, CommandOwned
    <2>1. shown' \in Reports /\ Earned(shown') /\ linked' = shown'
      <3>1. CASE Stale(linked)
        <4>1. shown' = [linked EXCEPT !.status = "fail", !.found = @ \cup {"stale"}, !.contract = Current]
          BY <1>2, <3>1 DEF Restore
        <4>2. shown' \in Reports /\ shown'.status = "fail"
          BY <1>0, <4>1, RestoredType, CurrentType DEF Findings
        <4> QED BY <1>2, <4>2 DEF Restore, Earned
      <3>2. CASE ~Stale(linked)
        BY <1>0, <1>2, <3>2 DEF Restore, VerificationTypes
      <3> QED BY <3>1, <3>2
    <2>2. VerificationTypes' /\ CommandOwned'
      BY <1>0, <1>2, <2>0, <2>1 DEF Restore, VerificationTypes, CommandOwned, Quiet, locals
    <2>3. Gated' /\ Answered'
      BY <1>0, <1>2, <2>0 DEF Restore, Gated, Answered, locals
    <2>4. Earned(shown)' /\ Earned(linked)'
      BY <2>1 DEF Earned
    <2> QED BY <2>2, <2>3, <2>4 DEF VerificationInv
  <1>3. CASE AskToStop
    <2>1. VerificationTypes' /\ CommandOwned'
      BY <1>0, <1>3 DEF AskToStop, VerificationTypes, CommandOwned, Quiet, ChecksLeft, locals
    <2>2. Gated'
      BY <1>0, <1>3 DEF AskToStop, Gated, Look, Mapped, Diagnostics, Verifiable, Readable, Prerequisites,
           StaticFindings, EntryStale, Own, locals
    <2>3. Answered'
      BY <1>0, <1>3 DEF AskToStop, Answered, Asked, locals
    <2> QED BY <1>0, <1>3, <2>1, <2>2, <2>3 DEF AskToStop, VerificationInv, Earned
  <1>4. CASE Edit
    <2>1. project' \in Copies /\ edits' \in Nat /\ edits' > edits
      BY <1>0, <1>4 DEF Edit, VerificationTypes, Copies
    <2>2. VerificationTypes' /\ CommandOwned'
      BY <1>0, <1>4, <2>1 DEF Edit, VerificationTypes, CommandOwned, Quiet, ChecksLeft, locals
    <2>3. Gated'
      <3>1. look'.at < edits' /\ look'.at \in Nat
        BY <1>0, <1>4, <2>1 DEF Edit, Gated, VerificationTypes, Looks, locals
      <3>2. look'.at <= edits' /\ look'.at # edits'
        BY <2>1, <3>1
      <3> QED BY <3>2 DEF Gated
    <2>4. Answered'
      BY <1>0, <1>4 DEF Edit, Answered, Asked, locals
    <2> QED BY <1>0, <1>4, <2>2, <2>3, <2>4 DEF Edit, VerificationInv, Earned
  <1> QED BY <1>1, <1>2, <1>3, <1>4

\* VerificationInv is inductive.
LEMMA VerificationStep ==
  ASSUME VerificationInv, [VerificationNext]_verificationVars
  PROVE  VerificationInv'
  <1>1. CASE UNCHANGED verificationVars
    <2>1. VerificationTypes' /\ CommandOwned'
      BY <1>1 DEF VerificationInv, VerificationTypes, CommandOwned, Quiet, ChecksLeft, verificationVars, locals
    <2>2. Gated' /\ Answered'
      BY <1>1 DEF VerificationInv, Gated, Answered, Asked, Look, Mapped, Diagnostics, Verifiable, Readable,
           Prerequisites, StaticFindings, EntryStale, Own, verificationVars, locals
    <2> QED BY <1>1, <2>1, <2>2 DEF VerificationInv, Earned, verificationVars
  <1>2. CASE VerificationNext
    <2>1. CASE Verifier
      BY <2>1, GateStep, PreparationStep, CommandStep, ApproachStep, CheckStep, ConcludeStep DEF Verifier
    <2>2. CASE Start \/ Revert \/ Restore
      BY <2>2, GateStep, ApproachStep, WorldStep
    <2>3. CASE (\E completed \in BOOLEAN : AgentEnds(completed)) \/ AskToStop \/ Crash \/ Commands \/ Edit
      BY <2>3, ApproachStep, WorldStep, CommandStep
    <2> QED BY <1>2, <2>1, <2>2, <2>3 DEF VerificationNext
  <1> QED BY <1>1, <1>2

THEOREM VerificationHolds == VerificationSpec => []VerificationInv
  BY VerificationStarts, VerificationStep, PTL DEF VerificationSpec

\* A report that passes, shown or restored, ran the checks of its contract in
\* order, each to its own end, with nobody asking to stop.
THEOREM PassIsEarnedHolds == VerificationSpec => []PassIsEarned
  <1>1. VerificationInv => PassIsEarned
    BY DEF VerificationInv, PassIsEarned, Earned
  <1> QED BY <1>1, VerificationHolds, PTL

\* The agent is started on a copy whose checks can be run.
THEOREM AgentCanBeVerifiedHolds == VerificationSpec => []AgentCanBeVerified
  <1>1. VerificationInv => AgentCanBeVerified
    BY DEF VerificationInv, AgentCanBeVerified, Gated, Verifiable
  <1> QED BY <1>1, VerificationHolds, PTL

\* A pass that a restart restores ran the checks the project has now.
THEOREM EvidenceIsCurrentHolds == VerificationSpec => EvidenceIsCurrent
  <1> DEFINE Restored == stage = "idle" /\ shown = NoReport /\ shown'.status = "pass"
             Ran == [i \in 1..Len(shown'.results) |-> shown'.results[i].check] = Mapped(project)
  <1>1. ASSUME VerificationInv, [VerificationNext]_verificationVars, Restored
        PROVE  Ran
    <2>0. VerificationTypes /\ Earned(linked) /\ shown = NoReport /\ NoReport.status = "none"
      BY <1>1 DEF VerificationInv, NoReport
    <2>1. stage = "idle" /\ shown' # shown /\ command = NoCommand
      BY <1>1, <2>0 DEF VerificationInv, CommandOwned, Quiet
    <2>2. Restore
      BY <1>1, <2>0, <2>1 DEF VerificationNext, verificationVars, Start, Revert, Restore, Verifier, AgentEnds,
           AskToStop, Crash, Commands, CommandExits, HelperExit, Edit, Admit, TurnAway, NothingToPrepare,
           CannotPrepare, Install, Installed, Supervisor, Polled, StopFor, Grace, Join, Examine, Sign,
           Check127, RunCheck, CheckEnds, Conclude, Link, Raise
    <2>3. shown' = linked /\ ~Stale(linked)
      <3>1. shown' = IF Stale(linked)
              THEN [linked EXCEPT !.status = "fail", !.found = @ \cup {"stale"}, !.contract = Current]
              ELSE linked
        BY <2>2 DEF Restore
      <3>2. LET r == [linked EXCEPT !.status = "fail", !.found = @ \cup {"stale"}, !.contract = Current]
            IN  r.status = "fail"
        BY <1>1, <2>0, RestoredType, CurrentType DEF Findings
      <3> QED BY <1>1, <3>1, <3>2
    <2>4. linked.contract.checks = Mapped(project)
      BY <2>3 DEF Stale, Contract
    <2> QED BY <1>1, <2>0, <2>3, <2>4 DEF Earned
  <1>2. VerificationInv /\ [VerificationNext]_verificationVars => [Restored => Ran]_verificationVars
    BY <1>1
  <1> QED BY <1>2, VerificationHolds, PTL DEF VerificationSpec, EvidenceIsCurrent

-----------------------------------------------------------------------------
(* The plan of a ticket.  The library's induction theorems take an operator,  *)
(* so what the recursion over waves computes is proved of a least             *)
(* counterexample.                                                            *)

(* The least-number principle: a claim about every number is proved of the   *)
(* least number it would fail for.                                            *)
LEMMA LeastElement ==
  ASSUME NEW T, T \subseteq Nat, T # {}
  PROVE  \E m \in T : \A k \in T : m <= k
  <1> DEFINE R == OpToRel(<, Nat)
  <1>1. IsWellFoundedOn(R, Nat)
    BY NatLessThanWellFounded
  <1>2. R = {ss \in Nat \X Nat : ss[1] < ss[2]}
    BY DEF OpToRel
  <1> HIDE DEF R
  <1>3. PICK m \in T : \A y \in T : ~ (<<y, m>> \in R)
    BY <1>1, WFMin
  <1>4. \A k \in T : ~(k < m)
    BY <1>2, <1>3
  <1> QED BY <1>4

(* The elements of two sequences put together.                                *)
LEMMA ElementsOfConcat ==
  ASSUME NEW S, NEW s \in Seq(S), NEW t \in Seq(S)
  PROVE  /\ s \o t \in Seq(S)
         /\ ToSet(s \o t) = ToSet(s) \cup ToSet(t)
         /\ IsInjective(s) /\ IsInjective(t) /\ ToSet(s) \cap ToSet(t) = {} => IsInjective(s \o t)
  <1>1. /\ s \o t \in Seq(S) /\ Len(s \o t) = Len(s) + Len(t)
        /\ \A i \in 1..(Len(s) + Len(t)) :
             (s \o t)[i] = IF i <= Len(s) THEN s[i] ELSE t[i - Len(s)]
    BY ConcatProperties
  <1>2. /\ Len(s) \in Nat /\ Len(t) \in Nat
        /\ DOMAIN s = 1..Len(s) /\ DOMAIN t = 1..Len(t) /\ DOMAIN (s \o t) = 1..(Len(s) + Len(t))
    BY <1>1
  <1> DEFINE u == s \o t
  <1>3. \A i \in 1..Len(s) : i \in 1..(Len(s) + Len(t)) /\ u[i] = s[i]
    BY <1>1, <1>2
  <1>4. \A i \in 1..Len(t) : Len(s) + i \in 1..(Len(s) + Len(t)) /\ u[Len(s) + i] = t[i]
    BY <1>1, <1>2
  <1>5. \A i \in 1..(Len(s) + Len(t)) :
          \/ i \in 1..Len(s) /\ u[i] = s[i]
          \/ i - Len(s) \in 1..Len(t) /\ u[i] = t[i - Len(s)]
    BY <1>1, <1>2
  <1>6. DOMAIN u = 1..(Len(s) + Len(t))
    BY <1>2
  <1> HIDE DEF u
  <1>7. ToSet(u) = ToSet(s) \cup ToSet(t)
    <2>1. ASSUME NEW e \in ToSet(u) PROVE e \in ToSet(s) \cup ToSet(t)
      BY <2>1, <1>2, <1>5, <1>6 DEF ToSet
    <2>2. ASSUME NEW e \in ToSet(s) PROVE e \in ToSet(u)
      BY <2>2, <1>2, <1>3, <1>6 DEF ToSet
    <2>3. ASSUME NEW e \in ToSet(t) PROVE e \in ToSet(u)
      BY <2>3, <1>2, <1>4, <1>6 DEF ToSet
    <2> QED BY <2>1, <2>2, <2>3
  <1>8. ASSUME IsInjective(s), IsInjective(t), ToSet(s) \cap ToSet(t) = {}
        PROVE  IsInjective(u)
    <2> SUFFICES ASSUME NEW i \in DOMAIN u, NEW j \in DOMAIN u, u[i] = u[j] PROVE i = j
      BY DEF IsInjective
    <2>1. \A a \in 1..Len(s), b \in 1..Len(t) : s[a] # t[b]
      BY <1>2, <1>8 DEF ToSet
    <2>2. \A a, b \in 1..Len(s) : s[a] = s[b] => a = b
      BY <1>2, <1>8 DEF IsInjective
    <2>3. \A a, b \in 1..Len(t) : t[a] = t[b] => a = b
      BY <1>2, <1>8 DEF IsInjective
    <2>4. i \in Nat /\ j \in Nat /\ Len(s) \in Nat
      BY <1>2, <1>6
    <2>5. CASE i \in 1..Len(s) /\ u[i] = s[i] /\ j \in 1..Len(s) /\ u[j] = s[j]
      BY <2>2, <2>5
    <2>6. CASE i - Len(s) \in 1..Len(t) /\ u[i] = t[i - Len(s)] /\ j - Len(s) \in 1..Len(t) /\ u[j] = t[j - Len(s)]
      <3>1. i - Len(s) = j - Len(s)
        BY <2>3, <2>6
      <3> QED BY <3>1, <2>4
    <2>7. CASE i \in 1..Len(s) /\ u[i] = s[i] /\ j - Len(s) \in 1..Len(t) /\ u[j] = t[j - Len(s)]
      BY <2>1, <2>7
    <2>8. CASE i - Len(s) \in 1..Len(t) /\ u[i] = t[i - Len(s)] /\ j \in 1..Len(s) /\ u[j] = s[j]
      BY <2>1, <2>8
    <2> QED BY <2>5, <2>6, <2>7, <2>8, <1>5, <1>6
  <1> QED BY <1>1, <1>7, <1>8 DEF u

(* A sequence of one element, and of none.                                    *)
LEMMA OneElement ==
  ASSUME NEW S, NEW e \in S
  PROVE  <<e>> \in Seq(S) /\ ToSet(<<e>>) = {e} /\ IsInjective(<<e>>)
  <1>1. <<e>> \in Seq(S) /\ DOMAIN <<e>> = {1} /\ <<e>>[1] = e
    OBVIOUS
  <1> QED BY <1>1 DEF ToSet, IsInjective

LEMMA NoElement ==
  ASSUME NEW S
  PROVE  << >> \in Seq(S) /\ ToSet(<< >>) = {} /\ IsInjective(<< >>)
  <1>1. << >> \in Seq(S) /\ DOMAIN << >> = {}
    OBVIOUS
  <1> QED BY <1>1 DEF ToSet, IsInjective

(* A role is added to a list once.                                            *)
LEMMA Extended ==
  ASSUME NEW s \in Seq(Domains), IsInjective(s), NEW r \in Domains
  PROVE  /\ Extend(s, r) \in Seq(Domains) /\ IsInjective(Extend(s, r))
         /\ ToSet(Extend(s, r)) = ToSet(s) \cup {r}
  <1>1. CASE r \in ToSet(s)
    BY <1>1 DEF Extend
  <1>2. CASE r \notin ToSet(s)
    <2> DEFINE one == <<r>>
    <2>1. one \in Seq(Domains) /\ ToSet(one) = {r} /\ IsInjective(one)
      BY OneElement
    <2>2. Append(s, r) = s \o one
      OBVIOUS
    <2> HIDE DEF one
    <2>3. ToSet(s) \cap ToSet(one) = {}
      BY <1>2, <2>1
    <2>4. /\ s \o one \in Seq(Domains) /\ IsInjective(s \o one)
          /\ ToSet(s \o one) = ToSet(s) \cup ToSet(one)
      BY <2>1, <2>3, ElementsOfConcat
    <2> QED BY <1>2, <2>1, <2>2, <2>4 DEF Extend
  <1> QED BY <1>1, <1>2

(* Who implements is listed once each, and a requested change has a writer    *)
(* among them, whatever the domains of the ticket are.                        *)
LEMMA ImplementersOfATicket ==
  ASSUME NEW c \in Cases
  PROVE  LET by == Implementers(c.ticket)
         IN /\ by \in Seq(Domains \cup {"coordinator"}) /\ IsInjective(by)
            /\ Requested(c.ticket) => ToSet(by) \cap Writers # {}
  <1> DEFINE t     == c.ticket
             data  == IF t.live THEN Extend(t.domains, "backend") ELSE t.domains
             named == IF t.kind = "release" THEN Extend(data, "release") ELSE data
             all   == IF named = <<>> /\ Requested(t) THEN <<"backend">> ELSE named
             Sound(s) == /\ s \in Seq(Domains) /\ IsInjective(s)
                         /\ "security" \in ToSet(s) => {"frontend", "backend"} \cap ToSet(s) # {}
  <1>1. Implementers(t) =
          IF Len(all) >= 3 /\ t.risk # "high" /\ ~t.separate THEN <<"coordinator">> ELSE all
    BY DEF Implementers
  <1>2. Sound(t.domains)
    BY CasesAssumption
  <1>3. "backend" \in Domains /\ "release" \in Domains
    BY DEF Domains
  <1> HIDE DEF t
  <1>4. ASSUME NEW s, Sound(s), NEW r \in {"backend", "release"} PROVE Sound(Extend(s, r))
    BY <1>3, <1>4, Extended
  <1> HIDE DEF Sound
  <1>5. Sound(data)
    BY <1>2, <1>4
  <1> HIDE DEF data
  <1>6. Sound(named)
    BY <1>4, <1>5
  <1> HIDE DEF named
  <1>7. Sound(<<"backend">>)
    BY OneElement, <1>3 DEF Sound
  <1>8. Sound(all)
    BY <1>6, <1>7
  <1>9. Requested(t) => all # <<>>
    BY DEF all
  <1> HIDE DEF all
  <1>10. ASSUME NEW s, Sound(s), s # <<>> PROVE ToSet(s) \cap Writers # {}
    <2>1. s \in Seq(Domains) /\ Len(s) >= 1 /\ 1 \in DOMAIN s /\ s[1] \in Domains
      BY <1>10 DEF Sound
    <2>2. s[1] \in ToSet(s)
      BY <2>1 DEF ToSet
    <2> QED BY <1>10, <2>1, <2>2 DEF Sound, Domains, Writers
  <1>11. CASE Implementers(t) = all
    <2>1. all \in Seq(Domains \cup {"coordinator"})
      BY <1>8 DEF Sound
    <2> QED BY <1>8, <1>9, <1>10, <1>11, <2>1 DEF Sound, t
  <1>12. CASE Implementers(t) = <<"coordinator">>
    BY <1>12, OneElement DEF t, Writers
  <1> QED BY <1>1, <1>11, <1>12

(* A plan names no role twice, has no writer for an audit, and has one for a  *)
(* requested change.                                                          *)
LEMMA RolesOfAPlan ==
  ASSUME NEW c \in Cases
  PROVE  LET roles == Roles(c.ticket, c.project)
         IN /\ roles \in Seq(RoleSet) /\ IsInjective(roles)
            /\ c.ticket.kind = "audit" => ToSet(roles) \cap Writers = {}
            /\ Requested(c.ticket) /\ c.ticket.kind # "audit" => ToSet(roles) \cap Writers # {}
  <1> DEFINE first  == IF SkipDiscovery(c.ticket) THEN <<>> ELSE <<"discovery">>
             second == IF c.ticket.kind = "audit" THEN <<>> ELSE Implementers(c.ticket)
             third  == IF SkipQuality(c.ticket, c.project) THEN <<>> ELSE <<"quality">>
  <1>1. Roles(c.ticket, c.project) = (first \o second) \o third
    BY DEF Roles
  <1>2. "discovery" \in RoleSet /\ "quality" \in RoleSet
    BY DEF RoleSet
  <1>3. first \in Seq(RoleSet) /\ IsInjective(first) /\ ToSet(first) \subseteq {"discovery"}
    BY <1>2, OneElement, NoElement
  <1>4. third \in Seq(RoleSet) /\ IsInjective(third) /\ ToSet(third) \subseteq {"quality"}
    BY <1>2, OneElement, NoElement
  <1>5. /\ second \in Seq(Domains \cup {"coordinator"}) /\ IsInjective(second)
        /\ c.ticket.kind = "audit" => ToSet(second) = {}
        /\ Requested(c.ticket) /\ c.ticket.kind # "audit" => ToSet(second) \cap Writers # {}
    BY ImplementersOfATicket, NoElement
  <1> HIDE DEF first, second, third
  <1>6. second \in Seq(RoleSet) /\ ToSet(second) \subseteq Domains \cup {"coordinator"}
    <2>1. Domains \cup {"coordinator"} \subseteq RoleSet
      BY DEF RoleSet, Domains, Writers
    <2>2. \A i \in DOMAIN second : second[i] \in Domains \cup {"coordinator"}
      BY <1>5
    <2> QED BY <1>5, <2>1, <2>2 DEF ToSet
  <1> DEFINE front == first \o second
  <1>7. front \in Seq(RoleSet) /\ IsInjective(front) /\ ToSet(front) = ToSet(first) \cup ToSet(second)
    <2>1. ToSet(first) \cap ToSet(second) = {}
      BY <1>3, <1>6 DEF Domains
    <2> QED BY <2>1, <1>3, <1>5, <1>6, ElementsOfConcat
  <1>10. Roles(c.ticket, c.project) = front \o third
    BY <1>1
  <1> HIDE DEF front
  <1>8. /\ front \o third \in Seq(RoleSet) /\ IsInjective(front \o third)
        /\ ToSet(front \o third) = ToSet(front) \cup ToSet(third)
    <2>1. ToSet(front) \cap ToSet(third) = {}
      BY <1>3, <1>4, <1>6, <1>7 DEF Domains
    <2> QED BY <2>1, <1>4, <1>7, ElementsOfConcat
  <1>9. "discovery" \notin Writers /\ "quality" \notin Writers
    BY DEF Writers
  <1> QED BY <1>3, <1>4, <1>5, <1>7, <1>8, <1>9, <1>10

(* The first n waves of a chain are its first n steps.                        *)
LEMMA WavesOfAChain ==
  ASSUME NEW roles \in Seq(RoleSet), IsInjective(roles)
  PROVE  \A n \in 0..Len(roles) : Done(Depends(roles))[n] = {roles[i] : i \in 1..n}
  <1> DEFINE deps  == Depends(roles)
             N     == Cardinality(DOMAIN deps)
             chain == [n \in 0..N |-> {roles[i] : i \in 1..n}]
             Eq(d) == d = [n \in 0..N |-> IF n = 0 THEN {}
                                          ELSE {r \in DOMAIN deps : deps[r] \subseteq d[n - 1]}]
  <1>1. Len(roles) \in Nat /\ DOMAIN roles = 1..Len(roles) /\ roles \in [1..Len(roles) -> RoleSet]
    OBVIOUS
  <1>2. DOMAIN deps = ToSet(roles) /\ DOMAIN deps = {roles[i] : i \in 1..Len(roles)}
    BY <1>1 DEF Depends, ToSet
  <1>3. N = Len(roles)
    <2>1. roles \in Bijection(1..Len(roles), ToSet(roles))
      BY <1>1 DEF Bijection, Injection, Surjection, IsInjective, ToSet
    <2>2. ExistsBijection(1..Len(roles), ToSet(roles))
      BY <2>1 DEF ExistsBijection
    <2> QED BY <1>1, <1>2, <2>2, FS_CountingElements
  <1>4. \A i, j \in 1..Len(roles) : roles[i] = roles[j] => i = j
    BY <1>1 DEF IsInjective
  <1>5. ASSUME NEW k \in 1..Len(roles)
        PROVE  deps[roles[k]] = {roles[i] : i \in {j \in 1..Len(roles) - 1 : j + 1 = k}}
    <2>1. \A j \in 1..Len(roles) - 1 : roles[j + 1] = roles[k] <=> j + 1 = k
      BY <1>1, <1>4
    <2>2. deps[roles[k]] = {roles[i] : i \in {j \in 1..Len(roles) - 1 : roles[j + 1] = roles[k]}}
      BY <1>1, <1>2 DEF Depends
    <2> QED BY <2>1, <2>2
  <1>6. Done(deps) = CHOOSE d : Eq(d)
    BY DEF Done
  <1>7. Eq(chain)
    <2>1. ASSUME NEW n \in 0..N, n # 0
          PROVE  {roles[i] : i \in 1..n} =
                 {r \in DOMAIN deps : deps[r] \subseteq {roles[i] : i \in 1..(n - 1)}}
      <3>1. n \in Nat /\ n - 1 \in Nat /\ n <= Len(roles) /\ Len(roles) \in Nat
        BY <1>1, <1>3, <2>1
      <3>2. ASSUME NEW k \in 1..Len(roles)
            PROVE  deps[roles[k]] \subseteq {roles[i] : i \in 1..(n - 1)} <=> k <= n
        <4> HIDE DEF deps
        <4>1. CASE k = 1
          <5>1. {j \in 1..Len(roles) - 1 : j + 1 = k} = {}
            BY <1>1, <4>1
          <5>2. deps[roles[k]] = {}
            BY <1>5, <5>1
          <5> QED BY <3>1, <4>1, <5>2
        <4>2. CASE k > 1
          <5>1. k - 1 \in 1..Len(roles) - 1 /\ k - 1 \in 1..Len(roles)
            BY <1>1, <4>2
          <5>2. {j \in 1..Len(roles) - 1 : j + 1 = k} = {k - 1}
            BY <1>1, <5>1
          <5>3. deps[roles[k]] = {roles[k - 1]}
            <6>1. deps[roles[k]] = {roles[i] : i \in {j \in 1..Len(roles) - 1 : j + 1 = k}}
              BY <1>5
            <6> QED BY <5>2, <6>1
          <5>4. roles[k - 1] \in {roles[i] : i \in 1..(n - 1)} <=> k - 1 \in 1..(n - 1)
            BY <1>4, <3>1, <5>1
          <5> QED BY <5>1, <5>3, <5>4, <3>1
        <4> QED BY <4>1, <4>2
      <3> HIDE DEF deps
      <3> QED BY <1>2, <3>1, <3>2
    <2> HIDE DEF deps, N
    <2>2. \A n \in 0..N : n # 0 => n - 1 \in 0..N
      BY <1>1, <1>3
    <2>3. \A n \in 0..N : n # 0 => chain[n - 1] = {roles[i] : i \in 1..(n - 1)}
      BY <2>2
    <2>4. \A n \in 0..N :
            {roles[i] : i \in 1..n} =
              IF n = 0 THEN {} ELSE {r \in DOMAIN deps : deps[r] \subseteq chain[n - 1]}
      <3> SUFFICES ASSUME NEW n \in 0..N
                   PROVE  {roles[i] : i \in 1..n} =
                            IF n = 0 THEN {} ELSE {r \in DOMAIN deps : deps[r] \subseteq chain[n - 1]}
        OBVIOUS
      <3>1. CASE n = 0
        BY <3>1
      <3>2. CASE n # 0
        <4>1. chain[n - 1] = {roles[i] : i \in 1..(n - 1)}
          BY <2>3, <3>2
        <4> HIDE DEF chain
        <4>2. {roles[i] : i \in 1..n} = {r \in DOMAIN deps : deps[r] \subseteq chain[n - 1]}
          BY <2>1, <3>2, <4>1
        <4> QED BY <3>2, <4>2
      <3> QED BY <3>1, <3>2
    <2> QED BY <2>4
  <1> HIDE DEF deps, N
  <1>8. Eq(Done(deps))
    <2> HIDE DEF Eq
    <2> QED BY <1>6, <1>7
  <1>9. \A n \in 0..N : Done(deps)[n] = chain[n]
    <2> DEFINE done == Done(deps)
               T    == {n \in 0..N : done[n] # chain[n]}
    <2> HIDE DEF done
    <2>1. Eq(done)
      BY <1>8 DEF done
    <2>2. SUFFICES ASSUME T # {} PROVE FALSE
      BY DEF done
    <2>3. T \subseteq Nat
      OBVIOUS
    <2> HIDE DEF chain
    <2>4. PICK m \in T : \A k \in T : m <= k
      BY <2>2, <2>3, LeastElement
    <2>5. CASE m = 0
      <3>1. m \in 0..N
        BY <2>4
      <3>2. done[m] = {} /\ chain[m] = {}
        <4>1. ASSUME NEW d, Eq(d) PROVE d[m] = {}
          BY <2>5, <3>1, <4>1
        <4> HIDE DEF Eq
        <4> QED BY <1>7, <2>1, <4>1
      <3> QED BY <2>4, <3>2
    <2>6. CASE m # 0
      <3>1. m - 1 \in 0..N /\ m - 1 \notin T
        BY <1>1, <1>3, <2>3, <2>4, <2>6
      <3>2. done[m - 1] = chain[m - 1]
        BY <3>1
      <3>3. done[m] = {r \in DOMAIN deps : deps[r] \subseteq done[m - 1]}
        BY <2>1, <2>4, <2>6
      <3>4. chain[m] = {r \in DOMAIN deps : deps[r] \subseteq chain[m - 1]}
        BY <1>7, <2>4, <2>6
      <3> QED BY <3>2, <3>3, <3>4, <2>4
    <2> QED BY <2>5, <2>6
  <1> QED BY <1>3, <1>9 DEF deps

(* No two steps of a chain are in one wave.                                   *)
LEMMA ChainHasNoSharedWave ==
  ASSUME NEW roles \in Seq(RoleSet), IsInjective(roles),
         NEW r \in ToSet(roles), NEW q \in ToSet(roles), r # q
  PROVE  Waves(Depends(roles))[r] # Waves(Depends(roles))[q]
  <1> DEFINE deps == Depends(roles)
             done == Done(deps)
             N    == Cardinality(DOMAIN deps)
  <1>1. Len(roles) \in Nat /\ DOMAIN roles = 1..Len(roles)
    OBVIOUS
  <1>2. DOMAIN deps = ToSet(roles)
    BY DEF Depends
  <1>3. N = Len(roles)
    <2>1. roles \in Bijection(1..Len(roles), ToSet(roles))
      BY <1>1 DEF Bijection, Injection, Surjection, IsInjective, ToSet
    <2>2. ExistsBijection(1..Len(roles), ToSet(roles))
      BY <2>1 DEF ExistsBijection
    <2> QED BY <1>1, <1>2, <2>2, FS_CountingElements
  <1>4. \A i, j \in 1..Len(roles) : roles[i] = roles[j] => i = j
    BY <1>1 DEF IsInjective
  <1>5. \A n \in 0..N : done[n] = {roles[i] : i \in 1..n}
    BY <1>3, WavesOfAChain
  <1>6. \A s \in ToSet(roles) :
          Waves(deps)[s] = CHOOSE n \in 1..N : s \in done[n] /\ s \notin done[n - 1]
    BY <1>2 DEF Waves
  <1> HIDE DEF deps, done, N
  <1>7. ASSUME NEW k \in 1..Len(roles), NEW n \in 1..N,
               roles[k] \in done[n], roles[k] \notin done[n - 1]
        PROVE  n = k
    <2>1. n \in 0..N /\ n - 1 \in 0..N /\ n \in Nat /\ n <= Len(roles)
      BY <1>1, <1>3
    <2>2. PICK i \in 1..n : roles[k] = roles[i]
      BY <1>5, <1>7, <2>1
    <2>3. i = k
      BY <1>1, <1>4, <2>1, <2>2
    <2>4. k \notin 1..(n - 1)
      BY <1>5, <1>7, <2>1
    <2> QED BY <2>1, <2>2, <2>3, <2>4
  <1>8. ASSUME NEW k \in 1..Len(roles)
        PROVE  roles[k] \in done[k] /\ roles[k] \notin done[k - 1]
    <2>1. k \in 0..N /\ k - 1 \in 0..N
      BY <1>1, <1>3
    <2>2. \A i \in 1..(k - 1) : roles[i] # roles[k]
      BY <1>1, <1>4
    <2> QED BY <1>5, <2>1, <2>2
  <1>9. ASSUME NEW k \in 1..Len(roles)
        PROVE  Waves(deps)[roles[k]] = k
    <2>1. roles[k] \in ToSet(roles) /\ k \in 1..N
      BY <1>1, <1>3 DEF ToSet
    <2>2. \E n \in 1..N : roles[k] \in done[n] /\ roles[k] \notin done[n - 1]
      BY <1>8, <2>1
    <2> DEFINE w == CHOOSE n \in 1..N : roles[k] \in done[n] /\ roles[k] \notin done[n - 1]
    <2>3. w \in 1..N /\ roles[k] \in done[w] /\ roles[k] \notin done[w - 1]
      BY <2>2
    <2> HIDE DEF w
    <2>4. w = k
      BY <1>7, <2>3
    <2> QED BY <1>6, <2>1, <2>4 DEF w
  <1>10. PICK i \in 1..Len(roles), j \in 1..Len(roles) : r = roles[i] /\ q = roles[j]
    BY <1>1 DEF ToSet
  <1> QED BY <1>9, <1>10 DEF deps

-----------------------------------------------------------------------------
(* What the dispatcher makes of a plan and its packs.                         *)

(* What a graph gives to whom.                                                *)
LEMMA GraphOfOwners ==
  ASSUME NEW owner \in Owners
  PROVE  /\ DOMAIN Graph(owner).owned = ToSet(plan.roles)
         /\ \A r \in ToSet(plan.roles) :
              /\ r \in Writers =>
                   Graph(owner).owned[r] = OwnedBy(owner, r) \cup CreationScope(owner, r)
              /\ r \notin Writers => Graph(owner).owned[r] = {}
         /\ \A r \in Writers : \A f \in OwnedBy(owner, r) :
              f \in File /\ owner[f] = r /\ \E e \in packs[r] : e.file = f /\ Contracted(e)
         /\ \A r : CreationScope(owner, r) \subseteq {Scope}
         /\ \A r : CreationScope(owner, r) # {} => WritingSteps = {r}
  <1>1. \A f \in Claimed : f \in File /\ owner[f] \in Claims(f)
    BY DEF Owners, Best, Claimed
  <1>2. \A f : \A r \in Claims(f) : \E e \in packs[r] : e.file = f /\ Contracted(e)
    BY DEF Claims
  <1>3. \A r, f : f \in OwnedBy(owner, r) => f \in Claimed /\ owner[f] = r
    BY DEF OwnedBy
  <1>4. \A r : CreationScope(owner, r) \subseteq {Scope} /\ (CreationScope(owner, r) # {} => WritingSteps = {r})
    BY DEF CreationScope
  <1>5. Graph(owner).owned =
          [r \in ToSet(plan.roles) |-> IF r \in Writers
             THEN OwnedBy(owner, r) \cup CreationScope(owner, r) ELSE {}]
    BY DEF Graph
  <1> QED BY <1>1, <1>2, <1>3, <1>4, <1>5

(* The graph keeps writers apart.                                             *)
LEMMA GraphKeepsApart ==
  ASSUME NEW owner \in Owners, case \in Cases,
         plan.roles = Roles(case.ticket, case.project), plan.deps = Depends(plan.roles),
         NEW r \in ToSet(plan.roles), NEW q \in ToSet(plan.roles), r # q
  PROVE  /\ Graph(owner).wave[r] # Graph(owner).wave[q]
         /\ \A f \in Graph(owner).owned[r], g \in Graph(owner).owned[q] : ~Overlap(f, g)
  <1> DEFINE owns == Graph(owner).owned
  <1>1. Graph(owner).wave = Waves(plan.deps)
    BY DEF Graph
  <1>2. plan.roles \in Seq(RoleSet) /\ IsInjective(plan.roles)
    BY RolesOfAPlan
  <1>3. Graph(owner).wave[r] # Graph(owner).wave[q]
    BY <1>1, <1>2, ChainHasNoSharedWave
  <1>4. ASSUME NEW f \in owns[r], NEW g \in owns[q], Overlap(f, g) PROVE FALSE
    <2>1. r \in Writers /\ q \in Writers /\ r \in WritingSteps /\ q \in WritingSteps
      BY <1>4, GraphOfOwners DEF WritingSteps
    <2>2. CreationScope(owner, r) = {} /\ CreationScope(owner, q) = {}
      BY <2>1, GraphOfOwners
    <2>3. f \in OwnedBy(owner, r) /\ g \in OwnedBy(owner, q)
      <3>1. /\ owns[r] = OwnedBy(owner, r) \cup CreationScope(owner, r)
            /\ owns[q] = OwnedBy(owner, q) \cup CreationScope(owner, q)
        BY <2>1, GraphOfOwners
      <3> HIDE DEF owns
      <3> QED BY <1>4, <2>2, <3>1
    <2>4. /\ f \in File /\ g \in File /\ owner[f] = r /\ owner[g] = q
      BY <2>1, <2>3, GraphOfOwners
    <2>5. Scope \notin File
      BY PlanningAssumption
    <2>6. f # g
      <3>1. f = g => owner[f] = owner[g]
        OBVIOUS
      <3> QED BY <2>4, <3>1
    <2> QED BY <1>4, <2>4, <2>5, <2>6 DEF Overlap
  <1> QED BY <1>3, <1>4

(* The entries of a pack a writer may edit.                                   *)
LEMMA EntriesOfAPack ==
  ASSUME NEW t, NEW p, NEW r, NEW s, NEW force, NEW e \in Pack(t, p, r, s, force)
  PROVE  /\ e.data => t.data /\ r \in {"backend", "coordinator"}
         /\ e.named => e.file \in t.named
         /\ e.edit => \/ e.file \notin p.files
                      \/ t.data
                      \/ e.file \notin Related(p, t.named \cap Candidates(p)) \cap Candidates(p)
  <1> DEFINE chosen  == Chosen(t, p, r, s)
             created == Created(t, p, r, force)
             room    == Limit(t, p, r, VirtualTarget(t, p, r, force))
             usable  == SelectSeq(Ordered(t, p, chosen), LAMBDA f : f \notin Binary)
             some    == ToSet(SubSeq(usable, 1, Min({Len(usable), room - Cardinality(created)})))
             kept    == IF chosen = <<>> \/ Cardinality(created) >= room THEN {} ELSE some
             editing(f) == /\ r \in Writers /\ f \notin Dependencies(t, p, chosen)
                           /\ f \in t.named \/ MayEdit(f, r)
  <1>1. Pack(t, p, r, s, force) =
          {[file |-> f, edit |-> editing(f), named |-> f \in t.named,
            data |-> t.data /\ r \in {"backend", "coordinator"} /\ f \in DataModel] : f \in kept}
          \cup {[file |-> f, edit |-> TRUE, named |-> FALSE, data |-> FALSE] : f \in created}
    BY DEF Pack
  <1>2. \A f \in created : f \notin p.files
    BY DEF Created, VirtualTarget
  <1>3. ASSUME chosen # <<>>, ~t.data
        PROVE  Related(p, t.named \cap Candidates(p)) \cap Candidates(p)
                 \subseteq Dependencies(t, p, chosen)
    <2>1. CASE t.named \cap Candidates(p) = {}
      BY <2>1 DEF Related
    <2>2. CASE t.named \cap Candidates(p) # {}
      <3>1. Primary(t, p, chosen) = t.named \cap Candidates(p)
        BY <2>2 DEF Primary
      <3> HIDE DEF chosen
      <3> QED BY <1>3, <3>1 DEF Dependencies
    <2> QED BY <2>1, <2>2
  <1>4. kept # {} => chosen # <<>>
    OBVIOUS
  <1> HIDE DEF chosen, created, kept
  <1>5. CASE \E f \in kept :
               e = [file |-> f, edit |-> editing(f), named |-> f \in t.named,
                    data |-> t.data /\ r \in {"backend", "coordinator"} /\ f \in DataModel]
    <2>1. PICK f \in kept :
               e = [file |-> f, edit |-> editing(f), named |-> f \in t.named,
                    data |-> t.data /\ r \in {"backend", "coordinator"} /\ f \in DataModel]
      BY <1>5
    <2>2. /\ e.file = f /\ e.edit = editing(f) /\ e.named = (f \in t.named)
          /\ e.data = (t.data /\ r \in {"backend", "coordinator"} /\ f \in DataModel)
      BY <2>1
    <2>3. editing(f) => f \notin Dependencies(t, p, chosen)
      OBVIOUS
    <2> HIDE DEF editing
    <2> QED BY <1>3, <1>4, <2>2, <2>3
  <1>6. CASE \E f \in created : e = [file |-> f, edit |-> TRUE, named |-> FALSE, data |-> FALSE]
    BY <1>2, <1>6
  <1> QED BY <1>1, <1>5, <1>6

(* What the owned files of a step are, and what the graph keeps away from.    *)
LEMMA GraphIsBounded ==
  ASSUME NEW owner \in Owners, case \in Cases,
         NEW s, packs = [r \in ToSet(plan.roles) |-> Pack(case.ticket, case.project, r, s[r], forced)],
         ~ProtectedReached(Graph(owner)),
         NEW r \in ToSet(plan.roles)
  PROVE  LET owned == Graph(owner).owned[r]
             t == case.ticket  p == case.project
         IN /\ owned \cap DataModel \subseteq
                 IF t.data /\ r \in {"backend", "coordinator"} THEN DataModel ELSE t.named
            /\ ~t.data => owned \cap (Related(p, t.named \cap Candidates(p)) \cap p.files) = {}
            /\ \A f \in Protected(p), q \in owned \cup Graph(owner).reads[r] : ~Overlap(f, q)
  <1> DEFINE owned == Graph(owner).owned[r]
             t     == case.ticket
             p     == case.project
  <1>1. \A f \in Protected(p), q \in owned \cup Graph(owner).reads[r] : ~Overlap(f, q)
    <2>1. r \in DOMAIN Graph(owner).owned
      BY GraphOfOwners
    <2> QED BY <2>1 DEF ProtectedReached
  <1>2. \A f \in owned : r \in Writers /\ (f \in OwnedBy(owner, r) \/ f = Scope)
    BY GraphOfOwners
  <1>3. Scope \notin File /\ DataModel \subseteq File
    BY PlanningAssumption
  <1>4. ASSUME NEW f \in owned, f # Scope
        PROVE  \E e \in Pack(t, p, r, s[r], forced) : e.file = f /\ Contracted(e)
    <2>1. packs[r] = Pack(t, p, r, s[r], forced)
      OBVIOUS
    <2>2. r \in Writers /\ f \in OwnedBy(owner, r)
      BY <1>2, <1>4
    <2>3. \E e \in packs[r] : e.file = f /\ Contracted(e)
      BY <2>2, GraphOfOwners
    <2> QED BY <2>1, <2>3
  <1>5. ASSUME NEW f \in owned, f \in DataModel
        PROVE  f \in IF t.data /\ r \in {"backend", "coordinator"} THEN DataModel ELSE t.named
    <2>1. f # Scope
      BY <1>3, <1>5
    <2>2. PICK e \in Pack(t, p, r, s[r], forced) : e.file = f /\ Contracted(e)
      BY <1>4, <2>1
    <2>3. e.data \/ e.named
      BY <1>5, <2>2 DEF Contracted
    <2> QED BY <1>5, <2>2, <2>3, EntriesOfAPack
  <1>6. ASSUME ~t.data, NEW f \in owned, f \in Related(p, t.named \cap Candidates(p)), f \in p.files
        PROVE  FALSE
    <2>1. \A q \in Protected(p) : ~Overlap(q, f)
      BY <1>1
    <2>2. f \notin Protected(p)
      BY <2>1 DEF Overlap
    <2>3. f \in Candidates(p)
      BY <1>6, <2>2 DEF Protected, Candidates
    <2>4. f # Scope
      BY <1>3, <1>6, CasesAssumption
    <2>5. PICK e \in Pack(t, p, r, s[r], forced) : e.file = f /\ Contracted(e)
      BY <1>4, <2>4
    <2>6. e.edit
      BY <2>5 DEF Contracted
    <2> QED BY <1>6, <2>3, <2>5, <2>6, EntriesOfAPack
  <1> QED BY <1>1, <1>5, <1>6

(* Who writes in a graph in which no writer is without a file.                *)
LEMMA GraphHasWriters ==
  ASSUME NEW owner \in Owners, case \in Cases, plan.roles = Roles(case.ticket, case.project),
         ~ScopeMissing(Graph(owner))
  PROVE  LET writes == {r \in DOMAIN Graph(owner).owned : Graph(owner).owned[r] # {}}
         IN /\ case.ticket.kind = "audit" => writes = {}
            /\ Requested(case.ticket) /\ case.ticket.kind # "audit" => writes # {}
            /\ writes = ToSet(plan.roles) \cap Writers
  <1> DEFINE owns == Graph(owner).owned
  <1>1. DOMAIN owns = ToSet(plan.roles) /\ \A r \in ToSet(plan.roles) : r \notin Writers => owns[r] = {}
    BY GraphOfOwners
  <1>2. \A r \in ToSet(plan.roles) \cap Writers : owns[r] # {}
    BY DEF ScopeMissing, WritingSteps
  <1> HIDE DEF owns
  <1>3. {r \in DOMAIN owns : owns[r] # {}} = ToSet(plan.roles) \cap Writers
    BY <1>1, <1>2
  <1>4. /\ case.ticket.kind = "audit" => ToSet(plan.roles) \cap Writers = {}
        /\ Requested(case.ticket) /\ case.ticket.kind # "audit" => ToSet(plan.roles) \cap Writers # {}
    BY RolesOfAPlan
  <1> QED BY <1>3, <1>4 DEF owns

-----------------------------------------------------------------------------
(* The inductive invariant.  Until it is dispatched, a ticket has the plan    *)
(* its words call for and the packs selected for that plan, after a repair    *)
(* too: what the dispatcher may rely on when it gives files to writers.       *)

PlanIsDrafted ==
  phase \notin {"ready_for_planning", "refused"} =>
    plan = [roles |-> Roles(case.ticket, case.project),
            deps |-> Depends(Roles(case.ticket, case.project)), status |-> plan.status]

PacksAreBuilt ==
  phase \in {"selected", "locked"} =>
    \E s \in Scorings :
      packs = [r \in ToSet(plan.roles) |-> Pack(case.ticket, case.project, r, s[r], forced)]

PlanningInv ==
  /\ case \in Cases /\ PlanIsDrafted /\ PacksAreBuilt
  /\ WritersApart /\ OffLimits /\ ChangesHaveAWriter

LEMMA PlanningInvInit == Init => PlanningInv
  BY DEF Init, PlanningInv, PlanIsDrafted, PacksAreBuilt, WritersApart, OffLimits,
         ChangesHaveAWriter, Dispatched

LEMMA PlanningInvStep ==
  ASSUME PlanningInv, [Next]_vars
  PROVE  PlanningInv'
  <1> USE DEF PlanningInv
  <1>1. CASE GeneratePlan
    <2>1. case' = case /\ phase' \in {"refused", "planned"}
      BY <1>1 DEF GeneratePlan, Refuse
    <2>2. PlanIsDrafted'
      BY <1>1 DEF PlanIsDrafted, GeneratePlan, Refuse, DraftPlan
    <2> QED BY <2>1, <2>2 DEF PacksAreBuilt, WritersApart, OffLimits, ChangesHaveAWriter, Dispatched
  <1>2. CASE ApprovePlan
    <2>1. case' = case /\ phase' = "approved" /\ phase = "planned"
      BY <1>2 DEF ApprovePlan
    <2>2. PlanIsDrafted'
      BY <1>2, <2>1 DEF PlanIsDrafted, ApprovePlan
    <2> QED BY <2>1, <2>2 DEF PacksAreBuilt, WritersApart, OffLimits, ChangesHaveAWriter, Dispatched
  <1>3. CASE BuildContext
    <2>1. case' = case /\ plan' = plan /\ forced' = forced /\ phase' = "selected" /\ phase = "approved"
      BY <1>3 DEF BuildContext
    <2>2. PlanIsDrafted'
      BY <2>1 DEF PlanIsDrafted
    <2>3. PacksAreBuilt'
      BY <1>3, <2>1 DEF PacksAreBuilt, BuildContext
    <2> QED BY <2>1, <2>2, <2>3 DEF WritersApart, OffLimits, ChangesHaveAWriter, Dispatched
  <1>4. CASE BuildBudget
    <2>1. UNCHANGED <<case, plan, packs, forced>> /\ phase' = "locked" /\ phase = "selected"
      BY <1>4 DEF BuildBudget
    <2>2. PlanIsDrafted'
      BY <2>1 DEF PlanIsDrafted
    <2>3. PacksAreBuilt'
      BY <2>1 DEF PacksAreBuilt
    <2> QED BY <2>1, <2>2, <2>3 DEF WritersApart, OffLimits, ChangesHaveAWriter, Dispatched
  <1>5. CASE RepairScope
    <2>1. UNCHANGED <<case, plan>> /\ phase' = "approved" /\ phase = "locked"
      BY <1>5 DEF RepairScope, Dispatchable
    <2>2. PlanIsDrafted'
      BY <2>1 DEF PlanIsDrafted
    <2> QED BY <2>1, <2>2 DEF PacksAreBuilt, WritersApart, OffLimits, ChangesHaveAWriter, Dispatched
  <1>6. CASE RefuseGraph
    <2>1. case' = case /\ phase' = "refused"
      BY <1>6 DEF RefuseGraph, Refuse
    <2> QED BY <2>1 DEF PlanIsDrafted, PacksAreBuilt, WritersApart, OffLimits, ChangesHaveAWriter, Dispatched
  <1>7. CASE Dispatch
    <2>1. /\ UNCHANGED <<case, plan, packs, forced>>
          /\ phase' = "dispatched" /\ phase = "locked"
      BY <1>7 DEF Dispatch, Dispatchable
    <2>2. PICK owner \in Owners :
            /\ ~ScopeMissing(Graph(owner)) /\ ~ProtectedReached(Graph(owner))
            /\ graph' = Graph(owner)
      BY <1>7 DEF Dispatch
    <2>3. PlanIsDrafted' /\ PacksAreBuilt'
      BY <2>1 DEF PlanIsDrafted, PacksAreBuilt
    <2>4. plan.roles = Roles(case.ticket, case.project) /\ plan.deps = Depends(plan.roles)
      BY <2>1 DEF PlanIsDrafted
    <2>5. PICK s \in Scorings :
            packs = [r \in ToSet(plan.roles) |-> Pack(case.ticket, case.project, r, s[r], forced)]
      BY <2>1 DEF PacksAreBuilt
    <2>6. DOMAIN Graph(owner).owned = ToSet(plan.roles)
      BY GraphOfOwners
    <2>7. WritersApart'
      <3> SUFFICES ASSUME NEW r \in ToSet(plan.roles), NEW q \in ToSet(plan.roles), r # q
                   PROVE  /\ Graph(owner).wave[r] # Graph(owner).wave[q]
                          /\ \A f \in Graph(owner).owned[r], g \in Graph(owner).owned[q] : ~Overlap(f, g)
        BY <2>2, <2>6 DEF WritersApart
      <3> QED BY <2>4, GraphKeepsApart
    <2>8. OffLimits'
      <3> SUFFICES
            ASSUME NEW r \in ToSet(plan.roles)
            PROVE  LET owned == Graph(owner).owned[r]
                       t == case.ticket  p == case.project
                   IN /\ owned \cap DataModel \subseteq
                           IF t.data /\ r \in {"backend", "coordinator"} THEN DataModel ELSE t.named
                      /\ ~t.data => owned \cap (Related(p, t.named \cap Candidates(p)) \cap p.files) = {}
                      /\ \A f \in Protected(p), q \in owned \cup Graph(owner).reads[r] : ~Overlap(f, q)
        BY <2>1, <2>2, <2>6 DEF OffLimits
      <3> QED BY <2>2, <2>5, GraphIsBounded
    <2>9. ChangesHaveAWriter'
      BY <2>1, <2>2, <2>4, GraphHasWriters DEF ChangesHaveAWriter
    <2> QED BY <2>1, <2>3, <2>7, <2>8, <2>9
  <1>8. CASE UNCHANGED vars
    <2>1. UNCHANGED <<case, phase, plan, packs, forced, graph>>
      BY <1>8 DEF vars
    <2>2. WritersApart'
      BY <2>1 DEF WritersApart, Dispatched
    <2>3. OffLimits'
      BY <2>1 DEF OffLimits, Dispatched
    <2>4. ChangesHaveAWriter'
      BY <2>1 DEF ChangesHaveAWriter, Dispatched
    <2> QED BY <2>1, <2>2, <2>3, <2>4 DEF PlanIsDrafted, PacksAreBuilt
  <1> QED BY <1>1, <1>2, <1>3, <1>4, <1>5, <1>6, <1>7, <1>8 DEF Next

(* The inductive invariant holds of every ticket and project.                 *)
THEOREM PlanningHolds == Spec => []PlanningInv
  BY PlanningInvInit, PlanningInvStep, PTL DEF Spec

(* Whatever steps a plan left out, no two of its writers share a wave, and no *)
(* path is in the write scope of both (_build_steps, _execution_waves,        *)
(* _build_ownership).                                                         *)
THEOREM WritersApartHolds == Spec => []WritersApart
  <1>1. PlanningInv => WritersApart
    BY DEF PlanningInv
  <1> QED BY <1>1, PlanningHolds, PTL

(* No writer owns a data model nobody asked to change or named, a file that   *)
(* is only tied to the named ones, or, owned or read, a secret: for every     *)
(* classification of the files and every score (_build_pack,                  *)
(* _build_ownership, AgentRunGraph.validate).                                 *)
THEOREM OffLimitsHolds == Spec => []OffLimits
  <1>1. PlanningInv => OffLimits
    BY DEF PlanningInv
  <1> QED BY <1>1, PlanningHolds, PTL

(* An audit changes nothing, and a requested change is never dispatched       *)
(* without a writer or with a writer that has no file (_roles,                *)
(* build_agent_run_graph).                                                    *)
THEOREM ChangesHaveAWriterHolds == Spec => []ChangesHaveAWriter
  <1>1. PlanningInv => ChangesHaveAWriter
    BY DEF PlanningInv
  <1> QED BY <1>1, PlanningHolds, PTL
=============================================================================
