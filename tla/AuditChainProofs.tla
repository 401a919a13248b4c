--------------------------- MODULE AuditChainProofs ---------------------------
(***************************************************************************)
(* The audit log, for any number of threads, entries, rows and edits, and  *)
(* however many calls fail or processes die.                               *)
(*                                                                         *)
(*   - Until somebody edits the database from outside, the hash chain      *)
(*     verifies in every state (ChainNeverBreaks, from ChainInv alone).    *)
(*   - IInv is inductive with edits too.  What the three verifications     *)
(*     promise follows from it by the least row, or the least place of a   *)
(*     hash, at which a counterexample would differ (LeastNatural).        *)
(***************************************************************************)
EXTENDS AuditChain, FiniteSetTheorems, SequenceTheorems, WellFoundedInduction, TLAPS

(* The last hash of a typed log is a hash. *)
LEMMA LastHashType ==
    ASSUME rows \in Seq(Row)
    PROVE  LastHash \in Hash
<1>1. CASE rows = << >>
  BY <1>1 DEF LastHash, Genesis, Hash
<1>2. CASE rows # << >>
  <2>1. rows[Len(rows)] \in Row
    BY <1>2
  <2> QED
    BY <1>2, <2>1 DEF LastHash, Row
<1> QED
  BY <1>1, <1>2

(* A row chained onto the last hash extends a valid chain. *)
LEMMA ChainExtends ==
    ASSUME rows \in Seq(Row), FullScan, NEW r \in Row,
           r.hash = compute_row_hash(r.fields, LastHash),
           rows' = Append(rows, r)
    PROVE  rows' \in Seq(Row) /\ FullScan'
<1> DEFINE n == Len(rows)
<1>1. /\ n \in Nat /\ Len(rows') = n + 1 /\ rows'[n + 1] = r
      /\ \A i \in 1 .. n : rows'[i] = rows[i]
      /\ rows' \in Seq(Row)
  OBVIOUS
<1>2. n = 0 <=> rows = << >>
  OBVIOUS
<1>3. LastHash = IF n = 0 THEN Genesis ELSE rows[n].hash
  BY <1>2 DEF LastHash
<1>4. \A i \in 1 .. n :
        rows[i].hash = compute_row_hash(rows[i].fields, IF i = 1 THEN Genesis ELSE rows[i-1].hash)
  BY DEF FullScan, verify_chain_integrity
<1> HIDE DEF n
<1>5. ASSUME NEW i \in 1 .. (n + 1)
      PROVE  rows'[i].hash = compute_row_hash(rows'[i].fields,
                                 IF i = 1 THEN Genesis ELSE rows'[i-1].hash)
  <2>1. CASE i = n + 1
    <3>1. CASE n = 0
      BY <1>1, <1>3, <2>1, <3>1
    <3>2. CASE n # 0
      <4>1. i - 1 = n /\ n \in 1 .. n /\ i # 1
        BY <1>1, <2>1, <3>2
      <4> QED
        BY <1>1, <1>3, <2>1, <3>2, <4>1
    <3> QED
      BY <3>1, <3>2
  <2>2. CASE i # n + 1
    <3>1. i \in 1 .. n /\ (i # 1 => i - 1 \in 1 .. n)
      BY <1>1, <2>2
    <3> QED
      BY <1>1, <1>4, <3>1
  <2> QED
    BY <2>1, <2>2
<1>6. \A i \in 0 + 1 .. Len(rows') :
        rows'[i].hash = Append(IF i = 0 + 1 THEN Genesis ELSE rows'[i-1].hash,
                               rows'[i].fields)
  BY <1>1, <1>5 DEF compute_row_hash
<1> QED
  BY <1>1, <1>6 DEF FullScan, verify_chain_integrity, compute_row_hash

(* Edits are never undone. *)
LEMMA EditsStay ==
    ASSUME ChainInv, [Next]_vars
    PROVE  /\ edits' \in Nat
           /\ edits' = 0 => /\ edits = 0
                            /\ \/ \E w \in Writer : \/ Call(w) \/ Chain(w) \/ Insert(w)
                                                    \/ Commit(w) \/ Fail(w)
                               \/ Crash
                               \/ UNCHANGED <<rows, txn, lock, pc, entry, prev>>
<1>0. edits \in Nat
  BY DEF ChainInv
<1>1. ASSUME NEW i \in DOMAIN rows, NEW e \in Entry, NaiveEdit(i, e) \/ Rewrite(i, e)
      PROVE  edits' \in Nat /\ edits' # 0
  BY <1>0, <1>1 DEF NaiveEdit, Rewrite
<1>2. ASSUME NEW w \in Writer, Call(w) \/ Chain(w) \/ Insert(w) \/ Commit(w) \/ Fail(w)
      PROVE  edits' = edits
  BY <1>2 DEF Call, Chain, Insert, Commit, Fail, editVars
<1>3. CASE Crash \/ ScanStart \/ ScanLine \/ ScanEnd \/ UNCHANGED vars
  BY <1>0, <1>3 DEF Crash, ScanStart, ScanLine, ScanEnd, vars, editVars, writerVars
<1> QED
  BY <1>0, <1>1, <1>2, <1>3 DEF Next

(* One step keeps the inductive invariant. *)
LEMMA ChainInvStep ==
    ASSUME ChainInv, [Next]_vars
    PROVE  ChainInv'
<1> SUFFICES ASSUME edits' = 0 PROVE ChainInv'
  BY EditsStay DEF ChainInv
<1>0. /\ edits' \in Nat /\ edits = 0
      /\ \/ \E w \in Writer : Call(w) \/ Chain(w) \/ Insert(w) \/ Commit(w) \/ Fail(w)
         \/ Crash
         \/ UNCHANGED <<rows, txn, lock, pc, entry, prev>>
  BY EditsStay
<1>i. /\ rows \in Seq(Row) /\ FullScan
      /\ pc \in [Writer -> {"idle", "called", "chained", "inserted"}]
      /\ entry \in [Writer -> Entry] /\ prev \in [Writer -> Hash]
      /\ \A w \in Writer :
          /\ pc[w] \in {"chained", "inserted"} => lock = w /\ prev[w] = LastHash
          /\ pc[w] = "inserted" =>
               txn = [fields |-> entry[w], prev |-> prev[w],
                      hash |-> compute_row_hash(entry[w], prev[w])]
  BY <1>0 DEF ChainInv
<1>s. rows' = rows => rows' \in Seq(Row) /\ FullScan' /\ LastHash' = LastHash
  BY <1>i DEF FullScan, verify_chain_integrity, compute_row_hash, LastHash
<1>1. ASSUME NEW w \in Writer, Call(w) PROVE ChainInv'
  BY <1>0, <1>i, <1>s, <1>1 DEF Call, ChainInv, compute_row_hash
<1>2. ASSUME NEW w \in Writer, Chain(w) PROVE ChainInv'
  <2>1. LastHash \in Hash
    BY <1>i, LastHashType
  <2>2. \A u \in Writer : pc[u] \notin {"chained", "inserted"} \/ u = Free
    BY <1>2, <1>i DEF Chain
  <2>3. \A u \in Writer : pc[u] \notin {"chained", "inserted"}
    BY <2>2, NobodyAssumption
  <2> QED
    BY <1>0, <1>i, <1>s, <1>2, <2>1, <2>3 DEF Chain, ChainInv, compute_row_hash
<1>3. ASSUME NEW w \in Writer, Insert(w) PROVE ChainInv'
  <2>1. /\ pc[w] = "chained" /\ pc' = [pc EXCEPT ![w] = "inserted"]
        /\ txn' = [fields |-> entry[w], prev |-> prev[w],
                   hash |-> compute_row_hash(entry[w], prev[w])]
        /\ UNCHANGED <<rows, lock, entry, prev>>
    BY <1>3 DEF Insert
  <2>2. \A u \in Writer : u # w => pc[u] # "inserted"
    BY <1>i, <2>1
  <2> QED
    BY <1>0, <1>i, <1>s, <2>1, <2>2 DEF ChainInv, compute_row_hash
<1>4. ASSUME NEW w \in Writer, Commit(w) PROVE ChainInv'
  <2>1. /\ pc[w] = "inserted" /\ pc' = [pc EXCEPT ![w] = "idle"]
        /\ rows' = Append(rows, txn) /\ UNCHANGED <<entry, prev>>
    BY <1>4 DEF Commit
  <2>2. /\ txn = [fields |-> entry[w], prev |-> prev[w],
                  hash |-> compute_row_hash(entry[w], prev[w])]
        /\ lock = w /\ prev[w] = LastHash
    BY <1>i, <2>1
  <2>3. txn \in Row /\ txn.hash = compute_row_hash(txn.fields, LastHash)
    <3>1. entry[w] \in Entry /\ prev[w] \in Hash
      BY <1>i
    <3>2. compute_row_hash(entry[w], prev[w]) \in Hash
      BY <3>1 DEF compute_row_hash, Hash
    <3> QED
      BY <2>2, <3>1, <3>2 DEF Row
  <2>4. rows' \in Seq(Row) /\ FullScan'
    BY <1>i, <2>1, <2>3, ChainExtends
  <2>5. \A u \in Writer : pc'[u] \notin {"chained", "inserted"}
    BY <1>i, <2>1, <2>2
  <2> QED
    BY <1>0, <1>i, <2>1, <2>4, <2>5 DEF ChainInv
<1>5. ASSUME NEW w \in Writer, Fail(w) PROVE ChainInv'
  <2>1. \A u \in Writer : u # w => pc[u] \notin {"chained", "inserted"}
    BY <1>5, <1>i DEF Fail
  <2>2. /\ pc' = [pc EXCEPT ![w] = "idle"] /\ UNCHANGED <<rows, entry, prev>>
    BY <1>5 DEF Fail
  <2>3. \A u \in Writer : pc'[u] \notin {"chained", "inserted"}
    BY <1>i, <2>1, <2>2
  <2> QED
    BY <1>0, <1>i, <1>s, <2>2, <2>3 DEF ChainInv
<1>6. CASE Crash
  <2>1. pc' = [w \in Writer |-> "idle"] /\ UNCHANGED <<rows, entry, prev>>
    BY <1>6 DEF Crash
  <2> QED
    BY <1>0, <1>i, <1>s, <2>1 DEF ChainInv
<1>7. CASE UNCHANGED <<rows, txn, lock, pc, entry, prev>>
  BY <1>0, <1>i, <1>s, <1>7 DEF ChainInv, compute_row_hash
<1> QED
  BY <1>0, <1>1, <1>2, <1>3, <1>4, <1>5, <1>6, <1>7

(* No interleaving, failure or crash breaks the chain. *)
THEOREM ChainNeverBreaks == Spec => []ChainUnbroken
<1>1. Init => ChainInv
  BY DEF Init, ChainInv, FullScan, verify_chain_integrity, Genesis, Hash
<1>2. ChainInv /\ [Next]_vars => ChainInv'
  BY ChainInvStep
<1>3. ChainInv => ChainUnbroken
  BY DEF ChainInv, ChainUnbroken
<1> QED
  BY <1>1, <1>2, <1>3, PTL DEF Spec

-----------------------------------------------------------------------------
(***************************************************************************)
(* Facts about numbers and hashes.                                         *)
(***************************************************************************)

(* A set of naturals has a least one: what inductions over rows rest on.   *)
LEMMA LeastNatural ==
    ASSUME NEW T \in SUBSET Nat, T # {}
    PROVE  \E x \in T : \A y \in T : x <= y
<1> DEFINE R == OpToRel(<, Nat)
<1>1. IsWellFoundedOn(R, Nat)
  BY NatLessThanWellFounded
<1>2. \A x, y \in Nat : <<y, x>> \in R <=> y < x
  BY DEF OpToRel
<1> HIDE DEF R
<1>3. PICK x \in T : \A y \in T : ~(<<y, x>> \in R)
  BY <1>1, WFMin
<1>4. x \in Nat /\ \A y \in T : y \in Nat /\ ~(y < x)
  BY <1>2, <1>3, Zenon
<1>5. \A y \in T : x <= y
  BY <1>4
<1> QED
  BY <1>5, Zenon

LEMMA RowParts ==
    ASSUME NEW r \in Row
    PROVE  r.fields \in Entry /\ r.prev \in Hash /\ r.hash \in Hash
BY DEF Row

LEMMA RowsParts ==
    ASSUME rows \in Seq(Row), NEW i \in 1 .. Len(rows)
    PROVE  rows[i] \in Row /\ rows[i].fields \in Entry /\ rows[i].hash \in Hash
<1>1. rows[i] \in Row
  OBVIOUS
<1> QED
  BY <1>1, RowParts

LEMMA RecordParts ==
    ASSUME file \in Seq(Record)
    PROVE  \A k \in DOMAIN file : file[k].row \in Nat /\ file[k].hash \in Hash
<1>1. \A k \in DOMAIN file : file[k] \in Record
  OBVIOUS
<1>2. \A r \in Record : r.row \in Nat /\ r.hash \in Hash
  BY DEF Record
<1> QED
  BY <1>1, <1>2, Zenon

(* A hash ends with the fields it was computed from.                       *)
LEMMA HashSaysFields ==
    ASSUME NEW h \in Hash, NEW e \in Entry
    PROVE  /\ compute_row_hash(e, h) \in Hash /\ compute_row_hash(e, h) # << >>
           /\ Len(compute_row_hash(e, h)) = Len(h) + 1
           /\ Newest(compute_row_hash(e, h)) = e
           /\ \A i \in 1 .. Len(h) : compute_row_hash(e, h)[i] = h[i]
BY DEF compute_row_hash, Hash, Newest

(* In a chain that verifies, a row's hash says what every row up to it     *)
(* says: the least row of which this is wrong has a predecessor of which   *)
(* it is right.                                                            *)
LEMMA HashSaysAll ==
    ASSUME rows \in Seq(Row), FullScan
    PROVE  \A j \in 1 .. Len(rows) :
              /\ Len(rows[j].hash) = j
              /\ \A i \in 1 .. j : rows[j].hash[i] = rows[i].fields
<1> DEFINE Says(j) == /\ Len(rows[j].hash) = j
                      /\ \A i \in 1 .. j : rows[j].hash[i] = rows[i].fields
           Bad == {j \in 1 .. Len(rows) : ~Says(j)}
<1>1. SUFFICES ASSUME Bad # {} PROVE FALSE
  BY Zenon
<1>2. Bad \in SUBSET Nat
  OBVIOUS
<1>3. PICK x \in Bad : \A y \in Bad : x <= y
  <2> HIDE DEF Bad
  <2> QED BY <1>1, <1>2, LeastNatural
<1>4. x \in 1 .. Len(rows) /\ ~Says(x)
  OBVIOUS
<1>5. rows[x].fields \in Entry
  BY <1>4, RowsParts
<1>6. rows[x].hash = compute_row_hash(rows[x].fields,
                                      IF x = 1 THEN Genesis ELSE rows[x - 1].hash)
  BY <1>4 DEF FullScan, verify_chain_integrity
<1>7. CASE x = 1
  <2>1. Genesis \in Hash /\ Len(Genesis) = 0
    BY DEF Genesis, Hash
  <2>2. rows[x].hash = compute_row_hash(rows[x].fields, Genesis)
    BY <1>6, <1>7
  <2>3. Len(rows[x].hash) = 1 /\ rows[x].hash[1] = rows[x].fields
    <3> DEFINE h == compute_row_hash(rows[x].fields, Genesis)
    <3>1. Len(h) = Len(Genesis) + 1 /\ Newest(h) = rows[x].fields
      BY <1>5, <2>1, HashSaysFields, Zenon
    <3> HIDE DEF h
    <3>2. Len(h) = 1
      BY <2>1, <3>1
    <3>3. h[1] = rows[x].fields
      BY <3>1, <3>2, Zenon DEF Newest
    <3> QED
      BY <2>2, <3>2, <3>3, Zenon DEF h
  <2> QED
    BY <1>4, <1>7, <2>3
<1>8. CASE x # 1
  <2> DEFINE y == x - 1
  <2>1. y \in 1 .. Len(rows) /\ y \in Nat /\ x = y + 1 /\ ~(x <= y)
    BY <1>4, <1>8
  <2>2. Says(y)
    BY <1>3, <2>1
  <2>3. rows[y].hash \in Hash
    BY <2>1, RowsParts
  <2>4. rows[x].hash = compute_row_hash(rows[x].fields, rows[y].hash)
    BY <1>6, <1>8
  <2> HIDE DEF y
  <2>5. /\ Len(rows[x].hash) = y + 1 /\ rows[x].hash[y + 1] = rows[x].fields
        /\ \A i \in 1 .. y : rows[x].hash[i] = rows[y].hash[i]
    <3> DEFINE h == compute_row_hash(rows[x].fields, rows[y].hash)
    <3>1. /\ Len(h) = Len(rows[y].hash) + 1 /\ Newest(h) = rows[x].fields
          /\ \A i \in 1 .. Len(rows[y].hash) : h[i] = rows[y].hash[i]
      BY <1>5, <2>3, HashSaysFields
    <3>2. Len(rows[y].hash) = y
      BY <2>2
    <3> HIDE DEF h
    <3>3. Len(h) = y + 1 /\ h[y + 1] = rows[x].fields /\ \A i \in 1 .. y : h[i] = rows[y].hash[i]
      BY <3>1, <3>2, Zenon DEF Newest
    <3> QED
      BY <2>4, <3>3 DEF h
  <2>6. \A i \in 1 .. x : i \in 1 .. y \/ i = y + 1
    BY <2>1
  <2>7. Says(x)
    BY <2>1, <2>2, <2>5, <2>6
  <2> QED
    BY <1>4, <2>7
<1> QED
  BY <1>7, <1>8

(* Inserting keeps lost records apart from the one that is due.            *)
LEMMA LostIsFinite ==
    ASSUME file \in Seq(Record)
    PROVE  IsFiniteSet(Lost) /\ Cardinality(Lost) \in Nat
<1>1. Lost \subseteq 1 .. Len(file) /\ Len(file) \in Nat
  BY DEF Lost
<1>2. IsFiniteSet(1 .. Len(file))
  BY <1>1, FS_Interval
<1>3. IsFiniteSet(Lost)
  BY <1>1, <1>2, FS_Subset
<1> QED
  BY <1>3, FS_CardinalityType

LEMMA LostShrinks ==
    ASSUME file \in Seq(Record), LostToFaults, Lost' \subseteq Lost,
           faults \in Nat, faults' \in Nat, faults' >= faults, edits' = edits
    PROVE  LostToFaults'
<1>1. IsFiniteSet(Lost) /\ Cardinality(Lost) \in Nat
  BY LostIsFinite
<1>2. IsFiniteSet(Lost') /\ Cardinality(Lost') <= Cardinality(Lost)
  BY <1>1, FS_Subset
<1>3. Cardinality(Lost') \in Nat
  BY <1>2, FS_CardinalityType
<1> QED
  BY <1>1, <1>2, <1>3 DEF LostToFaults

-----------------------------------------------------------------------------
(***************************************************************************)
(* The inductive invariant, action by action.                              *)
(***************************************************************************)

(* Whoever is under the lock is there alone, and an open transaction is    *)
(* that of a row inserted under it.                                        *)
LEMMA UnderTheLock ==
    ASSUME OneTransaction, NEW w \in Writer, pc[w] \in {"chained", "inserted"}
    PROVE  /\ \A u \in Writer : u # w => pc[u] \notin {"chained", "inserted"}
           /\ pc[w] = "chained" => txn = NoRow
BY DEF OneTransaction

LEMMA NoTransaction ==
    ASSUME OneTransaction, lock = Free \/ txn = NoRow
    PROVE  txn = NoRow
BY NobodyAssumption DEF OneTransaction

(* Steps that leave the log alone keep what the invariant says of it.      *)
LEMMA LogUntouched ==
    ASSUME IInv, UNCHANGED <<rows, file, txn, faults, original, editVars, honest>>
    PROVE  RowsKept' /\ RecordsKept' /\ HonestSay' /\ LostToFaults'
<1>1. UNCHANGED <<rows, file, txn, faults, original, edits, rewrites, honest>>
  BY DEF editVars
<1>2. RowsKept' /\ HonestSay'
  BY <1>1 DEF IInv, RowsKept, HonestSay, Newest
<1>3. RecordsKept'
  BY <1>1 DEF IInv, RecordsKept, Due, Newest
<1>4. Lost' = Lost
  BY <1>1 DEF Lost, Matches, Due
<1>5. LostToFaults'
  BY <1>1, <1>4 DEF IInv, LostToFaults
<1> QED
  BY <1>2, <1>3, <1>5, Zenon

(* The scan has nothing to fear from a step that leaves rows, records and  *)
(* edits alone.                                                            *)
LEMMA ScanUntouched ==
    ASSUME ScanTrue, UNCHANGED <<rows, file, scan, edits>>
    PROVE  ScanTrue'
BY DEF ScanTrue, Matches

LEMMA StutterStep ==
    ASSUME IInv, UNCHANGED vars
    PROVE  TypeOK' /\ OneTransaction' /\ RowsKept' /\ RecordsKept' /\ HonestSay' /\ LostToFaults'
           /\ ScanTrue'
<1>1. UNCHANGED <<rows, file, txn, faults, original, editVars, honest>>
      /\ UNCHANGED <<rows, file, lock, txn, pc, entry, prev, scan, faults, original, edits,
                     rewrites, honest>>
  BY DEF vars, writerVars, editVars
<1>2. RowsKept' /\ RecordsKept' /\ HonestSay' /\ LostToFaults'
  BY <1>1, LogUntouched
<1>3. TypeOK'
  BY <1>1 DEF IInv, TypeOK
<1>4. OneTransaction'
  BY <1>1 DEF IInv, OneTransaction, compute_row_hash
<1>5. ScanTrue'
  BY <1>1, ScanUntouched DEF IInv
<1> QED
  BY <1>2, <1>3, <1>4, <1>5, Zenon

LEMMA CallStep ==
    ASSUME IInv, NEW w \in Writer, Call(w)
    PROVE  TypeOK' /\ OneTransaction' /\ RowsKept' /\ RecordsKept' /\ HonestSay' /\ LostToFaults'
           /\ ScanTrue'
<1>1. RowsKept' /\ RecordsKept' /\ HonestSay' /\ LostToFaults'
  BY LogUntouched DEF Call
<1>2. TypeOK'
  BY DEF Call, IInv, TypeOK, editVars
<1>3. OneTransaction'
  BY DEF Call, IInv, TypeOK, OneTransaction, compute_row_hash
<1>4. ScanTrue'
  BY ScanUntouched DEF Call, IInv, editVars
<1> QED
  BY <1>1, <1>2, <1>3, <1>4, Zenon

LEMMA ChainStep ==
    ASSUME IInv, NEW w \in Writer, Chain(w)
    PROVE  TypeOK' /\ OneTransaction' /\ RowsKept' /\ RecordsKept' /\ HonestSay' /\ LostToFaults'
           /\ ScanTrue'
<1>1. RowsKept' /\ RecordsKept' /\ HonestSay' /\ LostToFaults'
  BY LogUntouched DEF Chain
<1>2. LastHash \in Hash
  BY LastHashType DEF IInv, TypeOK
<1>3. TypeOK'
  BY <1>2 DEF Chain, IInv, TypeOK, editVars
<1>4. OneTransaction'
  <2>1. OneTransaction /\ lock = Free /\ txn' = txn
    BY DEF Chain, IInv
  <2>2. txn' = NoRow
    BY <2>1, NoTransaction
  <2>3. \A u \in Writer : pc[u] \notin {"chained", "inserted"}
    BY <2>1, NobodyAssumption DEF OneTransaction
  <2> QED
    BY <2>2, <2>3 DEF Chain, IInv, TypeOK, OneTransaction
<1>5. ScanTrue'
  BY ScanUntouched DEF Chain, IInv, editVars
<1> QED
  BY <1>1, <1>3, <1>4, <1>5, Zenon

LEMMA ScanSteps ==
    ASSUME IInv, ScanStart \/ ScanLine \/ ScanEnd
    PROVE  TypeOK' /\ OneTransaction' /\ RowsKept' /\ RecordsKept' /\ HonestSay' /\ LostToFaults'
           /\ ScanTrue'
<1>1. UNCHANGED <<rows, file, writerVars, faults, original, editVars, honest>>
  BY DEF ScanStart, ScanLine, ScanEnd
<1>2. UNCHANGED <<rows, file, lock, txn, pc, entry, prev, faults, original, edits, rewrites,
                  honest>>
  BY <1>1 DEF writerVars, editVars
<1>3. RowsKept' /\ RecordsKept' /\ HonestSay' /\ LostToFaults'
  BY <1>1, <1>2, LogUntouched
<1>4. OneTransaction'
  BY <1>2 DEF IInv, OneTransaction, compute_row_hash
<1>5. scan \in [verdict : {"none", "running", "clean", "broken"}, at : Nat, since : Nat]
      /\ edits \in Nat /\ file \in Seq(Record) /\ ScanTrue
  BY DEF IInv, TypeOK
<1>6. scan' \in [verdict : {"none", "running", "clean", "broken"}, at : Nat, since : Nat]
  BY <1>5 DEF ScanStart, ScanLine, ScanEnd
<1>7. TypeOK'
  BY <1>2, <1>6 DEF IInv, TypeOK
<1>8. ScanTrue'
  <2>1. \A k : Matches(file[k])' <=> Matches(file[k])
    BY <1>2 DEF Matches
  <2>2. CASE ScanStart
    BY <1>2, <1>5, <2>2 DEF ScanStart, ScanTrue
  <2>3. CASE ScanLine
    BY <1>2, <1>5, <2>1, <2>3 DEF ScanLine, ScanTrue
  <2>4. CASE ScanEnd
    BY <1>2, <1>5, <2>1, <2>4 DEF ScanEnd, ScanTrue
  <2> QED
    BY <2>2, <2>3, <2>4
<1> QED
  BY <1>3, <1>4, <1>7, <1>8, Zenon

(* A transaction rolled back loses at most the record that was due, and    *)
(* costs a fault.                                                          *)
LEMMA RollBack ==
    ASSUME IInv, UNCHANGED <<rows, file, original, editVars, honest>>,
           txn' = NoRow, faults' = faults + 1
    PROVE  RowsKept' /\ RecordsKept' /\ HonestSay' /\ LostToFaults'
<1>1. UNCHANGED <<rows, file, original, edits, rewrites, honest>>
  BY DEF editVars
<1>2. RowsKept' /\ HonestSay'
  BY <1>1 DEF IInv, RowsKept, HonestSay, Newest
<1>3. RecordsKept'
  BY <1>1 DEF IInv, RecordsKept, Due
<1>4. LostToFaults'
  <2>1. file \in Seq(Record) /\ faults \in Nat /\ LostToFaults
    BY DEF IInv, TypeOK
  <2>2. Lost' \subseteq Lost \cup {Len(file)}
    BY <1>1 DEF Lost, Matches, Due
  <2>3. IsFiniteSet(Lost) /\ Cardinality(Lost) \in Nat
    BY <2>1, LostIsFinite
  <2>4. /\ IsFiniteSet(Lost \cup {Len(file)})
        /\ Cardinality(Lost \cup {Len(file)}) = Cardinality(Lost)
           \/ Cardinality(Lost \cup {Len(file)}) = Cardinality(Lost) + 1
    BY <2>3, FS_AddElement
  <2>5. Cardinality(Lost \cup {Len(file)}) \in Nat
    BY <2>4, FS_CardinalityType
  <2>6. /\ IsFiniteSet(Lost')
        /\ Cardinality(Lost') <= Cardinality(Lost \cup {Len(file)})
    BY <2>2, <2>4, FS_Subset
  <2>7. Cardinality(Lost') \in Nat
    BY <2>6, FS_CardinalityType
  <2>8. Cardinality(Lost') <= Cardinality(Lost) + 1
    BY <2>3, <2>4, <2>5, <2>6, <2>7
  <2>9. edits = 0 => Cardinality(Lost) <= faults
    BY <2>1 DEF LostToFaults
  <2>10. edits' = 0 => Cardinality(Lost') <= faults'
    BY <1>1, <2>1, <2>3, <2>7, <2>8, <2>9
  <2> QED
    BY <2>10 DEF LostToFaults
<1> QED
  BY <1>2, <1>3, <1>4, Zenon

LEMMA FailStep ==
    ASSUME IInv, NEW w \in Writer, Fail(w)
    PROVE  TypeOK' /\ OneTransaction' /\ RowsKept' /\ RecordsKept' /\ HonestSay' /\ LostToFaults'
           /\ ScanTrue'
<1>1. OneTransaction /\ ScanTrue /\ TypeOK
  BY DEF IInv
<1>2. /\ \A u \in Writer : u # w => pc[u] \notin {"chained", "inserted"}
      /\ pc[w] = "chained" => txn = NoRow
  BY <1>1, UnderTheLock DEF Fail
<1>3. txn' = NoRow
  BY <1>2 DEF Fail
<1>4. RowsKept' /\ RecordsKept' /\ HonestSay' /\ LostToFaults'
  BY <1>3, RollBack DEF Fail
<1>5. TypeOK'
  BY <1>1, <1>3 DEF Fail, TypeOK, editVars
<1>6. OneTransaction'
  BY <1>1, <1>2, <1>3 DEF Fail, TypeOK, OneTransaction
<1>7. ScanTrue'
  BY <1>1, ScanUntouched DEF Fail, editVars
<1> QED
  BY <1>4, <1>5, <1>6, <1>7, Zenon

LEMMA CrashStep ==
    ASSUME IInv, Crash
    PROVE  TypeOK' /\ OneTransaction' /\ RowsKept' /\ RecordsKept' /\ HonestSay' /\ LostToFaults'
           /\ ScanTrue'
<1>1. RowsKept' /\ RecordsKept' /\ HonestSay' /\ LostToFaults'
  BY RollBack DEF Crash
<1>2. TypeOK /\ edits \in Nat
  BY DEF IInv, TypeOK
<1>3. TypeOK'
  BY <1>2 DEF Crash, TypeOK, editVars, NoScan
<1>4. OneTransaction'
  BY DEF Crash, OneTransaction
<1>5. ScanTrue'
  BY <1>2 DEF Crash, ScanTrue, NoScan, editVars
<1> QED
  BY <1>1, <1>3, <1>4, <1>5, Zenon

(* Until the first edit, the hash of the next row says what every row said.*)
LEMMA NextHashSays ==
    ASSUME IInv, edits = 0, NEW e \in Entry
    PROVE  /\ Len(compute_row_hash(e, LastHash)) = Len(rows) + 1
           /\ \A i \in 1 .. Len(rows) : compute_row_hash(e, LastHash)[i] = original[i]
<1> DEFINE n == Len(rows)
<1>1. rows \in Seq(Row) /\ FullScan /\ \A i \in 1 .. n : rows[i].fields = original[i]
  BY DEF IInv, TypeOK, ChainInv, RowsKept
<1>2. LastHash \in Hash
  BY <1>1, LastHashType
<1>3. /\ Len(compute_row_hash(e, LastHash)) = Len(LastHash) + 1
      /\ \A i \in 1 .. Len(LastHash) : compute_row_hash(e, LastHash)[i] = LastHash[i]
  BY <1>2, HashSaysFields, Zenon
<1>4. n \in Nat /\ (rows = << >> <=> n = 0)
  BY <1>1
<1>5. \A j \in 1 .. n : Len(rows[j].hash) = j /\ \A i \in 1 .. j : rows[j].hash[i] = rows[i].fields
  BY <1>1, HashSaysAll
<1>6. Len(LastHash) = n /\ \A i \in 1 .. n : LastHash[i] = rows[i].fields
  <2>1. CASE n = 0
    BY <1>4, <2>1 DEF LastHash, Genesis
  <2>2. CASE n # 0
    <3>1. LastHash = rows[n].hash
      BY <1>4, <2>2 DEF LastHash
    <3>2. n \in 1 .. n
      BY <1>4, <2>2
    <3> QED
      BY <1>5, <3>1, <3>2
  <2> QED
    BY <2>1, <2>2
<1> QED
  BY <1>1, <1>3, <1>6

(* What a thread under the lock inserts is a row of the log.               *)
LEMMA InsertedRow ==
    ASSUME IInv, NEW w \in Writer
    PROVE  /\ [fields |-> entry[w], prev |-> prev[w],
               hash |-> compute_row_hash(entry[w], prev[w])] \in Row
           /\ compute_row_hash(entry[w], prev[w]) \in Hash
           /\ compute_row_hash(entry[w], prev[w]) # << >>
           /\ Newest(compute_row_hash(entry[w], prev[w])) = entry[w]
<1>1. entry[w] \in Entry /\ prev[w] \in Hash
  BY DEF IInv, TypeOK
<1>2. /\ compute_row_hash(entry[w], prev[w]) \in Hash
      /\ compute_row_hash(entry[w], prev[w]) # << >>
      /\ Newest(compute_row_hash(entry[w], prev[w])) = entry[w]
  BY <1>1, HashSaysFields
<1> QED
  BY <1>1, <1>2 DEF Row

LEMMA FileGrows ==
    ASSUME file \in Seq(Record), NEW r \in Record, file' = Append(file, r)
    PROVE  /\ file' \in Seq(Record) /\ Len(file) \in Nat
           /\ Len(file') = Len(file) + 1 /\ DOMAIN file' = 1 .. Len(file) + 1
           /\ DOMAIN file = 1 .. Len(file)
           /\ file'[Len(file) + 1] = r
           /\ \A k \in 1 .. Len(file) : file'[k] = file[k]
OBVIOUS

(* An insert that writes no record. *)
LEMMA InsertStepPlain ==
    ASSUME IInv, NEW w \in Writer, Insert(w), (Len(rows) + 1) % Interval # 0
    PROVE  file' = file /\ RecordsKept' /\ HonestSay' /\ LostToFaults' /\ ScanTrue'
           /\ honest' \subseteq DOMAIN file'
<1>1. /\ UNCHANGED <<rows, file, original, edits, rewrites, honest, scan, faults>>
      /\ txn = NoRow
  BY DEF Insert, Checkpoint, editVars
<1>2. RecordsKept'
  BY <1>1 DEF IInv, RecordsKept, Due
<1>3. HonestSay'
  BY <1>1 DEF IInv, HonestSay
<1>4. Lost' = Lost
  BY <1>1 DEF Lost, Matches, Due
<1>5. LostToFaults'
  BY <1>1, <1>4 DEF IInv, LostToFaults
<1>6. ScanTrue'
  BY <1>1, ScanUntouched DEF IInv
<1>7. honest' \subseteq DOMAIN file'
  BY <1>1 DEF IInv, TypeOK
<1> QED
  BY <1>1, <1>2, <1>3, <1>5, <1>6, <1>7, Zenon

(* An insert that writes the checkpoint of its row. *)
LEMMA InsertStepRecord ==
    ASSUME IInv, NEW w \in Writer, Insert(w), (Len(rows) + 1) % Interval = 0
    PROVE  file' \in Seq(Record) /\ RecordsKept' /\ HonestSay' /\ LostToFaults' /\ ScanTrue'
           /\ honest' \subseteq DOMAIN file'
<1> DEFINE n == Len(rows)
           m == Len(file)
           h == compute_row_hash(entry[w], prev[w])
           r == [row |-> n + 1, hash |-> h]
<1>1. /\ UNCHANGED <<rows, original, edits, rewrites, scan, faults>>
      /\ txn = NoRow /\ txn' = [fields |-> entry[w], prev |-> prev[w], hash |-> h]
      /\ file' = Append(file, r) /\ pc[w] = "chained"
      /\ honest' = IF edits = 0 THEN honest \cup {m + 1} ELSE honest
  BY DEF Insert, Checkpoint, editVars
<1>2. /\ rows \in Seq(Row) /\ file \in Seq(Record) /\ n \in Nat /\ DOMAIN rows = 1 .. n
      /\ honest \subseteq 1 .. m /\ edits \in Nat /\ entry[w] \in Entry
      /\ scan.at \in Nat
  BY DEF IInv, TypeOK
<1>3. h \in Hash /\ h # << >> /\ txn' \in Row
  BY <1>1, InsertedRow
<1>4. r \in Record
  BY <1>2, <1>3 DEF Record
<1>5. /\ file' \in Seq(Record) /\ m \in Nat
      /\ Len(file') = m + 1 /\ DOMAIN file' = 1 .. m + 1 /\ DOMAIN file = 1 .. m
      /\ file'[m + 1] = r /\ \A k \in 1 .. m : file'[k] = file[k]
  BY <1>1, <1>2, <1>4, FileGrows
<1>6. r.row = n + 1 /\ r.hash = h /\ txn'.hash = h
  BY <1>1
<1>7. txn' # NoRow
  BY <1>3, NoRowAssumption
<1>m. \A k \in 1 .. m + 1 : k \in 1 .. m \/ k = m + 1
  BY <1>5
<1>o. 1 .. m \subseteq 1 .. m + 1 /\ m + 1 \in 1 .. m + 1
  BY <1>5
<1> HIDE DEF n, m, h, r
<1>8. honest' \subseteq DOMAIN file'
  BY <1>1, <1>2, <1>5, <1>o
<1>9. RecordsKept'
  <2>1. /\ \A k \in 1 .. m : /\ file[k].row \in 1 .. n + 1 /\ file[k].row % Interval = 0
                             /\ file[k].hash # << >>
        /\ \A i \in 1 .. n : i % Interval = 0 =>
             \E k \in 1 .. m : file[k].row = i /\ Newest(file[k].hash) = original[i]
    BY <1>2, <1>5 DEF IInv, RecordsKept, n, m
  <2>2. \A k \in 1 .. m + 1 :
          /\ file'[k].row \in 1 .. n + 1 /\ file'[k].row % Interval = 0
          /\ file'[k].hash # << >>
    <3>1. n + 1 \in 1 .. n + 1 /\ (n + 1) % Interval = 0
      BY <1>2 DEF n
    <3> QED
      BY <2>1, <3>1, <1>5, <1>6, <1>3, <1>m
  <2>3. \A i \in 1 .. n : i % Interval = 0 =>
          \E k \in 1 .. m + 1 : file'[k].row = i /\ Newest(file'[k].hash) = original[i]
    BY <2>1, <1>5, <1>o
  <2>4. file' # << >> /\ Newest(file') = [row |-> n + 1, hash |-> txn'.hash]
    <3>1. file' # << >>
      BY <1>1, <1>2, <1>4
    <3>2. Newest(file') = r
      BY <1>5, Zenon DEF Newest
    <3> QED
      BY <3>1, <3>2, <1>6, Zenon DEF r
  <2>5. Len(rows') = n /\ DOMAIN rows' = 1 .. n /\ original' = original
    BY <1>1, <1>2 DEF n
  <2>6. (\A i \in DOMAIN rows : i % Interval = 0 =>
          \E k \in DOMAIN file : file[k].row = i /\ Newest(file[k].hash) = original[i])'
    BY <2>3, <2>5, <1>5, Zenon DEF Newest
  <2>7. (\A k \in DOMAIN file :
          /\ file[k].row \in 1 .. Len(rows) + 1 /\ file[k].row % Interval = 0
          /\ file[k].hash # << >>)'
    BY <2>2, <2>5, <1>5
  <2>8. (Due => file # << >> /\ Newest(file) = [row |-> Len(rows) + 1, hash |-> txn.hash])'
    BY <2>4, <2>5, Zenon DEF Newest
  <2> QED
    BY <2>6, <2>7, <2>8, Zenon DEF RecordsKept
<1>10. HonestSay'
  <2>1. \A k \in honest : /\ k \in 1 .. m /\ Len(file[k].hash) = file[k].row
                          /\ \A i \in 1 .. file[k].row - 1 : file[k].hash[i] = original[i]
    BY <1>2 DEF IInv, HonestSay
  <2>2. ASSUME edits = 0
        PROVE  Len(h) = n + 1 /\ \A i \in 1 .. n : h[i] = original[i]
    <3>1. prev[w] = LastHash
      BY <2>2, <1>1 DEF IInv, ChainInv
    <3> QED
      BY <2>2, <3>1, <1>2, NextHashSays DEF h, n
  <2>3. ASSUME NEW k \in honest'
        PROVE  /\ Len(file'[k].hash) = file'[k].row
               /\ \A i \in 1 .. file'[k].row - 1 : file'[k].hash[i] = original[i]
    <3>1. CASE k \in honest
      BY <2>1, <1>5, <3>1
    <3>2. CASE k \notin honest
      <4>1. edits = 0 /\ k = m + 1
        BY <1>1, <3>2
      <4>2. file'[k].row = n + 1 /\ file'[k].hash = h
        BY <4>1, <1>5, <1>6, Zenon
      <4>3. file'[k].row - 1 = n
        BY <4>2, <1>2
      <4>4. Len(h) = n + 1 /\ \A i \in 1 .. n : h[i] = original[i]
        BY <4>1, <2>2
      <4> QED
        BY <4>2, <4>3, <4>4
    <3> QED
      BY <3>1, <3>2
  <2> QED
    BY <2>3, <1>1 DEF HonestSay
<1>11. LostToFaults'
  <2>1. \A k \in 1 .. m : Matches(file[k])' <=> Matches(file[k])
    BY <1>1, <1>5 DEF Matches
  <2>2. Due' /\ ~Due
    BY <1>1, <1>7 DEF Due
  <2>3. Lost' \subseteq Lost
    BY <2>1, <2>2, <1>5, <1>m, Zenon DEF Lost
  <2> QED
    BY <2>3, <1>1, <1>2, LostShrinks DEF IInv, TypeOK
<1>12. ScanTrue'
  <2>1. \A k \in 1 .. m : Matches(file[k])' <=> Matches(file[k])
    BY <1>1, <1>5 DEF Matches
  <2>2. scan.since <= edits /\ (scan.verdict \in {"running", "clean"} /\ scan.since = edits
         => scan.at <= m /\ \A k \in 1 .. scan.at : Matches(file[k]))
    BY DEF IInv, ScanTrue, m
  <2>3. scan.at <= m => scan.at <= m + 1 /\ 1 .. scan.at \subseteq 1 .. m
    BY <1>2, <1>5
  <2> QED
    BY <1>1, <1>5, <2>1, <2>2, <2>3 DEF ScanTrue
<1> QED
  BY <1>5, <1>8, <1>9, <1>10, <1>11, <1>12, Zenon

LEMMA InsertStep ==
    ASSUME IInv, NEW w \in Writer, Insert(w)
    PROVE  TypeOK' /\ OneTransaction' /\ RowsKept' /\ RecordsKept' /\ HonestSay' /\ LostToFaults'
           /\ ScanTrue'
<1>1. TypeOK /\ OneTransaction /\ RowsKept
  BY DEF IInv
<1>2. /\ file' \in Seq(Record) /\ honest' \subseteq DOMAIN file'
      /\ RecordsKept' /\ HonestSay' /\ LostToFaults' /\ ScanTrue'
  <2>1. CASE (Len(rows) + 1) % Interval = 0
    BY <2>1, InsertStepRecord
  <2>2. CASE (Len(rows) + 1) % Interval # 0
    <3>1. file \in Seq(Record)
      BY <1>1 DEF TypeOK
    <3> QED
      BY <2>2, <3>1, InsertStepPlain
  <2> QED
    BY <2>1, <2>2
<1>3. /\ UNCHANGED <<rows, lock, entry, prev, scan, faults, original, edits, rewrites>>
      /\ pc[w] = "chained" /\ pc' = [pc EXCEPT ![w] = "inserted"]
      /\ txn' = [fields |-> entry[w], prev |-> prev[w],
                 hash |-> compute_row_hash(entry[w], prev[w])]
  BY DEF Insert, editVars
<1>4. txn' \in Row
  BY <1>3, InsertedRow
<1>5. TypeOK'
  BY <1>1, <1>2, <1>3, <1>4 DEF TypeOK
<1>6. \A u \in Writer : u # w => pc[u] \notin {"chained", "inserted"}
  BY <1>1, <1>3, UnderTheLock
<1>7. OneTransaction'
  BY <1>1, <1>3, <1>6 DEF TypeOK, OneTransaction, compute_row_hash
<1>8. RowsKept'
  BY <1>1, <1>3 DEF RowsKept, Newest
<1> QED
  BY <1>2, <1>5, <1>7, <1>8, Zenon

(* A commit adds the row its thread inserted, and makes true the record    *)
(* that was due.                                                           *)
LEMMA CommitStep ==
    ASSUME IInv, NEW w \in Writer, Commit(w)
    PROVE  TypeOK' /\ OneTransaction' /\ RowsKept' /\ RecordsKept' /\ HonestSay' /\ LostToFaults'
           /\ ScanTrue'
<1> DEFINE n == Len(rows)
           m == Len(file)
<1>1. /\ pc[w] = "inserted" /\ pc' = [pc EXCEPT ![w] = "idle"]
      /\ rows' = Append(rows, txn) /\ original' = Append(original, txn.fields)
      /\ txn' = NoRow /\ lock' = Free
      /\ UNCHANGED <<file, entry, prev, scan, faults, edits, rewrites, honest>>
  BY DEF Commit, editVars
<1>2. TypeOK /\ OneTransaction /\ RowsKept /\ RecordsKept
  BY DEF IInv
<1>3. txn = [fields |-> entry[w], prev |-> prev[w],
             hash |-> compute_row_hash(entry[w], prev[w])]
  BY <1>1, <1>2 DEF OneTransaction
<1>4. /\ txn \in Row /\ txn.fields \in Entry /\ txn.hash # << >>
      /\ Newest(txn.hash) = txn.fields
  BY <1>3, InsertedRow, RowParts
<1>5. txn # NoRow
  BY <1>4, NoRowAssumption
<1>6. /\ rows \in Seq(Row) /\ file \in Seq(Record) /\ original \in Seq(Entry)
      /\ n \in Nat /\ m \in Nat /\ Len(original) = n
      /\ DOMAIN rows = 1 .. n /\ DOMAIN file = 1 .. m /\ honest \subseteq 1 .. m
      /\ faults \in Nat
  BY <1>2 DEF TypeOK, RowsKept
<1>7. /\ rows' \in Seq(Row) /\ original' \in Seq(Entry)
      /\ Len(rows') = n + 1 /\ DOMAIN rows' = 1 .. n + 1 /\ Len(original') = n + 1
      /\ rows'[n + 1] = txn /\ original'[n + 1] = txn.fields
      /\ \A i \in 1 .. n : rows'[i] = rows[i] /\ original'[i] = original[i]
  <2>1. /\ rows' \in Seq(Row) /\ Len(rows') = n + 1 /\ DOMAIN rows' = 1 .. n + 1
        /\ rows'[n + 1] = txn /\ \A i \in 1 .. n : rows'[i] = rows[i]
    BY <1>1, <1>4, <1>6
  <2>2. /\ original' \in Seq(Entry) /\ Len(original') = n + 1
        /\ original'[n + 1] = txn.fields /\ \A i \in 1 .. n : original'[i] = original[i]
    BY <1>1, <1>4, <1>6
  <2> QED
    BY <2>1, <2>2
<1>8. /\ \A k \in 1 .. m : /\ file[k].row \in 1 .. n + 1 /\ file[k].row % Interval = 0
                           /\ file[k].hash # << >>
      /\ \A i \in 1 .. n : i % Interval = 0 =>
           \E k \in 1 .. m : file[k].row = i /\ Newest(file[k].hash) = original[i]
      /\ Due => file # << >> /\ Newest(file) = [row |-> n + 1, hash |-> txn.hash]
  BY <1>2, <1>6 DEF RecordsKept
<1>9. (n + 1) % Interval = 0 <=> Due
  BY <1>5 DEF Due
<1>10. Due => m \in 1 .. m /\ file[m].row = n + 1 /\ file[m].hash = txn.hash
  <2>1. file # << >> => m \in 1 .. m
    BY <1>6
  <2>2. Due => file[m] = [row |-> n + 1, hash |-> txn.hash]
    BY <1>8, Zenon DEF Newest
  <2> QED
    BY <1>8, <2>1, <2>2
<1>m. \A i \in 1 .. n + 1 : i \in 1 .. n \/ i = n + 1
  BY <1>6
<1>o. 1 .. n \subseteq 1 .. n + 1 /\ n + 1 \in 1 .. n + 1 /\ n + 1 \notin 1 .. n
  BY <1>6
<1> HIDE DEF n, m
<1>11. TypeOK'
  BY <1>1, <1>2, <1>7 DEF TypeOK
<1>12. OneTransaction'
  <2>1. \A u \in Writer : u # w => pc[u] \notin {"chained", "inserted"}
    BY <1>1, <1>2, UnderTheLock
  <2> QED
    BY <1>1, <1>2, <2>1 DEF TypeOK, OneTransaction
<1>13. RowsKept'
  <2>1. /\ edits = 0 => \A i \in 1 .. n : rows[i].fields = original[i]
        /\ rewrites = 0 => \A i \in 1 .. n : rows[i].hash # << >>
                                             /\ Newest(rows[i].hash) = original[i]
    BY <1>2, <1>6 DEF RowsKept
  <2>2. edits = 0 => \A i \in 1 .. n + 1 : rows'[i].fields = original'[i]
    BY <2>1, <1>7, <1>m
  <2>3. rewrites = 0 => \A i \in 1 .. n + 1 : rows'[i].hash # << >>
                                              /\ Newest(rows'[i].hash) = original'[i]
    BY <2>1, <1>4, <1>7, <1>m, Zenon
  <2> QED
    BY <2>2, <2>3, <1>1, <1>7, Zenon DEF RowsKept, Newest
<1>14. RecordsKept'
  <2>1. (\A k \in DOMAIN file :
          /\ file[k].row \in 1 .. Len(rows) + 1 /\ file[k].row % Interval = 0
          /\ file[k].hash # << >>)'
    <3>1. 1 .. n + 1 \subseteq 1 .. (n + 1) + 1
      BY <1>6
    <3> QED
      BY <3>1, <1>1, <1>6, <1>7, <1>8
  <2>2. \A i \in 1 .. n + 1 : i % Interval = 0 =>
          \E k \in 1 .. m : file[k].row = i /\ Newest(file[k].hash) = original'[i]
    <3>1. ASSUME NEW i \in 1 .. n, i % Interval = 0
          PROVE  \E k \in 1 .. m : file[k].row = i /\ Newest(file[k].hash) = original'[i]
      <4>1. original'[i] = original[i]
        BY <1>7
      <4> QED
        BY <3>1, <4>1, <1>8, Zenon
    <3>2. ASSUME (n + 1) % Interval = 0
          PROVE  \E k \in 1 .. m : file[k].row = n + 1
                                   /\ Newest(file[k].hash) = original'[n + 1]
      BY <3>2, <1>4, <1>7, <1>9, <1>10, Zenon
    <3> QED
      BY <3>1, <3>2, <1>m, Zenon
  <2>3. (\A i \in DOMAIN rows : i % Interval = 0 =>
          \E k \in DOMAIN file : file[k].row = i /\ Newest(file[k].hash) = original[i])'
    BY <2>2, <1>1, <1>6, <1>7, Zenon DEF Newest
  <2>4. ~Due'
    BY <1>1 DEF Due
  <2> QED
    BY <2>1, <2>3, <2>4, Zenon DEF RecordsKept
<1>15. HonestSay'
  <2>1. \A k \in honest : /\ Len(file[k].hash) = file[k].row
                          /\ \A i \in 1 .. file[k].row - 1 : file[k].hash[i] = original[i]
    BY DEF IInv, HonestSay
  <2>2. \A k \in honest : 1 .. file[k].row - 1 \subseteq 1 .. n
    BY <1>6, <1>8
  <2>3. \A k \in honest : \A i \in 1 .. file[k].row - 1 : file[k].hash[i] = original'[i]
    BY <2>1, <2>2, <1>7, Zenon
  <2> QED
    BY <2>1, <2>3, <1>1, Zenon DEF HonestSay
<1>16. \A k \in 1 .. m : Matches(file[k]) => Matches(file[k])'
  BY <1>1, <1>6, <1>7, <1>o, Zenon DEF Matches
<1>17. LostToFaults'
  <2>1. Due => Matches(file[m])'
    <3>1. file' = file /\ n + 1 \in DOMAIN rows' /\ rows'[n + 1].hash = txn.hash
      BY <1>1, <1>7, <1>o, Zenon
    <3>2. ASSUME Due PROVE file'[m].row = n + 1 /\ file'[m].hash = txn.hash
      BY <3>1, <3>2, <1>10, Zenon
    <3>3. ASSUME Due
          PROVE  file'[m].row \in DOMAIN rows' /\ rows'[file'[m].row].hash = file'[m].hash
      BY <3>1, <3>2, <3>3, Zenon
    <3>4. m' = m
      BY <3>1 DEF m
    <3> QED
      BY <3>3, <3>4, Zenon DEF Matches
  <2>2. Lost' \subseteq Lost
    BY <1>1, <1>6, <1>16, <2>1, Zenon DEF Lost, m
  <2> QED
    BY <2>2, <1>1, <1>6, LostShrinks DEF IInv
<1>18. ScanTrue'
  <2>1. scan.since <= edits /\ (scan.verdict \in {"running", "clean"} /\ scan.since = edits
         => scan.at <= m /\ \A k \in 1 .. scan.at : Matches(file[k]))
    BY DEF IInv, ScanTrue, m
  <2>2. scan.at <= m => 1 .. scan.at \subseteq 1 .. m
    BY <1>2, <1>6 DEF TypeOK
  <2> QED
    BY <2>1, <2>2, <1>1, <1>16 DEF ScanTrue, m
<1> QED
  BY <1>11, <1>12, <1>13, <1>14, <1>15, <1>17, <1>18, Zenon

(* An edit of the database leaves numbers and hashes of the records alone. *)
LEMMA EditKeepsRecords ==
    ASSUME IInv, edits' = edits + 1, Len(rows') = Len(rows), DOMAIN rows' = DOMAIN rows,
           UNCHANGED <<file, txn, original, scan, honest, faults>>
    PROVE  RecordsKept' /\ HonestSay' /\ LostToFaults' /\ ScanTrue'
<1>1. edits \in Nat /\ edits' # 0 /\ ~(edits' <= edits)
  BY DEF IInv, TypeOK
<1>2. RecordsKept'
  BY DEF IInv, RecordsKept, Due, Newest
<1>3. HonestSay'
  BY DEF IInv, HonestSay
<1>4. LostToFaults'
  BY <1>1 DEF LostToFaults
<1>5. ScanTrue'
  <2>1. scan.since <= edits /\ scan.since \in Nat
    BY DEF IInv, ScanTrue, TypeOK
  <2>2. scan.since <= edits + 1 /\ scan.since # edits + 1
    BY <1>1, <2>1
  <2> QED
    BY <2>2 DEF ScanTrue
<1> QED
  BY <1>2, <1>3, <1>4, <1>5, Zenon

LEMMA NaiveEditStep ==
    ASSUME IInv, NEW i \in DOMAIN rows, NEW e \in Entry, NaiveEdit(i, e)
    PROVE  TypeOK' /\ OneTransaction' /\ RowsKept' /\ RecordsKept' /\ HonestSay' /\ LostToFaults'
           /\ ScanTrue'
<1>1. TypeOK /\ OneTransaction /\ RowsKept
  BY DEF IInv
<1>2. /\ edits' = edits + 1 /\ rows' = [rows EXCEPT ![i].fields = e]
      /\ UNCHANGED <<file, lock, txn, pc, entry, prev, scan, faults, original, rewrites, honest>>
  BY DEF NaiveEdit, Edited, writerVars
<1>3. rows \in Seq(Row) /\ Len(original) = Len(rows) /\ edits \in Nat /\ DOMAIN rows = 1 .. Len(rows)
  BY <1>1 DEF TypeOK, RowsKept
<1>4. rows[i] \in Row
  BY <1>3
<1>5. [rows[i] EXCEPT !.fields = e] \in Row
      /\ [rows[i] EXCEPT !.fields = e].hash = rows[i].hash
  BY <1>4 DEF Row
<1>6. rows' = [rows EXCEPT ![i] = [rows[i] EXCEPT !.fields = e]]
  BY <1>2
<1>7. /\ rows' \in Seq(Row) /\ Len(rows') = Len(rows) /\ DOMAIN rows' = DOMAIN rows
      /\ \A j \in DOMAIN rows : rows'[j] = IF j = i THEN [rows[i] EXCEPT !.fields = e] ELSE rows[j]
  BY <1>3, <1>5, <1>6
<1>8. \A j \in DOMAIN rows : rows'[j].hash = rows[j].hash
  BY <1>5, <1>7
<1>9. TypeOK'
  BY <1>1, <1>2, <1>3, <1>7 DEF TypeOK
<1>10. OneTransaction'
  BY <1>1, <1>2 DEF OneTransaction, compute_row_hash
<1>11. RowsKept'
  BY <1>1, <1>2, <1>3, <1>7, <1>8 DEF RowsKept, Newest
<1>12. RecordsKept' /\ HonestSay' /\ LostToFaults' /\ ScanTrue'
  BY <1>2, <1>7, EditKeepsRecords
<1> QED
  BY <1>9, <1>10, <1>11, <1>12, Zenon

LEMMA RewriteStep ==
    ASSUME IInv, NEW i \in DOMAIN rows, NEW e \in Entry, Rewrite(i, e)
    PROVE  TypeOK' /\ OneTransaction' /\ RowsKept' /\ RecordsKept' /\ HonestSay' /\ LostToFaults'
           /\ ScanTrue'
<1> DEFINE below == IF i = 1 THEN Genesis ELSE rows[i-1].hash
           said  == [j \in 1 .. Len(rows) |-> Edited(i, e)[j].fields]
           upTo(j) == below \o SubSeq(said, i, j)
           new(j) == IF j < i THEN rows[j]
                     ELSE [fields |-> said[j], prev |-> upTo(j - 1), hash |-> upTo(j)]
<1>1. TypeOK /\ OneTransaction /\ RowsKept
  BY DEF IInv
<1>2. /\ edits' = edits + 1 /\ rewrites' = rewrites + 1
      /\ rows' = [j \in 1 .. Len(rows) |-> new(j)]
      /\ UNCHANGED <<file, lock, txn, pc, entry, prev, scan, faults, original, honest>>
  BY DEF Rewrite, writerVars
<1>3. /\ rows \in Seq(Row) /\ Len(original) = Len(rows) /\ edits \in Nat /\ rewrites \in Nat
      /\ Len(rows) \in Nat /\ i \in 1 .. Len(rows) /\ DOMAIN rows = 1 .. Len(rows)
  BY <1>1 DEF TypeOK, RowsKept
<1>4. \A j \in 1 .. Len(rows) : rows[j].fields \in Entry /\ rows[j].hash \in Hash /\ rows[j] \in Row
  BY <1>3, RowsParts
<1>5. below \in Seq(Entry)
  <2>1. CASE i = 1
    BY <2>1 DEF Genesis
  <2>2. CASE i # 1
    <3>1. i - 1 \in 1 .. Len(rows)
      BY <1>3, <2>2
    <3> QED
      BY <1>4, <2>2, <3>1 DEF Hash
  <2> QED
    BY <2>1, <2>2
<1>6. \A j \in 1 .. Len(rows) : said[j] \in Entry
  <2>1. rows[i] \in Row /\ [rows[i] EXCEPT !.fields = e].fields = e
    BY <1>3, <1>4 DEF Row
  <2>2. \A j \in 1 .. Len(rows) :
          Edited(i, e)[j] = IF j = i THEN [rows[i] EXCEPT !.fields = e] ELSE rows[j]
    BY <1>3 DEF Edited
  <2> QED
    BY <1>4, <2>1, <2>2
<1>7. \A j \in i - 1 .. Len(rows) : upTo(j) \in Hash
  <2> SUFFICES ASSUME NEW j \in i - 1 .. Len(rows) PROVE upTo(j) \in Hash
    OBVIOUS
  <2> HIDE DEF below, said
  <2>1. i \in Int /\ j \in Int /\ \A l \in i .. j : l \in 1 .. Len(rows)
    BY <1>3
  <2>2. \A l \in i .. j : said[l] \in Entry
    BY <1>6, <2>1
  <2>3. SubSeq(said, i, j) \in Seq(Entry)
    BY <2>1, <2>2, SubSeqProperties
  <2> QED
    BY <1>5, <2>3, ConcatProperties DEF Hash
<1> HIDE DEF below, said, upTo
<1>8. \A j \in 1 .. Len(rows) : new(j) \in Row
  <2> SUFFICES ASSUME NEW j \in 1 .. Len(rows) PROVE new(j) \in Row
    OBVIOUS
  <2>1. CASE j < i
    BY <1>4, <2>1
  <2>2. CASE ~(j < i)
    <3>1. j - 1 \in i - 1 .. Len(rows) /\ j \in i - 1 .. Len(rows)
      BY <1>3, <2>2
    <3>2. upTo(j - 1) \in Hash /\ upTo(j) \in Hash /\ said[j] \in Entry
      BY <1>6, <1>7, <3>1
    <3> QED
      BY <2>2, <3>2 DEF Row
  <2> QED
    BY <2>1, <2>2
<1> HIDE DEF new
<1>9. rows' \in Seq(Row) /\ Len(rows') = Len(rows) /\ DOMAIN rows' = DOMAIN rows
  BY <1>2, <1>3, <1>8
<1>10. TypeOK'
  BY <1>1, <1>2, <1>3, <1>9 DEF TypeOK
<1>11. OneTransaction'
  BY <1>1, <1>2 DEF OneTransaction, compute_row_hash
<1>12. RowsKept'
  BY <1>2, <1>3, <1>9 DEF RowsKept
<1>13. RecordsKept' /\ HonestSay' /\ LostToFaults' /\ ScanTrue'
  BY <1>2, <1>9, EditKeepsRecords
<1> QED
  BY <1>10, <1>11, <1>12, <1>13, Zenon

LEMMA InitIInv == Init => IInv
<1> SUFFICES ASSUME Init PROVE IInv
  OBVIOUS
<1>1. /\ rows = << >> /\ file = << >> /\ txn = NoRow /\ lock = Free
      /\ pc = [w \in Writer |-> "idle"] /\ prev = [w \in Writer |-> Genesis]
      /\ scan = NoScan /\ faults = 0 /\ original = << >>
      /\ edits = 0 /\ rewrites = 0 /\ honest = {}
  BY DEF Init
<1>2. entry \in [Writer -> Entry]
  BY DEF Init
<1>3. TypeOK
  BY <1>1, <1>2 DEF TypeOK, Genesis, Hash, NoScan
<1>4. ChainInv
  BY <1>1, <1>2 DEF ChainInv, FullScan, verify_chain_integrity, Genesis, Hash
<1>5. OneTransaction /\ RowsKept
  BY <1>1 DEF OneTransaction, RowsKept
<1>6. RecordsKept /\ HonestSay
  BY <1>1 DEF RecordsKept, HonestSay, Due
<1>7. ScanTrue
  BY <1>1 DEF ScanTrue, NoScan
<1>8. LostToFaults
  <2>1. Lost = {}
    BY <1>1 DEF Lost
  <2> QED
    BY <1>1, <2>1, FS_EmptySet DEF LostToFaults
<1> QED
  BY <1>3, <1>4, <1>5, <1>6, <1>7, <1>8, Zenon DEF IInv

LEMMA IInvStep == IInv /\ [Next]_vars => IInv'
<1> SUFFICES ASSUME IInv, [Next]_vars PROVE IInv'
  OBVIOUS
<1>1. ChainInv'
  BY ChainInvStep, Zenon DEF IInv
<1> DEFINE Kept == TypeOK' /\ OneTransaction' /\ RowsKept' /\ RecordsKept' /\ HonestSay'
                   /\ LostToFaults' /\ ScanTrue'
<1>2. ASSUME NEW w \in Writer, Call(w) PROVE Kept
  BY <1>2, CallStep, Zenon
<1>3. ASSUME NEW w \in Writer, Chain(w) PROVE Kept
  BY <1>3, ChainStep, Zenon
<1>4. ASSUME NEW w \in Writer, Insert(w) PROVE Kept
  BY <1>4, InsertStep, Zenon
<1>5. ASSUME NEW w \in Writer, Commit(w) PROVE Kept
  BY <1>5, CommitStep, Zenon
<1>6. ASSUME NEW w \in Writer, Fail(w) PROVE Kept
  BY <1>6, FailStep, Zenon
<1>7. ASSUME Crash PROVE Kept
  BY <1>7, CrashStep, Zenon
<1>8. ASSUME NEW i \in DOMAIN rows, NEW e \in Entry, NaiveEdit(i, e) PROVE Kept
  BY <1>8, NaiveEditStep, Zenon
<1>9. ASSUME NEW i \in DOMAIN rows, NEW e \in Entry, Rewrite(i, e) PROVE Kept
  BY <1>9, RewriteStep, Zenon
<1>10. ASSUME ScanStart \/ ScanLine \/ ScanEnd PROVE Kept
  BY <1>10, ScanSteps, Zenon
<1>11. ASSUME UNCHANGED vars PROVE Kept
  BY <1>11, StutterStep, Zenon
<1>12. Kept
  <2> HIDE DEF Kept
  <2> QED
    BY <1>2, <1>3, <1>4, <1>5, <1>6, <1>7, <1>8, <1>9, <1>10, <1>11, Zenon DEF Next
<1> QED
  BY <1>1, <1>12, Zenon DEF IInv

(* What the log, the checkpoint file and the scan agree on holds in every  *)
(* state: with edits, failed calls, crashes, and threads in any order.     *)
THEOREM Invariance == Spec => []IInv
BY InitIInv, IInvStep, PTL DEF Spec

(* Every variable stays in its range. *)
THEOREM TypeCorrect == Spec => []TypeOK
<1>1. IInv => TypeOK
  BY DEF IInv
<1> QED
  BY <1>1, Invariance, PTL

-----------------------------------------------------------------------------
(***************************************************************************)
(* What the invariant is for.                                              *)
(***************************************************************************)

(* Without edits, the records that attest no committed row are no more     *)
(* than the calls that failed and the crashes: _maybe_write_checkpoint     *)
(* runs before the commit, so each of those can leave one behind.          *)
THEOREM DriftStaysBounded == Spec => []DriftIsBounded
<1>1. IInv => DriftIsBounded
  <2> SUFFICES ASSUME IInv, edits = 0 PROVE Cardinality(Stray) <= faults
    BY DEF DriftIsBounded
  <2>1. file \in Seq(Record) /\ faults \in Nat
    BY DEF IInv, TypeOK
  <2>2. Due => txn # NoRow /\ file[Len(file)].row = Len(rows) + 1
    BY DEF IInv, RecordsKept, Due, Newest
  <2>3. Stray \subseteq Lost
    BY <2>2, Zenon DEF Stray, Lost
  <2>4. IsFiniteSet(Lost) /\ Cardinality(Lost) \in Nat
    BY <2>1, LostIsFinite
  <2>5. IsFiniteSet(Stray) /\ Cardinality(Stray) <= Cardinality(Lost)
    BY <2>3, <2>4, FS_Subset
  <2>6. Cardinality(Stray) \in Nat
    BY <2>5, FS_CardinalityType
  <2>7. Cardinality(Lost) <= faults
    BY DEF IInv, LostToFaults
  <2> QED
    BY <2>1, <2>4, <2>5, <2>6, <2>7
<1> QED
  BY <1>1, Invariance, PTL

(* Past a checkpoint written in an unedited database, a changed row does   *)
(* not pass both verifications, whoever changed it and however: the full   *)
(* chain says in its newest hash all that its rows say, and the checkpoint *)
(* all that they said.                                                     *)
THEOREM EditsAreDetected == Spec => []EditIsDetected
<1>1. IInv => EditIsDetected
  <2> SUFFICES ASSUME IInv, NEW k \in honest, NEW i \in 1 .. file[k].row, i \in DOMAIN rows,
                      rows[i].fields # original[i], FullScan, CheckpointScan
               PROVE  FALSE
    BY Zenon DEF EditIsDetected
  <2> DEFINE r == file[k].row
  <2>1. rows \in Seq(Row) /\ DOMAIN rows = 1 .. Len(rows) /\ k \in DOMAIN file
    BY DEF IInv, TypeOK
  <2>2. /\ \A j \in 1 .. r - 1 : file[k].hash[j] = original[j]
        /\ r \in 1 .. Len(rows) + 1 /\ r % Interval = 0
    BY <2>1 DEF IInv, HonestSay, RecordsKept
  <2>3. r \in DOMAIN rows /\ rows[r].hash = file[k].hash
    BY <2>1 DEF CheckpointScan, Matches
  <2>4. /\ Len(rows[r].hash) = r
        /\ \A j \in 1 .. r : rows[r].hash[j] = rows[j].fields
    BY <2>1, <2>3, HashSaysAll
  <2>5. rows[r].hash[i] = rows[i].fields
    BY <2>4
  <2>6. CASE i # r
    <3>1. i \in 1 .. r - 1
      BY <2>2, <2>6
    <3> QED
      BY <2>2, <2>3, <2>5, <3>1
  <2>7. CASE i = r
    <3>1. PICK l \in DOMAIN file : file[l].row = r /\ Newest(file[l].hash) = original[r]
      BY <2>2, <2>3 DEF IInv, RecordsKept
    <3>2. rows[r].hash = file[l].hash
      BY <3>1 DEF CheckpointScan, Matches
    <3>3. rows[r].hash[r] = original[r]
      BY <2>4, <3>1, <3>2, Zenon DEF Newest
    <3> QED
      BY <2>5, <2>7, <3>3
  <2> QED
    BY <2>6, <2>7
<1> QED
  BY <1>1, Invariance, PTL

(* A row whose link verifies ends its hash with what it says. *)
LEMMA LinkSays ==
    ASSUME rows \in Seq(Row), NEW after \in Nat, NEW anchor \in Hash,
           verify_chain_integrity(after, anchor), NEW i \in after + 1 .. Len(rows)
    PROVE  Newest(rows[i].hash) = rows[i].fields
<1> DEFINE p == IF i = after + 1 THEN anchor ELSE rows[i-1].hash
<1>1. rows[i].hash = compute_row_hash(rows[i].fields, p)
  BY DEF verify_chain_integrity
<1>2. rows[i].fields \in Entry
  <2>1. i \in 1 .. Len(rows)
    OBVIOUS
  <2> QED
    BY <2>1, RowsParts
<1>3. p \in Hash
  <2>1. CASE i = after + 1
    BY <2>1
  <2>2. CASE i # after + 1
    <3>1. i - 1 \in 1 .. Len(rows)
      BY <2>2
    <3> QED
      BY <2>2, <3>1, RowsParts
  <2> QED
    BY <2>1, <2>2
<1> HIDE DEF p
<1> QED
  BY <1>1, <1>2, <1>3, HashSaysFields

(* If there is a checkpoint, there is a latest one. *)
LEMMA LatestExists ==
    ASSUME file \in Seq(Record), file # << >>, NEW b \in Nat,
           \A k \in DOMAIN file : file[k].row <= b
    PROVE  LatestCheckpoint \in DOMAIN file
<1> DEFINE T == {c \in Nat : \A k \in DOMAIN file : file[k].row <= c}
<1>1. PICK c \in T : \A d \in T : c <= d
  <2>1. T \in SUBSET Nat /\ T # {}
    OBVIOUS
  <2> HIDE DEF T
  <2> QED
    BY <2>1, LeastNatural
<1>2. c \in Nat /\ \A k \in DOMAIN file : file[k].row \in Nat /\ file[k].row <= c
  BY RecordParts
<1>3. DOMAIN file \in SUBSET Nat /\ DOMAIN file # {}
  OBVIOUS
<1> DEFINE K == {k \in DOMAIN file : file[k].row = c}
<1>4. K # {}
  <2> SUFFICES ASSUME K = {} PROVE FALSE
    OBVIOUS
  <2>1. \A k \in DOMAIN file : file[k].row < c
    BY <1>2
  <2>2. c - 1 \in Nat /\ \A k \in DOMAIN file : file[k].row <= c - 1
    BY <1>2, <1>3, <2>1
  <2>3. c - 1 \in T
    BY <2>2
  <2> HIDE DEF T
  <2>4. c <= c - 1
    BY <1>1, <2>3
  <2> QED
    BY <1>2, <2>4
<1>5. PICK k \in K : \A l \in K : k <= l
  <2>1. K \in SUBSET Nat
    BY <1>3
  <2> HIDE DEF K
  <2> QED
    BY <1>4, <2>1, LeastNatural
<1>6. \A l \in DOMAIN file : \/ file[l].row < file[k].row
                             \/ file[l].row = file[k].row /\ k <= l
  <2> SUFFICES ASSUME NEW l \in DOMAIN file
               PROVE  \/ file[l].row < file[k].row
                      \/ file[l].row = file[k].row /\ k <= l
    OBVIOUS
  <2>1. file[k].row = c
    BY <1>5
  <2>2. CASE l \in K
    BY <1>5, <2>1, <2>2
  <2>3. CASE l \notin K
    BY <1>2, <2>1, <2>3
  <2> QED
    BY <2>2, <2>3
<1>7. k \in DOMAIN file
  BY <1>5
<1> QED
  BY <1>6, <1>7, Zenon DEF LatestCheckpoint

(* A naive edit of a row above the newest checkpoint does not pass the     *)
(* tail check.                                                             *)
THEOREM TailStaysCovered == Spec => []TailIsCovered
<1>1. IInv => TailIsCovered
  <2> SUFFICES ASSUME IInv, NEW i \in DOMAIN rows, rewrites = 0,
                      rows[i].fields # original[i],
                      \A k \in DOMAIN file : file[k].row < i, TailScan
               PROVE  FALSE
    BY Zenon DEF TailIsCovered
  <2>1. /\ rows \in Seq(Row) /\ file \in Seq(Record) /\ i \in 1 .. Len(rows)
        /\ Newest(rows[i].hash) = original[i]
    BY DEF IInv, TypeOK, RowsKept
  <2>2. CASE file = << >>
    <3>1. Genesis \in Hash /\ verify_chain_integrity(0, Genesis) /\ i \in 0 + 1 .. Len(rows)
      BY <2>1, <2>2 DEF TailScan, FullScan, Genesis, Hash
    <3>2. Newest(rows[i].hash) = rows[i].fields
      BY <2>1, <3>1, LinkSays
    <3> QED
      BY <2>1, <3>2
  <2>3. CASE file # << >>
    <3> DEFINE k == LatestCheckpoint
    <3>1. i \in Nat /\ \A l \in DOMAIN file : file[l].row <= i
      <4>1. i \in Nat /\ \A l \in DOMAIN file : file[l].row \in Nat
        BY <2>1, RecordParts
      <4> QED
        BY <4>1
    <3>2. k \in DOMAIN file
      BY <2>1, <2>3, <3>1, LatestExists
    <3> HIDE DEF k
    <3>3. file[k].row \in Nat /\ file[k].hash \in Hash
      BY <2>1, <3>2, RecordParts
    <3>4. file[k].row < i
      BY <3>2
    <3>5. i \in file[k].row + 1 .. Len(rows)
      BY <2>1, <3>3, <3>4
    <3>6. verify_chain_integrity(file[k].row, file[k].hash)
      BY <2>3 DEF TailScan, k
    <3>7. Newest(rows[i].hash) = rows[i].fields
      BY <2>1, <3>3, <3>5, <3>6, LinkSays
    <3> QED
      BY <2>1, <3>7
  <2> QED
    BY <2>2, <2>3
<1> QED
  BY <1>1, Invariance, PTL

(* A scan that reports clean was right about all records at once, if       *)
(* nobody edited the database meanwhile: threads, failed calls and crashes *)
(* take no attested row back.                                              *)
THEOREM CleanScansAreSound == Spec => []CleanScanIsSound
<1>1. IInv => CleanScanIsSound
  BY DEF IInv, ScanTrue, CleanScanIsSound
<1> QED
  BY <1>1, Invariance, PTL
===============================================================================
