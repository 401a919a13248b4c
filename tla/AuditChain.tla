------------------------------ MODULE AuditChain ------------------------------
(***************************************************************************)
(* The audit log of src/audit_log.py: rows chained by hash, checkpoints of *)
(* the chain appended to a file next to the database, threads of one       *)
(* gateway process that write rows, and a dashboard thread that verifies.  *)
(*                                                                         *)
(* - A hash is what it binds together: compute_row_hash(fields, prev) is   *)
(*   the sequence of all fields hashed so far.  Two hashes are equal only  *)
(*   if everything below them is, as for SHA-256 in practice; the HMAC of  *)
(*   a checkpoint record is never forged, so it needs no variable.         *)
(* - INSERT and COMMIT form one SQLite transaction: readers see committed  *)
(*   rows only, and a row that is not committed gives its id back.         *)
(* - The checkpoint file is no part of the transaction.                    *)
(* - The database file can be edited from outside, the hazard the chain    *)
(*   exists for (the checkpoint file cannot: its records carry an HMAC).   *)
(***************************************************************************)
EXTENDS Integers, Sequences, FiniteSets

CONSTANTS
    Writer,         \* threads that call log_decision
    Entry,          \* what a row can say
    Interval,       \* CHECKPOINT_INTERVAL_ROWS
    Free, NoRow,    \* no thread holds _chain_lock; no open transaction
    MaxRows, MaxFaults, MaxEdits    \* bounds

ASSUME IntervalAssumption == Interval \in Nat \ {0}
ASSUME NobodyAssumption == Free \notin Writer
ASSUME BoundsAssumption == MaxRows \in Nat /\ MaxFaults \in Nat /\ MaxEdits \in Nat

VARIABLES
    rows,           \* the committed rows, by id
    file,           \* the records in the checkpoint file
    txn,            \* the row inserted but not committed, or NoRow
    lock,           \* holder of _chain_lock
    pc,             \* pc[w]: how far w is in log_decision
    entry,          \* entry[w]: the fields w is logging
    prev,           \* prev[w]: the predecessor's hash, as w read it
    scan,           \* the verifying thread in verify_against_checkpoints
    faults,         \* failed calls and crashes so far
    original,       \* history: what the row of each id said when committed
    edits,          \* history: outside edits so far
    rewrites,       \* history: those of them that recomputed the hashes
    honest          \* history: the records written before any edit

writerVars == <<lock, txn, pc, entry, prev>>
editVars   == <<edits, rewrites>>
vars == <<rows, file, writerVars, scan, faults, original, editVars, honest>>

Genesis == << >>
Hash == Seq(Entry)
Row == [fields : Entry, prev : Hash, hash : Hash]
Record == [row : Nat, hash : Hash]
ASSUME NoRowAssumption == NoRow \notin Row
NoScan == [verdict |-> "none", at |-> 0, since |-> 0]

Init ==
    /\ rows = << >>
    /\ file = << >>
    /\ txn = NoRow
    /\ lock = Free
    /\ pc = [w \in Writer |-> "idle"]
    /\ \E e \in Entry : entry = [w \in Writer |-> e]
    /\ prev = [w \in Writer |-> Genesis]
    /\ scan = NoScan
    /\ faults = 0
    /\ original = << >>
    /\ edits = 0 /\ rewrites = 0
    /\ honest = {}

-----------------------------------------------------------------------------
(* log_decision. *)

compute_row_hash(fields, prev_hash) == Append(prev_hash, fields)

LastHash == IF rows = << >> THEN Genesis ELSE rows[Len(rows)].hash

Busy == {w \in Writer : pc[w] # "idle"}

(* The fields are put together before the lock is asked for. *)
Call(w) ==
    /\ pc[w] = "idle"
    /\ Len(rows) + Cardinality(Busy) < MaxRows
    /\ \E e \in Entry : entry' = [entry EXCEPT ![w] = e]
    /\ pc' = [pc EXCEPT ![w] = "called"]
    /\ UNCHANGED <<rows, file, txn, lock, prev, scan, faults, original, editVars, honest>>

(* Mutant of Chain: the predecessor is read without the lock. *)
ChainUnlocked(w) ==
    /\ pc[w] = "called"
    /\ lock' = w
    /\ prev' = [prev EXCEPT ![w] = LastHash]
    /\ pc' = [pc EXCEPT ![w] = "chained"]
    /\ UNCHANGED <<rows, file, txn, entry, scan, faults, original, editVars, honest>>

(* Take the lock and read the predecessor's hash. *)
Chain(w) ==
    /\ pc[w] = "called"
    /\ lock = Free
    /\ lock' = w
    /\ prev' = [prev EXCEPT ![w] = LastHash]
    /\ pc' = [pc EXCEPT ![w] = "chained"]
    /\ UNCHANGED <<rows, file, txn, entry, scan, faults, original, editVars, honest>>

(* Mutant of Checkpoint: the record attests the predecessor's hash. *)
CheckpointPrevious(id, row) ==
    IF id % Interval = 0
    THEN /\ file' = Append(file, [row |-> id, hash |-> row.prev])
         /\ honest' = IF edits = 0 THEN honest \cup {Len(file) + 1} ELSE honest
    ELSE UNCHANGED <<file, honest>>

(* Mutant of Checkpoint: the file is opened for writing, not appending. *)
CheckpointOverwrites(id, row) ==
    IF id % Interval = 0
    THEN /\ file' = <<[row |-> id, hash |-> row.hash]>>
         /\ honest' = IF edits = 0 THEN honest \cup {Len(file) + 1} ELSE honest
    ELSE UNCHANGED <<file, honest>>

(* _maybe_write_checkpoint: the record is in the file at once. *)
Checkpoint(id, row) ==
    IF id % Interval = 0
    THEN /\ file' = Append(file, [row |-> id, hash |-> row.hash])
         /\ honest' = IF edits = 0 THEN honest \cup {Len(file) + 1} ELSE honest
    ELSE UNCHANGED <<file, honest>>

(* INSERT, then the checkpoint; SQLite admits one open transaction. *)
Insert(w) ==
    /\ pc[w] = "chained"
    /\ txn = NoRow
    /\ LET row == [fields |-> entry[w], prev |-> prev[w],
                   hash |-> compute_row_hash(entry[w], prev[w])]
       IN  txn' = row /\ Checkpoint(Len(rows) + 1, row)
    /\ pc' = [pc EXCEPT ![w] = "inserted"]
    /\ UNCHANGED <<rows, lock, entry, prev, scan, faults, original, editVars>>

Commit(w) ==
    /\ pc[w] = "inserted"
    /\ rows' = Append(rows, txn)
    /\ original' = Append(original, txn.fields)
    /\ txn' = NoRow
    /\ lock' = Free
    /\ pc' = [pc EXCEPT ![w] = "idle"]
    /\ UNCHANGED <<file, entry, prev, scan, faults, editVars, honest>>

(* Mutant of Fail: the exception leaves the lock taken. *)
FailHoldingLock(w) ==
    /\ pc[w] \in {"chained", "inserted"}
    /\ faults < MaxFaults
    /\ faults' = faults + 1
    /\ txn' = IF pc[w] = "inserted" THEN NoRow ELSE txn
    /\ pc' = [pc EXCEPT ![w] = "idle"]
    /\ UNCHANGED <<rows, file, lock, entry, prev, scan, original, editVars, honest>>

(* An SQLite or file error under the lock (a busy database, a full disk):  *)
(* the exception releases the lock and the transaction is rolled back.     *)
Fail(w) ==
    /\ pc[w] \in {"chained", "inserted"}
    /\ faults < MaxFaults
    /\ faults' = faults + 1
    /\ txn' = IF pc[w] = "inserted" THEN NoRow ELSE txn
    /\ lock' = Free
    /\ pc' = [pc EXCEPT ![w] = "idle"]
    /\ UNCHANGED <<rows, file, entry, prev, scan, original, editVars, honest>>

(* The process dies: what is on disk stays. *)
Crash ==
    /\ faults < MaxFaults
    /\ faults' = faults + 1
    /\ txn' = NoRow
    /\ lock' = Free
    /\ pc' = [w \in Writer |-> "idle"]
    /\ scan' = NoScan
    /\ UNCHANGED <<rows, file, entry, prev, original, editVars, honest>>

-----------------------------------------------------------------------------
(* The database edited from outside; an open transaction locks the file.   *)

Edited(i, e) == [rows EXCEPT ![i].fields = e]

(* One row changed, its hash left alone. *)
NaiveEdit(i, e) ==
    /\ edits < MaxEdits /\ txn = NoRow
    /\ e # rows[i].fields
    /\ edits' = edits + 1
    /\ rows' = Edited(i, e)
    /\ UNCHANGED <<file, writerVars, scan, faults, original, rewrites, honest>>

(* One row changed, and its hash and all later ones recomputed. *)
Rewrite(i, e) ==
    /\ edits < MaxEdits /\ txn = NoRow
    /\ e # rows[i].fields
    /\ edits' = edits + 1
    /\ rewrites' = rewrites + 1
    /\ LET below == IF i = 1 THEN Genesis ELSE rows[i-1].hash
           said  == [j \in 1 .. Len(rows) |-> Edited(i, e)[j].fields]
           upTo(j) == below \o SubSeq(said, i, j)
       IN  rows' = [j \in 1 .. Len(rows) |->
                      IF j < i THEN rows[j]
                      ELSE [fields |-> said[j], prev |-> upTo(j - 1), hash |-> upTo(j)]]
    /\ UNCHANGED <<file, writerVars, scan, faults, original, honest>>

-----------------------------------------------------------------------------
(* Verification. *)

(* Mutant of verify_chain_integrity: only the stored links are compared. *)
LinksOnly(after, anchor) ==
    \A i \in after + 1 .. Len(rows) :
        rows[i].prev = IF i = after + 1 THEN anchor ELSE rows[i-1].hash

(* One SELECT: a snapshot of the committed rows. *)
verify_chain_integrity(after, anchor) ==
    \A i \in after + 1 .. Len(rows) :
        rows[i].hash = compute_row_hash(rows[i].fields,
                            IF i = after + 1 THEN anchor ELSE rows[i-1].hash)

FullScan == verify_chain_integrity(0, Genesis)

(* latest_checkpoint: the highest row, the oldest record if there are two. *)
LatestCheckpoint ==
    CHOOSE k \in DOMAIN file :
        \A l \in DOMAIN file : \/ file[l].row < file[k].row
                               \/ file[l].row = file[k].row /\ k <= l

(* verify_chain_incremental *)
TailScan ==
    IF file = << >> THEN FullScan
    ELSE verify_chain_integrity(file[LatestCheckpoint].row, file[LatestCheckpoint].hash)

(* Mutant of Matches: a row that is not there is passed over. *)
MatchesIfThere(record) ==
    record.row \in DOMAIN rows => rows[record.row].hash = record.hash

(* Mutant of Matches: it is enough that the row is there. *)
MatchesById(record) == record.row \in DOMAIN rows

(* What verify_against_checkpoints asks of one record. *)
Matches(record) ==
    /\ record.row \in DOMAIN rows
    /\ rows[record.row].hash = record.hash

CheckpointScan == \A k \in DOMAIN file : Matches(file[k])

(* The same in the dashboard's thread: one line of the file, one SELECT at *)
(* a time, and no lock.                                                    *)
ScanStart ==
    /\ scan.verdict # "running"
    /\ scan' = [verdict |-> "running", at |-> 0, since |-> edits]
    /\ UNCHANGED <<rows, file, writerVars, faults, original, editVars, honest>>

ScanLine ==
    /\ scan.verdict = "running"
    /\ scan.at < Len(file)
    /\ scan' = IF Matches(file[scan.at + 1])
               THEN [scan EXCEPT !.at = @ + 1]
               ELSE [scan EXCEPT !.verdict = "broken"]
    /\ UNCHANGED <<rows, file, writerVars, faults, original, editVars, honest>>

ScanEnd ==
    /\ scan.verdict = "running"
    /\ scan.at = Len(file)
    /\ scan' = [scan EXCEPT !.verdict = "clean"]
    /\ UNCHANGED <<rows, file, writerVars, faults, original, editVars, honest>>

-----------------------------------------------------------------------------
Next ==
    \/ \E w \in Writer : Call(w)
    \/ \E w \in Writer : Chain(w)
    \/ \E w \in Writer : Insert(w)
    \/ \E w \in Writer : Commit(w)
    \/ \E w \in Writer : Fail(w)
    \/ Crash
    \/ \E i \in DOMAIN rows, e \in Entry : NaiveEdit(i, e)
    \/ \E i \in DOMAIN rows, e \in Entry : Rewrite(i, e)
    \/ ScanStart
    \/ ScanLine
    \/ ScanEnd

Spec == Init /\ [][Next]_vars

(* A thread inside log_decision is eventually scheduled.  Nothing is       *)
(* assumed about which of several waiting threads gets the lock.           *)
Inside(w) == Chain(w) \/ Insert(w) \/ Commit(w)

FairSpec == Spec /\ \A w \in Writer : WF_vars(Inside(w))
-----------------------------------------------------------------------------
(* Properties. *)

(* Every variable stays in its range. *)
TypeOK ==
    /\ rows \in Seq(Row) /\ file \in Seq(Record)
    /\ txn \in Row \cup {NoRow}
    /\ lock \in Writer \cup {Free}
    /\ pc \in [Writer -> {"idle", "called", "chained", "inserted"}]
    /\ entry \in [Writer -> Entry] /\ prev \in [Writer -> Hash]
    /\ scan \in [verdict : {"none", "running", "clean", "broken"}, at : Nat, since : Nat]
    /\ faults \in Nat /\ edits \in Nat /\ rewrites \in Nat
    /\ original \in Seq(Entry)
    /\ honest \subseteq DOMAIN file

(* As long as nobody edits the database, a full scan passes in every state:*)
(* no interleaving of threads, failed call or crash forks or tears the     *)
(* chain (audit_log.py, the comment on _chain_lock).                       *)
ChainUnbroken == edits = 0 => FullScan

(* Records of the checkpoint file that attest no committed row, apart from *)
(* that of a row about to be committed.                                    *)
Stray == {k \in DOMAIN file :
            ~Matches(file[k]) /\ ~(txn # NoRow /\ file[k].row = Len(rows) + 1)}

(* Without edits, checkpoint file and database drift apart only where a    *)
(* call failed or the process died, by one record each time.               *)
DriftIsBounded == edits = 0 => Cardinality(Stray) <= faults

(* A row that no longer says what it said is exposed by the full scan or   *)
(* by the checkpoints, once a checkpoint at or after it was written in an  *)
(* unedited database, however the edit was made and whatever was logged    *)
(* since (module docstring of audit_log.py, _build_chain_view).            *)
EditIsDetected ==
    \A k \in honest : \A i \in 1 .. file[k].row :
        i \in DOMAIN rows /\ rows[i].fields # original[i]
        => ~FullScan \/ ~CheckpointScan

(* Between full scans the tail check covers the rows written since the     *)
(* newest checkpoint: a naive edit of one of them does not pass it         *)
(* (verify_chain_incremental, "continuous coverage of the newest rows").   *)
TailIsCovered ==
    \A i \in DOMAIN rows :
        /\ rewrites = 0 /\ rows[i].fields # original[i]
        /\ \A k \in DOMAIN file : file[k].row < i
        => ~TailScan

(* The dashboard's scan holds no lock while threads log, calls fail and    *)
(* the process dies: what it reports clean was nevertheless consistent, all*)
(* of it at once, if nobody edited the database since it began.            *)
CleanScanIsSound ==
    scan.verdict = "clean" /\ scan.since = edits
    => \A k \in 1 .. scan.at : Matches(file[k])

(* A thread inside log_decision never waits for ever on threads that wait: *)
(* a row is committed, or a call fails, again and again.                   *)
LoggingProgresses ==
    \A n \in 0 .. MaxRows, f \in 0 .. MaxFaults :
        (Busy # {} /\ Len(rows) = n /\ faults = f) ~> (Len(rows) # n \/ faults # f)

-----------------------------------------------------------------------------
(* The inductive invariant behind ChainUnbroken: until the first edit, the *)
(* thread that holds the lock has read the hash that is still the last.    *)
ChainInv ==
    /\ edits \in Nat
    /\ edits = 0 =>
        /\ rows \in Seq(Row) /\ FullScan
        /\ pc \in [Writer -> {"idle", "called", "chained", "inserted"}]
        /\ entry \in [Writer -> Entry] /\ prev \in [Writer -> Hash]
        /\ \A w \in Writer :
            /\ pc[w] \in {"chained", "inserted"} => lock = w /\ prev[w] = LastHash
            /\ pc[w] = "inserted" =>
                 txn = [fields |-> entry[w], prev |-> prev[w],
                        hash |-> compute_row_hash(entry[w], prev[w])]

-----------------------------------------------------------------------------
(* The inductive invariant behind the other properties, edits included.    *)

Newest(s) == s[Len(s)]

(* The holder of the lock, and nobody else, has a transaction open.        *)
OneTransaction ==
    /\ \A w \in Writer :
        /\ pc[w] \in {"chained", "inserted"} => lock = w
        /\ pc[w] = "inserted" =>
             txn = [fields |-> entry[w], prev |-> prev[w],
                    hash |-> compute_row_hash(entry[w], prev[w])]
    /\ txn # NoRow => \E w \in Writer : pc[w] = "inserted"

(* A row keeps its hash until somebody rewrites it, and what it says until *)
(* somebody edits it.                                                      *)
RowsKept ==
    /\ Len(original) = Len(rows)
    /\ edits = 0 => \A i \in DOMAIN rows : rows[i].fields = original[i]
    /\ rewrites = 0 => \A i \in DOMAIN rows :
                          rows[i].hash # << >> /\ Newest(rows[i].hash) = original[i]

(* The record of a row that is about to be committed.                      *)
Due == txn # NoRow /\ (Len(rows) + 1) % Interval = 0

(* Every Interval-th row was attested as it was committed, and a record is *)
(* never of a row further away than the next.                              *)
RecordsKept ==
    /\ \A k \in DOMAIN file :
        /\ file[k].row \in 1 .. Len(rows) + 1 /\ file[k].row % Interval = 0
        /\ file[k].hash # << >>
    /\ \A i \in DOMAIN rows : i % Interval = 0 =>
        \E k \in DOMAIN file : file[k].row = i /\ Newest(file[k].hash) = original[i]
    /\ Due => file # << >> /\ Newest(file) = [row |-> Len(rows) + 1, hash |-> txn.hash]

(* A record written before any edit says what every row below it said.     *)
HonestSay == \A k \in honest :
    /\ Len(file[k].hash) = file[k].row
    /\ \A i \in 1 .. file[k].row - 1 : file[k].hash[i] = original[i]

(* The records a failed call or a crash left behind: one for each.         *)
Lost == {k \in DOMAIN file : ~Matches(file[k]) /\ ~(Due /\ k = Len(file))}
LostToFaults == edits = 0 => Cardinality(Lost) <= faults

(* What the scan in progress has passed still holds.                       *)
ScanTrue ==
    /\ scan.since <= edits
    /\ scan.verdict \in {"running", "clean"} /\ scan.since = edits
         => scan.at <= Len(file) /\ \A k \in 1 .. scan.at : Matches(file[k])

IInv == /\ TypeOK /\ ChainInv /\ OneTransaction /\ RowsKept /\ RecordsKept
        /\ HonestSay /\ LostToFaults /\ ScanTrue
===============================================================================
