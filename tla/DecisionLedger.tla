--------------------------- MODULE DecisionLedger ---------------------------
(***************************************************************************)
(* The decision ledger (ledger.py): a hash-chained table that every        *)
(* decision of the PDP is appended to, by threads and processes sharing    *)
(* one database file.  Rows of three ages live in it: those written before *)
(* 2.0.0 (version Null, SQL NULL), those of version 2, and those of        *)
(* version 3, the only ones written now.  The first two were hashed over   *)
(* the REAL cost column, which rounds; version 3 hashes an exact TEXT one. *)
(*                                                                         *)
(* A hash is a term: the previous hash with what is hashed appended, that  *)
(* is SHA-256 without collisions over canonical JSON.  What is hashed is   *)
(* not the row as it reads, but what the normaliser of its version leaves  *)
(* of it, and normalisers merge: versions 2 and 3 turn a number into       *)
(* decimal text, the oldest turned integers into floats.  Rows may be      *)
(* edited, removed or swapped behind the ledger's back, by people or by    *)
(* disks, which leaves their hashes as they were.                          *)
(***************************************************************************)
EXTENDS Integers, Sequences, FiniteSets

CONSTANTS
    Null,        \* SQL NULL, or nobody
    Writers,     \* threads and processes that append
    Bodies,      \* everything of a decision but its cost, as its JSON reads
    Canonical,   \* Canonical[v][b]: what the normaliser of version v makes of body b
    Costs,       \* exact costs
    Decisions,   \* what is appended: a body and a cost, or no cost
    Rounded,     \* Rounded[c]: the REAL that stores cost c
    OldRows,     \* tables that releases before this one may have left
    MaxRows,     \* bound on the length of the table
    MaxEdits     \* bound on damage

VARIABLES
    rows,        \* the table, by seq
    migrated,    \* whether the table has the columns of the current release
    lock,        \* who holds the write lock (BEGIN IMMEDIATE), or Null
    writers,     \* each writer: closed, open, or appending
    written,     \* history: every row an append committed, or an older release left
    edits        \* how often the table was damaged

ledgerVars == <<rows, migrated, lock, writers, written, edits>>

Genesis == <<>>
Versions == {Null, 2, 3}
Reals == {Rounded[c] : c \in Costs}

Forms == {Canonical[v][b] : v \in Versions, b \in Bodies}

Hashes == Seq([version : Versions, body : Forms, cost : Costs \cup Reals \cup {Null}])

LedgerRow ==
    [body : Bodies, exact : Costs \cup {Null}, real : Reals \cup {Null},
     version : Versions, prev : Hashes, hash : Hashes]

Appending == [phase : {"appending"}, body : Bodies, cost : Costs \cup {Null}, prev : Hashes]
Closed == [phase |-> "closed"]
Open == [phase |-> "open"]

ASSUME LedgerAssumption ==
    /\ OldRows \subseteq Seq([body : Bodies, cost : Costs, version : {Null, 2}])
    /\ Decisions \subseteq [body : Bodies, cost : Costs \cup {Null}]
    /\ Null \notin Writers \cup Costs \cup Reals \cup Nat
    /\ MaxRows \in Nat /\ MaxEdits \in Nat

-----------------------------------------------------------------------------
(* What a row says, and its hash. *)

(* The cost that is listed, and that the row's own release hashed.         *)
CostOf(row) == IF row.version = 3 THEN row.exact ELSE row.real

(* The cost has one form already, a REAL or the exact text of a number.    *)
Hashed(version, body, cost) ==
    [version |-> version, body |-> Canonical[version][body], cost |-> cost]

Hash(prev, version, body, cost) == Append(prev, Hashed(version, body, cost))

LastHash == IF rows = <<>> THEN Genesis ELSE rows[Len(rows)].hash

HashBefore(i) == IF i = 1 THEN Genesis ELSE rows[i-1].hash

NewRow(prev, body, cost) ==
    [body |-> body, exact |-> cost, real |-> IF cost = Null THEN Null ELSE Rounded[cost],
     version |-> 3, prev |-> prev, hash |-> Hash(prev, 3, body, cost)]

(* verify() walks the table: the chain is unbroken, and every row hashes,  *)
(* by the rules of its own version, to what is stored.                     *)
RowVerifies(i) ==
    /\ rows[i].prev = HashBefore(i)
    /\ rows[i].version \in Versions
    /\ rows[i].hash = Hash(HashBefore(i), rows[i].version, rows[i].body, CostOf(rows[i]))

Verified == \A i \in 1..Len(rows) : RowVerifies(i)

-----------------------------------------------------------------------------
(* Opening inspects the columns and adds the missing ones in one           *)
(* transaction, so two processes upgrading at once cannot both add them.   *)
OpenLedger(w) ==
    /\ writers[w] = Closed
    /\ lock = Null
    /\ migrated' = TRUE
    /\ writers' = [writers EXCEPT ![w] = Open]
    /\ UNCHANGED <<rows, lock, written, edits>>

(* Variant: the last hash is read before the write lock is taken.          *)
BeginEarly(w, body, cost) ==
    /\ writers[w] = Open
    /\ writers' = [writers EXCEPT ![w] =
          [phase |-> "appending", body |-> body, cost |-> cost, prev |-> LastHash]]
    /\ lock' = w
    /\ UNCHANGED <<rows, migrated, written, edits>>

(* append takes the write lock and only then reads the last hash.          *)
Begin(w, body, cost) ==
    /\ writers[w] = Open
    /\ lock = Null
    /\ lock' = w
    /\ writers' = [writers EXCEPT ![w] =
          [phase |-> "appending", body |-> body, cost |-> cost, prev |-> LastHash]]
    /\ UNCHANGED <<rows, migrated, written, edits>>

(* The row becomes visible, and durable, with the commit.  Its hash must   *)
(* not be in the table yet.                                                *)
CommitRow(w) ==
    /\ writers[w].phase = "appending"
    /\ Len(rows) < MaxRows
    /\ LET row == NewRow(writers[w].prev, writers[w].body, writers[w].cost)
       IN  /\ \A i \in 1..Len(rows) : rows[i].hash # row.hash
           /\ rows' = Append(rows, row)
           /\ written' = written \cup {row}
    /\ lock' = Null
    /\ writers' = [writers EXCEPT ![w] = Open]
    /\ UNCHANGED <<migrated, edits>>

(* An error rolls the transaction back; a crash does too, and closes.      *)
Rollback(w) ==
    /\ writers[w].phase = "appending"
    /\ lock' = Null
    /\ writers' = [writers EXCEPT ![w] = Open]
    /\ UNCHANGED <<rows, migrated, written, edits>>

WriterCrashes(w) ==
    /\ writers[w] # Closed
    /\ lock' = IF lock = w THEN Null ELSE lock
    /\ writers' = [writers EXCEPT ![w] = Closed]
    /\ UNCHANGED <<rows, migrated, written, edits>>

-----------------------------------------------------------------------------
(* Damage, at a moment when nobody holds the lock. *)

Damage(table) ==
    /\ edits < MaxEdits
    /\ lock = Null
    /\ rows' = table
    /\ edits' = edits + 1
    /\ UNCHANGED <<migrated, lock, writers, written>>

Edited(row) ==
    {[row EXCEPT !.body = b] : b \in Bodies}
        \cup {[row EXCEPT !.exact = c] : c \in Costs \cup {Null}}
        \cup {[row EXCEPT !.real = r] : r \in Reals \cup {Null}}
        \cup {[row EXCEPT !.version = v] : v \in Versions}
        \cup {[row EXCEPT !.prev = Genesis]}

EditRow(i) == \E row \in Edited(rows[i]) : Damage([rows EXCEPT ![i] = row])

DeleteRow(i) ==
    Damage([j \in 1..(Len(rows) - 1) |-> IF j < i THEN rows[j] ELSE rows[j+1]])

SwapRows(i) ==
    /\ i < Len(rows)
    /\ Damage([rows EXCEPT ![i] = rows[i+1], ![i+1] = rows[i]])

-----------------------------------------------------------------------------
(* A table as an older release left it.                                    *)
OldHash(old) ==
    [n \in 0..Len(old) |->
        [i \in 1..n |-> Hashed(old[i].version, old[i].body, Rounded[old[i].cost])]]

Left(old) ==
    [i \in 1..Len(old) |->
        [body |-> old[i].body, exact |-> Null, real |-> Rounded[old[i].cost],
         version |-> old[i].version, prev |-> OldHash(old)[i-1], hash |-> OldHash(old)[i]]]

LedgerInit ==
    /\ rows \in {Left(old) : old \in OldRows}
    /\ migrated = (rows = <<>>)
    /\ lock = Null
    /\ writers = [w \in Writers |-> Closed]
    /\ written = {rows[i] : i \in 1..Len(rows)}
    /\ edits = 0

LedgerNext ==
    \/ \E w \in Writers : OpenLedger(w) \/ CommitRow(w) \/ Rollback(w) \/ WriterCrashes(w)
    \/ \E w \in Writers, d \in Decisions : Begin(w, d.body, d.cost)
    \/ \E i \in 1..Len(rows) : EditRow(i) \/ DeleteRow(i) \/ SwapRows(i)

LedgerSpec == LedgerInit /\ [][LedgerNext]_ledgerVars

-----------------------------------------------------------------------------
(* Properties. *)

(* Every variable holds what its column or thread can hold, one writer at  *)
(* most holds the lock, and only a migrated table is appended to.          *)
LedgerTypeOK ==
    /\ rows \in Seq(LedgerRow)
    /\ migrated \in BOOLEAN
    /\ lock \in Writers \cup {Null}
    /\ writers \in [Writers -> {Closed, Open} \cup Appending]
    /\ written \subseteq LedgerRow
    /\ edits \in Nat
    /\ \A w \in Writers : writers[w] # Closed => migrated

(* What a row says, up to what its version's normaliser merges.            *)
Says(row) ==
    [content |-> Hashed(row.version, row.body, CostOf(row)), prev |-> row.prev, hash |-> row.hash]

Undamaged(i) ==
    /\ Says(rows[i]) \in {Says(row) : row \in written}
    /\ rows[i].prev = HashBefore(i)

(* verify() is neither fooled nor alarmed by anything but damage.  It      *)
(* succeeds exactly when every row says, up to what the normaliser of its  *)
(* version merges, what some append wrote, right after the row it was      *)
(* written after; and no interleaving of writers, rollback, crash or       *)
(* upgrade of an old table ever makes it fail by itself.  (So it does not  *)
(* notice an edit among values that normalise alike, 10 to 10.0 or to the  *)
(* text "1E+1", though list_entries shows it; nor a truncated tail; nor    *)
(* the unhashed REAL cost of a version 3 row, which nothing shows.)        *)
VerifyTellsDamage ==
    /\ Verified <=> \A i \in 1..Len(rows) : Undamaged(i)
    /\ edits = 0 => Verified
=============================================================================
