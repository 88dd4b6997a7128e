------------------------ MODULE DecisionLedgerProofs ------------------------
(***************************************************************************)
(* Theorems about DecisionLedger, for every set of writers, bodies and     *)
(* costs, every rounding, every normalisation, tables of any length and    *)
(* any amount of damage: its types, and that verification tells damage to  *)
(* the normalised content, or to the chain, from everything else.          *)
(***************************************************************************)
EXTENDS DecisionLedger, SequenceTheorems, TLAPS

-----------------------------------------------------------------------------
(* Rows and hashes. *)

Entries == [version : Versions, body : Forms, cost : Costs \cup Reals \cup {Null}]

LEMMA HashedType ==
  ASSUME NEW version \in Versions, NEW body \in Bodies, NEW cost \in Costs \cup Reals \cup {Null}
  PROVE  Hashed(version, body, cost) \in Entries
  <1>1. Canonical[version][body] \in Forms
    BY DEF Forms
  <1> QED
    BY <1>1 DEF Hashed, Entries

LEMMA HashType ==
  ASSUME NEW prev \in Hashes, NEW version \in Versions, NEW body \in Bodies,
         NEW cost \in Costs \cup Reals \cup {Null}
  PROVE  Hash(prev, version, body, cost) \in Hashes
  BY HashedType, AppendProperties DEF Hash, Hashes, Entries

(* SHA-256 without collisions: a hash says what was hashed, which is the   *)
(* normalised content.                                                     *)
LEMMA HashInjective ==
  ASSUME NEW p \in Hashes, NEW v \in Versions, NEW b \in Bodies,
         NEW c \in Costs \cup Reals \cup {Null},
         NEW p2 \in Hashes, NEW v2 \in Versions, NEW b2 \in Bodies,
         NEW c2 \in Costs \cup Reals \cup {Null},
         Hash(p, v, b, c) = Hash(p2, v2, b2, c2)
  PROVE  p = p2 /\ Hashed(v, b, c) = Hashed(v2, b2, c2)
  <1>1. Hashed(v, b, c) \in Entries /\ Hashed(v2, b2, c2) \in Entries
    BY HashedType
  <1>2. p \in Seq(Entries) /\ p2 \in Seq(Entries)
    BY DEF Hashes, Entries
  <1>3. Append(p, Hashed(v, b, c)) = Append(p2, Hashed(v2, b2, c2))
    BY DEF Hash
  <1> QED
    BY <1>1, <1>2, <1>3, AppendInjective

LEMMA RowType ==
  ASSUME LedgerTypeOK, NEW i \in 1..Len(rows)
  PROVE  /\ rows[i] \in LedgerRow
         /\ rows[i].body \in Bodies
         /\ rows[i].version \in Versions
         /\ rows[i].prev \in Hashes
         /\ rows[i].hash \in Hashes
         /\ CostOf(rows[i]) \in Costs \cup Reals \cup {Null}
  <1>1. rows[i] \in LedgerRow
    BY ElementOfSeq DEF LedgerTypeOK
  <1> QED
    BY <1>1 DEF LedgerRow, CostOf

LEMMA LastHashType ==
  ASSUME LedgerTypeOK
  PROVE  LastHash \in Hashes
  <1>1. Genesis \in Hashes
    BY EmptySeq DEF Genesis, Hashes
  <1>2. rows # <<>> => Len(rows) \in 1..Len(rows)
    BY EmptySeq DEF LedgerTypeOK
  <1> QED
    BY <1>1, <1>2, RowType DEF LastHash

LEMMA NewRowType ==
  ASSUME NEW prev \in Hashes, NEW body \in Bodies, NEW cost \in Costs \cup {Null}
  PROVE  /\ NewRow(prev, body, cost) \in LedgerRow
         /\ NewRow(prev, body, cost).prev = prev
         /\ NewRow(prev, body, cost).hash = Hash(prev, 3, body, cost)
         /\ NewRow(prev, body, cost).version = 3
         /\ NewRow(prev, body, cost).body = body
         /\ CostOf(NewRow(prev, body, cost)) = cost
  <1>1. 3 \in Versions
    BY DEF Versions
  <1>2. Hash(prev, 3, body, cost) \in Hashes
    BY <1>1, HashType
  <1>3. (IF cost = Null THEN Null ELSE Rounded[cost]) \in Reals \cup {Null}
    BY DEF Reals
  <1> QED
    BY <1>1, <1>2, <1>3 DEF NewRow, LedgerRow, CostOf

-----------------------------------------------------------------------------
(* What holds of the table in every reachable state. *)

(* Whoever appends holds the lock, and has read the last hash under it.    *)
Serialised ==
  \A w \in Writers : writers[w].phase = "appending" =>
      lock = w /\ writers[w].prev = LastHash

(* Every row that was ever written hashes to its own hash.                 *)
WellHashed ==
  \A row \in written : row.hash = Hash(row.prev, row.version, row.body, CostOf(row))

(* Damage leaves hashes as they were, and ...                              *)
HashesWritten ==
  \A i \in 1..Len(rows) : \E row \in written : rows[i].hash = row.hash

(* ... without damage the rows are those written, each after the one it    *)
(* was written after.                                                      *)
Intact ==
  edits = 0 => \A i \in 1..Len(rows) : rows[i] \in written /\ rows[i].prev = HashBefore(i)

LedgerInv == LedgerTypeOK /\ Serialised /\ WellHashed /\ HashesWritten /\ Intact

-----------------------------------------------------------------------------
(* Tables left by older releases. *)

LEMMA OldHashType ==
  ASSUME NEW old \in OldRows
  PROVE  /\ Len(old) \in Nat
         /\ \A n \in 0..Len(old) : OldHash(old)[n] \in Hashes
         /\ OldHash(old)[0] = Genesis
         /\ \A i \in 1..Len(old) :
               OldHash(old)[i] = Hash(OldHash(old)[i-1], old[i].version, old[i].body,
                                      Rounded[old[i].cost])
  <1> DEFINE Old == [body : Bodies, cost : Costs, version : {Null, 2}]
             e(i) == Hashed(old[i].version, old[i].body, Rounded[old[i].cost])
  <1>1. old \in Seq(Old) /\ Len(old) \in Nat
    BY LedgerAssumption, LenProperties
  <1>2. \A i \in 1..Len(old) : e(i) \in Entries
    <2> SUFFICES ASSUME NEW i \in 1..Len(old) PROVE e(i) \in Entries
      OBVIOUS
    <2>1. old[i] \in Old
      BY <1>1, ElementOfSeq
    <2> QED
      BY <2>1, HashedType DEF Versions, Reals
  <1> HIDE DEF e
  <1>3. \A n \in 0..Len(old) : OldHash(old)[n] = [i \in 1..n |-> e(i)]
    BY DEF OldHash, e
  <1>4. \A n \in 0..Len(old) : OldHash(old)[n] \in Seq(Entries)
    <2> SUFFICES ASSUME NEW n \in 0..Len(old) PROVE [i \in 1..n |-> e(i)] \in Seq(Entries)
      BY <1>3
    <2>1. n \in Nat /\ \A i \in 1..n : e(i) \in Entries
      BY <1>1, <1>2
    <2> QED
      BY <2>1
  <1>5. OldHash(old)[0] = Genesis
    <2>1. 0 \in 0..Len(old)
      BY <1>1
    <2>2. OldHash(old)[0] \in Seq(Entries) /\ OldHash(old)[0] = [i \in 1..0 |-> e(i)]
      BY <1>3, <1>4, <2>1
    <2>3. Len(OldHash(old)[0]) = 0
      BY <2>2
    <2> QED
      BY <2>2, <2>3, EmptySeq DEF Genesis
  <1>6. ASSUME NEW i \in 1..Len(old)
        PROVE  OldHash(old)[i] = Append(OldHash(old)[i-1], e(i))
    <2>1. i - 1 \in 0..Len(old) /\ i \in 0..Len(old) /\ i - 1 \in Nat /\ i \in Nat
      BY <1>1
    <2> DEFINE s == [j \in 1..(i-1) |-> e(j)]
               t == [j \in 1..i |-> e(j)]
    <2>2. OldHash(old)[i-1] = s /\ OldHash(old)[i] = t
      BY <1>3, <2>1
    <2>3. s \in Seq(Entries) /\ t \in Seq(Entries) /\ e(i) \in Entries
      BY <1>2, <1>4, <2>1, <2>2
    <2>4. Len(s) = i - 1 /\ Len(t) = i
      BY <2>1
    <2>5. \A j \in 1..Len(t) : Append(s, e(i))[j] = t[j]
      BY <2>1, <2>3, <2>4, AppendProperties
    <2>6. Append(s, e(i)) \in Seq(Entries) /\ Len(Append(s, e(i))) = Len(t)
      BY <2>1, <2>3, <2>4, AppendProperties
    <2> HIDE DEF s, t
    <2>7. Append(s, e(i)) = t
      BY <2>3, <2>5, <2>6, SeqEqual
    <2> QED
      BY <2>2, <2>7
  <1>7. \A n \in 0..Len(old) : OldHash(old)[n] \in Hashes
    BY <1>4 DEF Hashes, Entries
  <1> QED
    BY <1>1, <1>5, <1>6, <1>7 DEF Hash, e

LEMMA LedgerInitInv ==
  ASSUME LedgerInit
  PROVE  LedgerInv
  <1>1. PICK old \in OldRows : rows = Left(old)
    BY DEF LedgerInit
  <1> DEFINE Old == [body : Bodies, cost : Costs, version : {Null, 2}]
  <1>2. old \in Seq(Old) /\ Len(old) \in Nat
    BY LedgerAssumption, LenProperties
  <1>3. Len(rows) = Len(old) /\ DOMAIN rows = 1..Len(old)
    BY <1>1, <1>2 DEF Left
  <1>4. ASSUME NEW i \in 1..Len(old)
        PROVE  /\ rows[i] \in LedgerRow
               /\ rows[i].hash = Hash(rows[i].prev, rows[i].version, rows[i].body, CostOf(rows[i]))
               /\ rows[i].prev = OldHash(old)[i-1]
               /\ rows[i].hash = OldHash(old)[i]
    <2>1. old[i] \in Old
      BY <1>2, ElementOfSeq
    <2>2. rows[i] = [body |-> old[i].body, exact |-> Null, real |-> Rounded[old[i].cost],
                     version |-> old[i].version, prev |-> OldHash(old)[i-1],
                     hash |-> OldHash(old)[i]]
      BY <1>1, <1>2 DEF Left
    <2>3. i - 1 \in 0..Len(old) /\ i \in 0..Len(old)
      BY <1>2
    <2>4. OldHash(old)[i-1] \in Hashes /\ OldHash(old)[i] \in Hashes
      BY <2>3, OldHashType
    <2>5. Rounded[old[i].cost] \in Reals /\ old[i].body \in Bodies /\ old[i].version \in Versions
      BY <2>1 DEF Reals, Versions
    <2>6. rows[i] \in LedgerRow
      BY <2>2, <2>4, <2>5 DEF LedgerRow
    <2>7. old[i].version # 3
      BY <2>1, LedgerAssumption
    <2>8. CostOf(rows[i]) = Rounded[old[i].cost]
      BY <2>2, <2>7 DEF CostOf
    <2>9. OldHash(old)[i] = Hash(OldHash(old)[i-1], old[i].version, old[i].body, Rounded[old[i].cost])
      BY OldHashType
    <2> QED
      BY <2>2, <2>6, <2>8, <2>9
  <1>5. rows \in Seq(LedgerRow)
    <2>1. rows = [i \in 1..Len(old) |-> rows[i]]
      BY <1>1, <1>2 DEF Left
    <2>2. [i \in 1..Len(old) |-> rows[i]] \in Seq(LedgerRow)
      BY <1>2, <1>4
    <2> QED
      BY <2>1, <2>2
  <1>6. written = {rows[i] : i \in 1..Len(rows)}
    BY DEF LedgerInit
  <1>7. LedgerTypeOK
    <2>1. \A w \in Writers : writers[w] = Closed
      BY DEF LedgerInit
    <2>2. writers \in [Writers -> {Closed, Open} \cup Appending]
      BY DEF LedgerInit
    <2>3. written \subseteq LedgerRow
      BY <1>3, <1>4, <1>6
    <2>4. migrated \in BOOLEAN /\ lock \in Writers \cup {Null} /\ edits \in Nat
      BY DEF LedgerInit
    <2> QED
      BY <1>5, <2>1, <2>2, <2>3, <2>4 DEF LedgerTypeOK
  <1>8. Serialised
    BY DEF LedgerInit, Serialised, Closed
  <1>9. WellHashed
    BY <1>3, <1>4, <1>6 DEF WellHashed
  <1>10. HashesWritten
    BY <1>6 DEF HashesWritten
  <1>11. Intact
    <2> SUFFICES ASSUME NEW i \in 1..Len(rows)
                 PROVE  rows[i] \in written /\ rows[i].prev = HashBefore(i)
      BY DEF Intact
    <2>1. i = 1 \/ i - 1 \in 1..Len(old)
      BY <1>2, <1>3
    <2>2. i = 1 => rows[i].prev = Genesis
      BY <1>3, <1>4, OldHashType
    <2>3. i - 1 \in 1..Len(old) => rows[i].prev = rows[i-1].hash
      BY <1>3, <1>4
    <2>4. i - 1 \in 1..Len(old) => i # 1
      BY <1>2
    <2> QED
      BY <1>6, <2>1, <2>2, <2>3, <2>4 DEF HashBefore
  <1> QED
    BY <1>7, <1>8, <1>9, <1>10, <1>11 DEF LedgerInv

-----------------------------------------------------------------------------
(* The steps of LedgerNext. *)

LEMMA AppendingType ==
  ASSUME LedgerTypeOK, NEW w \in Writers, writers[w].phase = "appending"
  PROVE  /\ writers[w].body \in Bodies
         /\ writers[w].cost \in Costs \cup {Null}
         /\ writers[w].prev \in Hashes
  <1>1. writers[w] \in {Closed, Open} \cup Appending
    BY DEF LedgerTypeOK
  <1>2. writers[w] \in Appending
    BY <1>1 DEF Closed, Open
  <1> QED
    BY <1>2 DEF Appending

(* A step that leaves the table and its history alone keeps what is said   *)
(* of them.                                                                *)
LEMMA TableUnchanged ==
  ASSUME WellHashed, HashesWritten, Intact, UNCHANGED <<rows, written, edits>>
  PROVE  WellHashed' /\ HashesWritten' /\ Intact'
  BY DEF WellHashed, HashesWritten, Intact, HashBefore, CostOf, Hash, Hashed

LEMMA OpenLedgerInv ==
  ASSUME LedgerInv, NEW w \in Writers, OpenLedger(w)
  PROVE  LedgerInv'
  <1>1. LedgerTypeOK'
    BY DEF LedgerInv, LedgerTypeOK, OpenLedger
  <1>2. Serialised'
    <2>1. UNCHANGED rows
      BY DEF OpenLedger
    <2>2. \A x \in Writers : writers'[x] = writers[x] \/ writers'[x] = Open
      BY DEF LedgerInv, LedgerTypeOK, OpenLedger
    <2>3. UNCHANGED lock
      BY DEF OpenLedger
    <2> QED
      BY <2>1, <2>2, <2>3 DEF LedgerInv, Serialised, LastHash, Open
  <1>3. WellHashed' /\ HashesWritten' /\ Intact'
    BY TableUnchanged DEF LedgerInv, OpenLedger
  <1> QED
    BY <1>1, <1>2, <1>3 DEF LedgerInv

LEMMA BeginInv ==
  ASSUME LedgerInv, NEW w \in Writers, NEW body \in Bodies, NEW cost \in Costs \cup {Null},
         Begin(w, body, cost)
  PROVE  LedgerInv'
  <1> DEFINE a == [phase |-> "appending", body |-> body, cost |-> cost, prev |-> LastHash]
  <1>1. /\ writers' = [writers EXCEPT ![w] = a]
        /\ lock = Null /\ lock' = w
        /\ UNCHANGED <<rows, migrated, written, edits>>
        /\ writers[w] = Open
    BY DEF Begin
  <1>2. LedgerTypeOK /\ Serialised /\ WellHashed /\ HashesWritten /\ Intact
    BY DEF LedgerInv
  <1>3. a \in Appending
    BY <1>2, LastHashType DEF Appending
  <1>4. a.phase = "appending" /\ a.prev = LastHash
    OBVIOUS
  <1> HIDE DEF a
  <1>5. migrated
    BY <1>1, <1>2 DEF LedgerTypeOK, Open, Closed
  <1>6. LedgerTypeOK'
    BY <1>1, <1>2, <1>3, <1>5 DEF LedgerTypeOK
  <1>7. Serialised'
    <2>1. \A x \in Writers : writers[x].phase # "appending"
      BY <1>1, <1>2, LedgerAssumption DEF Serialised
    <2>2. \A x \in Writers : x # w => writers'[x] = writers[x]
      BY <1>1, <1>2 DEF LedgerTypeOK
    <2>3. writers'[w] = a
      BY <1>1, <1>2 DEF LedgerTypeOK
    <2>4. LastHash' = LastHash
      BY <1>1 DEF LastHash
    <2> QED
      BY <1>1, <1>4, <2>1, <2>2, <2>3, <2>4 DEF Serialised
  <1>8. WellHashed' /\ HashesWritten' /\ Intact'
    BY <1>1, <1>2, TableUnchanged
  <1> QED
    BY <1>6, <1>7, <1>8 DEF LedgerInv

LEMMA RollbackInv ==
  ASSUME LedgerInv, NEW w \in Writers, Rollback(w) \/ WriterCrashes(w)
  PROVE  LedgerInv'
  <1>1. LedgerTypeOK /\ Serialised /\ WellHashed /\ HashesWritten /\ Intact
    BY DEF LedgerInv
  <1>2. /\ UNCHANGED <<rows, migrated, written, edits>>
        /\ writers' = [writers EXCEPT ![w] = Open] \/ writers' = [writers EXCEPT ![w] = Closed]
    BY DEF Rollback, WriterCrashes
  <1>3. writers[w] # Closed
    BY DEF Rollback, WriterCrashes, Closed
  <1>4. migrated
    BY <1>1, <1>3 DEF LedgerTypeOK
  <1>5. lock' \in {lock, Null}
    BY DEF Rollback, WriterCrashes
  <1>6. LedgerTypeOK'
    BY <1>1, <1>2, <1>4, <1>5 DEF LedgerTypeOK
  <1>7. Serialised'
    <2> SUFFICES ASSUME NEW x \in Writers, writers'[x].phase = "appending"
                 PROVE  lock' = x /\ writers'[x].prev = LastHash'
      BY DEF Serialised
    <2>1. x # w
      BY <1>1, <1>2 DEF LedgerTypeOK, Open, Closed
    <2>2. writers'[x] = writers[x]
      BY <1>1, <1>2, <2>1 DEF LedgerTypeOK
    <2>3. lock = x /\ writers[x].prev = LastHash
      BY <1>1, <2>2 DEF Serialised
    <2>4. writers[w].phase # "appending"
      BY <1>1, <2>1, <2>3 DEF Serialised
    <2>5. lock' = lock
      BY <2>1, <2>3, <2>4 DEF Rollback, WriterCrashes
    <2>6. LastHash' = LastHash
      BY <1>2 DEF LastHash
    <2> QED
      BY <2>2, <2>3, <2>5, <2>6
  <1>8. WellHashed' /\ HashesWritten' /\ Intact'
    BY <1>1, <1>2, TableUnchanged
  <1> QED
    BY <1>6, <1>7, <1>8 DEF LedgerInv

LEMMA CommitRowInv ==
  ASSUME LedgerInv, NEW w \in Writers, CommitRow(w)
  PROVE  LedgerInv'
  <1>1. LedgerTypeOK /\ Serialised /\ WellHashed /\ HashesWritten /\ Intact
    BY DEF LedgerInv
  <1> DEFINE n == Len(rows)
             row == NewRow(writers[w].prev, writers[w].body, writers[w].cost)
  <1>2. /\ writers[w].phase = "appending"
        /\ rows' = Append(rows, row)
        /\ written' = written \cup {row}
        /\ lock' = Null
        /\ writers' = [writers EXCEPT ![w] = Open]
        /\ UNCHANGED <<migrated, edits>>
    BY DEF CommitRow
  <1>3. lock = w /\ writers[w].prev = LastHash
    BY <1>1, <1>2 DEF Serialised
  <1>4. /\ row \in LedgerRow
        /\ row.prev = LastHash
        /\ row.hash = Hash(row.prev, row.version, row.body, CostOf(row))
    BY <1>1, <1>2, <1>3, AppendingType, NewRowType
  <1> HIDE DEF row
  <1>5. n \in Nat /\ rows \in Seq(LedgerRow)
    BY <1>1, LenProperties DEF LedgerTypeOK
  <1>6. /\ rows' \in Seq(LedgerRow)
        /\ Len(rows') = n + 1
        /\ \A i \in 1..n : rows'[i] = rows[i]
        /\ rows'[n+1] = row
    BY <1>2, <1>4, <1>5, AppendProperties
  <1>7. LedgerTypeOK'
    <2>1. writers[w] # Closed
      BY <1>2 DEF Closed
    <2>2. migrated
      BY <1>1, <2>1 DEF LedgerTypeOK
    <2> QED
      BY <1>1, <1>2, <1>4, <1>6, <2>2 DEF LedgerTypeOK
  <1>8. Serialised'
    <2>1. \A x \in Writers : x # w => writers[x].phase # "appending"
      BY <1>1, <1>3 DEF Serialised
    <2>2. \A x \in Writers : x # w => writers'[x] = writers[x]
      BY <1>1, <1>2 DEF LedgerTypeOK
    <2>3. writers'[w] = Open
      BY <1>1, <1>2 DEF LedgerTypeOK
    <2> QED
      BY <2>1, <2>2, <2>3 DEF Serialised, Open
  <1>9. WellHashed'
    BY <1>1, <1>2, <1>4 DEF WellHashed, CostOf, Hash, Hashed
  <1> HIDE DEF n
  <1>10. \A i \in 1..(n+1) : i \in 1..n \/ i = n + 1
    BY <1>5
  <1>11. HashesWritten'
    <2> SUFFICES ASSUME NEW i \in 1..(n+1)
                 PROVE  \E r \in written' : rows'[i].hash = r.hash
      BY <1>6 DEF HashesWritten
    <2>1. CASE i \in 1..n
      BY <1>1, <1>2, <1>6, <2>1 DEF HashesWritten, n
    <2>2. CASE i = n + 1
      BY <1>2, <1>6, <2>2
    <2> QED
      BY <1>10, <2>1, <2>2
  <1>12. Intact'
    <2> SUFFICES ASSUME edits = 0, NEW i \in 1..(n+1)
                 PROVE  rows'[i] \in written' /\ rows'[i].prev = HashBefore(i)'
      BY <1>2, <1>6 DEF Intact
    <2>1. CASE i \in 1..n
      <3>1. rows[i] \in written /\ rows[i].prev = HashBefore(i)
        BY <1>1, <2>1 DEF Intact, n
      <3>2. i # 1 => i - 1 \in 1..n
        BY <1>5, <2>1
      <3>3. HashBefore(i)' = HashBefore(i)
        BY <1>6, <2>1, <3>2 DEF HashBefore
      <3> QED
        BY <1>2, <1>6, <2>1, <3>1, <3>3
    <2>2. CASE i = n + 1
      <3>1. rows = <<>> <=> n = 0
        BY <1>5, EmptySeq DEF n
      <3>2. n # 0 => n \in 1..n /\ i # 1 /\ i - 1 = n
        BY <1>5, <2>2
      <3>3. n = 0 => i = 1
        BY <2>2
      <3>4. HashBefore(i)' = LastHash
        BY <1>6, <3>1, <3>2, <3>3 DEF HashBefore, LastHash, n
      <3> QED
        BY <1>2, <1>4, <1>6, <2>2, <3>4
    <2> QED
      BY <1>10, <2>1, <2>2
  <1> QED
    BY <1>7, <1>8, <1>9, <1>11, <1>12 DEF LedgerInv

(* Damage leaves everything but the table, and the table's hashes come     *)
(* from what was written.                                                  *)
LEMMA DamageInv ==
  ASSUME LedgerInv, NEW table \in Seq(LedgerRow), Damage(table),
         \A i \in 1..Len(table) : \E j \in 1..Len(rows) : table[i].hash = rows[j].hash
  PROVE  LedgerInv'
  <1>1. LedgerTypeOK /\ Serialised /\ WellHashed /\ HashesWritten /\ Intact
    BY DEF LedgerInv
  <1>2. /\ rows' = table /\ edits' = edits + 1 /\ lock = Null
        /\ UNCHANGED <<migrated, lock, writers, written>>
    BY DEF Damage
  <1>3. LedgerTypeOK'
    BY <1>1, <1>2 DEF LedgerTypeOK
  <1>4. Serialised'
    BY <1>1, <1>2, LedgerAssumption DEF Serialised
  <1>5. WellHashed'
    BY <1>1, <1>2 DEF WellHashed, CostOf, Hash, Hashed
  <1>6. HashesWritten'
    BY <1>1, <1>2 DEF HashesWritten
  <1>7. Intact'
    BY <1>1, <1>2 DEF Intact, LedgerTypeOK
  <1> QED
    BY <1>3, <1>4, <1>5, <1>6, <1>7 DEF LedgerInv

LEMMA EditRowInv ==
  ASSUME LedgerInv, NEW i \in 1..Len(rows), EditRow(i)
  PROVE  LedgerInv'
  <1>1. LedgerTypeOK /\ rows \in Seq(LedgerRow) /\ Len(rows) \in Nat
    BY LenProperties DEF LedgerInv, LedgerTypeOK
  <1>2. PICK row \in Edited(rows[i]) : Damage([rows EXCEPT ![i] = row])
    BY DEF EditRow
  <1>3. rows[i] \in LedgerRow
    BY <1>1, RowType
  <1>4. Genesis \in Hashes
    BY EmptySeq DEF Genesis, Hashes
  <1>5. row \in LedgerRow /\ row.hash = rows[i].hash
    BY <1>2, <1>3, <1>4 DEF Edited, LedgerRow
  <1> DEFINE table == [rows EXCEPT ![i] = row]
  <1>6. /\ table \in Seq(LedgerRow) /\ Len(table) = Len(rows)
        /\ \A j \in 1..Len(rows) : table[j] = IF j = i THEN row ELSE rows[j]
    BY <1>1, <1>5, ExceptSeq
  <1>7. Damage(table)
    BY <1>2
  <1> HIDE DEF table
  <1>8. \A j \in 1..Len(table) : table[j].hash = rows[j].hash
    BY <1>5, <1>6
  <1> QED
    BY <1>6, <1>7, <1>8, DamageInv

LEMMA DeleteRowInv ==
  ASSUME LedgerInv, NEW i \in 1..Len(rows), DeleteRow(i)
  PROVE  LedgerInv'
  <1>1. LedgerTypeOK /\ rows \in Seq(LedgerRow) /\ Len(rows) \in Nat
    BY LenProperties DEF LedgerInv, LedgerTypeOK
  <1> DEFINE n == Len(rows) - 1
             r(j) == IF j < i THEN rows[j] ELSE rows[j+1]
             table == [j \in 1..n |-> r(j)]
  <1>2. n \in Nat
    BY <1>1
  <1>3. \A j \in 1..n : \E k \in 1..Len(rows) : r(j) = rows[k]
    BY <1>1
  <1>4. \A j \in 1..n : r(j) \in LedgerRow
    BY <1>1, <1>3, RowType
  <1>5. Damage(table)
    BY DEF DeleteRow
  <1> HIDE DEF n, r
  <1>6. table \in Seq(LedgerRow) /\ Len(table) = n
    BY <1>2, <1>4
  <1>7. \A j \in 1..Len(table) : \E k \in 1..Len(rows) : table[j].hash = rows[k].hash
    BY <1>3, <1>6
  <1> HIDE DEF table
  <1> QED
    BY <1>5, <1>6, <1>7, DamageInv

LEMMA SwapRowsInv ==
  ASSUME LedgerInv, NEW i \in 1..Len(rows), SwapRows(i)
  PROVE  LedgerInv'
  <1>1. LedgerTypeOK /\ rows \in Seq(LedgerRow) /\ Len(rows) \in Nat
    BY LenProperties DEF LedgerInv, LedgerTypeOK
  <1>2. i + 1 \in 1..Len(rows)
    BY <1>1 DEF SwapRows
  <1>3. rows[i] \in LedgerRow /\ rows[i+1] \in LedgerRow
    BY <1>1, <1>2, RowType
  <1> DEFINE half == [rows EXCEPT ![i] = rows[i+1]]
             table == [half EXCEPT ![i+1] = rows[i]]
  <1>4. /\ half \in Seq(LedgerRow) /\ Len(half) = Len(rows)
        /\ \A j \in 1..Len(rows) : half[j] = IF j = i THEN rows[i+1] ELSE rows[j]
    BY <1>1, <1>3, ExceptSeq
  <1>5. Damage(table)
    BY DEF SwapRows
  <1> HIDE DEF half
  <1>6. /\ table \in Seq(LedgerRow) /\ Len(table) = Len(half)
        /\ \A j \in 1..Len(half) : table[j] = IF j = i + 1 THEN rows[i] ELSE half[j]
    BY <1>2, <1>3, <1>4, ExceptSeq
  <1> HIDE DEF table
  <1>7. \A j \in 1..Len(table) : \E k \in 1..Len(rows) : table[j].hash = rows[k].hash
    BY <1>2, <1>4, <1>6
  <1> QED
    BY <1>5, <1>6, <1>7, DamageInv

LEMMA LedgerStepInv ==
  ASSUME LedgerInv, [LedgerNext]_ledgerVars
  PROVE  LedgerInv'
  <1>1. CASE LedgerNext
    <2>1. \A d \in Decisions : d.body \in Bodies /\ d.cost \in Costs \cup {Null}
      BY LedgerAssumption
    <2>2. ASSUME NEW w \in Writers, NEW d \in Decisions, Begin(w, d.body, d.cost)
          PROVE  LedgerInv'
      BY <2>1, <2>2, BeginInv
    <2> QED
      BY <1>1, <2>2, OpenLedgerInv, CommitRowInv, RollbackInv, EditRowInv, DeleteRowInv,
         SwapRowsInv DEF LedgerNext
  <1>2. CASE UNCHANGED ledgerVars
    <2>1. UNCHANGED rows /\ UNCHANGED migrated /\ UNCHANGED lock /\ UNCHANGED writers
          /\ UNCHANGED written /\ UNCHANGED edits
      BY <1>2 DEF ledgerVars
    <2>2. LedgerTypeOK' /\ Serialised'
      BY <2>1 DEF LedgerInv, LedgerTypeOK, Serialised, LastHash
    <2> QED
      BY <2>1, <2>2, TableUnchanged DEF LedgerInv
  <1> QED
    BY <1>1, <1>2

-----------------------------------------------------------------------------
(* What follows from the invariant. *)

LEMMA InvTellsDamage ==
  ASSUME LedgerInv
  PROVE  VerifyTellsDamage
  <1>1. LedgerTypeOK /\ WellHashed /\ HashesWritten /\ Intact
    BY DEF LedgerInv
  <1>2. \A row \in written :
           /\ row \in LedgerRow
           /\ CostOf(row) \in Costs \cup Reals \cup {Null}
    BY <1>1 DEF LedgerTypeOK, LedgerRow, CostOf
  <1>3. \A i \in 1..Len(rows) : HashBefore(i) \in Hashes
    <2> TAKE i \in 1..Len(rows)
    <2>1. Len(rows) \in Nat
      BY <1>1, LenProperties DEF LedgerTypeOK
    <2>2. i = 1 \/ (i # 1 /\ i - 1 \in 1..Len(rows))
      BY <2>1
    <2>3. Genesis \in Hashes
      BY EmptySeq DEF Genesis, Hashes
    <2> QED
      BY <1>1, <2>2, <2>3, RowType DEF HashBefore
  <1>4. ASSUME NEW i \in 1..Len(rows), Undamaged(i)
        PROVE  RowVerifies(i)
    <2>1. PICK row \in written : Says(rows[i]) = Says(row)
      BY <1>4 DEF Undamaged
    <2>2. /\ Hashed(rows[i].version, rows[i].body, CostOf(rows[i]))
               = Hashed(row.version, row.body, CostOf(row))
          /\ rows[i].prev = row.prev /\ rows[i].hash = row.hash
      BY <2>1 DEF Says
    <2>3. row.hash = Hash(row.prev, row.version, row.body, CostOf(row))
      BY <1>1 DEF WellHashed
    <2>4. rows[i].prev = HashBefore(i)
      BY <1>4 DEF Undamaged
    <2>5. rows[i].version \in Versions
      BY <1>1, RowType
    <2> QED
      BY <2>2, <2>3, <2>4, <2>5 DEF RowVerifies, Hash
  <1>5. ASSUME NEW i \in 1..Len(rows), RowVerifies(i)
        PROVE  Undamaged(i)
    <2>1. PICK row \in written : rows[i].hash = row.hash
      BY <1>1 DEF HashesWritten
    <2>2. row.hash = Hash(row.prev, row.version, row.body, CostOf(row))
      BY <1>1 DEF WellHashed
    <2>3. /\ rows[i].prev = HashBefore(i)
          /\ rows[i].hash = Hash(HashBefore(i), rows[i].version, rows[i].body, CostOf(rows[i]))
      BY <1>5 DEF RowVerifies
    <2>4. /\ rows[i].version \in Versions /\ rows[i].body \in Bodies
          /\ CostOf(rows[i]) \in Costs \cup Reals \cup {Null}
      BY <1>1, RowType
    <2>5. /\ row.prev \in Hashes /\ row.version \in Versions /\ row.body \in Bodies
          /\ CostOf(row) \in Costs \cup Reals \cup {Null}
      BY <1>2 DEF LedgerRow
    <2>6. /\ HashBefore(i) = row.prev
          /\ Hashed(rows[i].version, rows[i].body, CostOf(rows[i]))
               = Hashed(row.version, row.body, CostOf(row))
      <3>1. Hash(HashBefore(i), rows[i].version, rows[i].body, CostOf(rows[i]))
              = Hash(row.prev, row.version, row.body, CostOf(row))
        BY <2>1, <2>2, <2>3
      <3> QED
        BY <1>3, <2>4, <2>5, <3>1, HashInjective
    <2>7. Says(rows[i]) = Says(row)
      BY <2>1, <2>3, <2>6 DEF Says
    <2> QED
      BY <2>3, <2>7 DEF Undamaged
  <1>6. edits = 0 => \A i \in 1..Len(rows) : Undamaged(i)
    BY <1>1 DEF Intact, Undamaged
  <1> QED
    BY <1>4, <1>5, <1>6 DEF VerifyTellsDamage, Verified

-----------------------------------------------------------------------------
(* The types: in particular, only a migrated table is ever appended to.    *)
THEOREM LedgerTypes == LedgerSpec => []LedgerTypeOK
  <1>1. LedgerInit => LedgerInv
    BY LedgerInitInv
  <1>2. LedgerInv /\ [LedgerNext]_ledgerVars => LedgerInv'
    BY LedgerStepInv
  <1>3. LedgerInv => LedgerTypeOK
    BY DEF LedgerInv
  <1> QED
    BY <1>1, <1>2, <1>3, PTL DEF LedgerSpec

(* verify() succeeds exactly when every row has the normalised content of  *)
(* one that an append wrote, in its place, and nothing but damage makes it *)
(* fail.                                                                   *)
THEOREM LedgerVerifyTellsDamage == LedgerSpec => []VerifyTellsDamage
  <1>1. LedgerInit => LedgerInv
    BY LedgerInitInv
  <1>2. LedgerInv /\ [LedgerNext]_ledgerVars => LedgerInv'
    BY LedgerStepInv
  <1>3. LedgerInv => VerifyTellsDamage
    BY InvTellsDamage
  <1> QED
    BY <1>1, <1>2, <1>3, PTL DEF LedgerSpec
=============================================================================
