------------------------ MODULE AuthorityStoreProofs ------------------------
(***************************************************************************)
(* Theorems about AuthorityStore, for every set of grants and attempts,    *)
(* every amount, every clock and every delegation tree: money, rates,      *)
(* chains of authority, what has lapsed, and the refinement of             *)
(* BudgetEscrow.                                                           *)
(***************************************************************************)
EXTENDS AuthorityStore, FiniteSetTheorems, WellFoundedInduction, TLAPS

-----------------------------------------------------------------------------
(* Type correctness. *)

LEMMA PosPartType ==
  ASSUME NEW n \in Int
  PROVE  PosPart(n) \in Nat
  BY DEF PosPart

LEMMA SettledStatusType ==
  ASSUME NEW status \in Statuses, NEW remaining \in Int
  PROVE  SettledStatus(status, remaining) \in Statuses
  BY DEF SettledStatus, Statuses

(* A row rewritten with a new balance and status is still a row.           *)
LEMMA RowUpdate ==
  ASSUME NEW row \in GrantRow, NEW remaining \in Nat, NEW status \in Statuses
  PROVE  [row EXCEPT !.remaining = remaining, !.status = status] \in GrantRow
  BY DEF GrantRow

LEMMA DebitType ==
  ASSUME NEW row \in GrantRow, NEW amount \in Nat, row.remaining >= amount
  PROVE  Debit(row, amount) \in GrantRow
  <1> DEFINE status == IF amount > 0 THEN SettledStatus(row.status, row.remaining - amount)
                                     ELSE row.status
  <1>1. row.status \in Statuses /\ row.remaining \in Nat
    BY DEF GrantRow
  <1>2. status \in Statuses
    BY <1>1, SettledStatusType
  <1>3. row.remaining - amount \in Nat
    BY <1>1
  <1>4. Debit(row, amount) =
          [row EXCEPT !.remaining = row.remaining - amount, !.status = status]
    BY DEF Debit, GrantRow
  <1> HIDE DEF status
  <1>5. [row EXCEPT !.remaining = row.remaining - amount, !.status = status] \in GrantRow
    BY <1>2, <1>3, RowUpdate
  <1> QED
    BY <1>4, <1>5, Zenon

(* What a settlement does to the grants and to their debts.                *)
LEMMA SettleType ==
  ASSUME TypeOK, NEW g \in GrantIds, NEW a \in ActionIds, NEW adjustment \in Int,
         SettleOwners(g, a, adjustment)
  PROVE  /\ grants' \in [GrantIds -> GrantRow \cup {None}]
         /\ overrun' \in [GrantIds -> Nat]
         /\ \A o \in owners[a] : grants[o] \in GrantRow /\ Balance(o, adjustment) \in Int
  <1>1. ASSUME NEW o \in GrantIds, o \in owners[a]
        PROVE  /\ grants[o] \in GrantRow
               /\ Balance(o, adjustment) \in Int
    <2>1. grants[o] \in GrantRow
      BY <1>1 DEF TypeOK, Stored, SettleOwners
    <2>2. grants[o].remaining \in Nat /\ overrun[o] \in Nat
      BY <2>1 DEF GrantRow, TypeOK
    <2> QED
      BY <2>1, <2>2 DEF Balance
  <1>2. ASSUME NEW o \in GrantIds, o \in owners[a]
        PROVE  [grants[o] EXCEPT
                  !.remaining = PosPart(Balance(o, adjustment)),
                  !.status = SettledStatus(@, PosPart(Balance(o, adjustment)))] \in GrantRow
    <2> DEFINE left == PosPart(Balance(o, adjustment))
    <2>1. left \in Nat
      BY <1>1, <1>2, PosPartType
    <2>2. SettledStatus(grants[o].status, left) \in Statuses
      BY <1>1, <1>2, <2>1, SettledStatusType DEF GrantRow
    <2>3. [grants[o] EXCEPT !.remaining = left,
                            !.status = SettledStatus(grants[o].status, left)] \in GrantRow
      BY <1>1, <1>2, <2>1, <2>2, RowUpdate
    <2> QED
      BY <2>3
  <1>3. grants' \in [GrantIds -> GrantRow \cup {None}]
    BY <1>2 DEF SettleOwners, TypeOK
  <1>4. overrun' \in [GrantIds -> Nat]
    <2>1. ASSUME NEW o \in GrantIds, o \in owners[a]
          PROVE  PosPart(-Balance(o, adjustment)) \in Nat
      <3>1. -Balance(o, adjustment) \in Int
        BY <1>1, <2>1
      <3> QED
        BY <3>1, PosPartType
    <2> QED
      BY <2>1 DEF SettleOwners, TypeOK
  <1>5. owners[a] \subseteq GrantIds
    BY DEF TypeOK
  <1> QED
    BY <1>1, <1>3, <1>4, <1>5

(* A reservation that matches its claim is a well-formed, open row.        *)
LEMMA ReservationType ==
  ASSUME TypeOK, NEW g \in GrantIds, NEW a \in ActionIds, NEW claimed \in Amounts,
         Reservation(g, a, claimed)
  PROVE  rateEvents[a] \in RateEvent /\ claimed \in Nat
  <1>1. rateEvents[a] \in RateEvent
    BY DEF TypeOK, Reservation, Held
  <1> QED
    BY <1>1, StoreAssumption DEF Reservation, RateEvent, Charges

LEMMA ReserveTyped ==
  ASSUME TypeOK, NEW g \in GrantIds, NEW a \in ActionIds, NEW amount \in Amounts,
         NEW effect, NEW ts \in 0..now, Reserve(g, a, amount, effect, ts)
  PROVE  TypeOK'
  <1>1. amount \in Nat /\ amount \in Charges
    BY StoreAssumption DEF Reserve, Charges
  <1>2. Lineage(g) \subseteq Stored
    BY DEF Reserve, LineageSound
  <1>3. \A o \in Lineage(g) : o \in GrantIds /\ Debit(grants[o], amount) \in GrantRow
    <2> TAKE o \in Lineage(g)
    <2>1. o \in GrantIds /\ grants[o] \in GrantRow
      BY <1>2 DEF Stored, TypeOK
    <2>2. grants[o].remaining >= amount
      BY DEF Reserve, MayCharge
    <2> QED
      BY <1>1, <2>1, <2>2, DebitType
  <1>4. grants' \in [GrantIds -> GrantRow \cup {None}]
    BY <1>3 DEF Reserve, TypeOK
  <1>5. [grant |-> g, ts |-> ts, reserved |-> amount, committed |-> FALSE, actual |-> 0]
           \in RateEvent
    BY <1>1 DEF RateEvent, TypeOK
  <1>6. rateEvents' \in [ActionIds -> RateEvent \cup {None}]
    BY <1>5 DEF Reserve, TypeOK
  <1>7. owners' \in [ActionIds -> SUBSET GrantIds]
    BY <1>3 DEF Reserve, TypeOK
  <1> QED
    BY <1>4, <1>6, <1>7 DEF Reserve, TypeOK

LEMMA CommitTyped ==
  ASSUME TypeOK, NEW g \in GrantIds, NEW a \in ActionIds, NEW cost \in Int,
         NEW claimed \in Amounts, Commit(g, a, cost, claimed)
  PROVE  TypeOK'
  <1>1. rateEvents[a] \in RateEvent /\ claimed \in Nat /\ PosPart(cost) \in Nat
    BY ReservationType, PosPartType DEF Commit
  <1>2. claimed - PosPart(cost) \in Int
    BY <1>1
  <1>3. /\ grants' \in [GrantIds -> GrantRow \cup {None}]
        /\ overrun' \in [GrantIds -> Nat]
    BY <1>2, SettleType DEF Commit
  <1>4. [rateEvents[a] EXCEPT !.committed = TRUE, !.actual = PosPart(cost)] \in RateEvent
    BY <1>1 DEF RateEvent
  <1>5. rateEvents' \in [ActionIds -> RateEvent \cup {None}]
    BY <1>4 DEF Commit, TypeOK
  <1> QED
    BY <1>3, <1>5 DEF Commit, TypeOK

LEMMA ReleaseTyped ==
  ASSUME TypeOK, NEW g \in GrantIds, NEW a \in ActionIds, NEW claimed \in Amounts,
         Release(g, a, claimed)
  PROVE  TypeOK'
  <1>1. claimed \in Int
    BY StoreAssumption
  <1>2. /\ grants' \in [GrantIds -> GrantRow \cup {None}]
        /\ overrun' \in [GrantIds -> Nat]
    BY <1>1, SettleType DEF Release
  <1>3. rateEvents' \in [ActionIds -> RateEvent \cup {None}]
    BY DEF Release, TypeOK
  <1>4. owners' \in [ActionIds -> SUBSET GrantIds]
    BY DEF Release, TypeOK
  <1> QED
    BY <1>2, <1>3, <1>4 DEF Release, TypeOK

(* The store refuses no row for where it comes from.  A step of the store  *)
(* that may import any row: modules that compute the rows they store, and  *)
(* do not take them from Offered, have the same lemmas.                    *)
Import(g) == \E row \in GrantRow : InsertGrant(g, row) \/ AttachSignature(g, row)

OpenStep ==
    \/ Tick
    \/ \E g \in GrantIds : Import(g) \/ Revoke(g) \/ Expire(g)
    \/ \E g \in GrantIds, a \in ActionIds, amount \in Amounts,
          effect \in EffectIds \cup {None}, ts \in 0..now :
             Reserve(g, a, amount, effect, ts)
    \/ \E g \in GrantIds, a \in ActionIds, claimed \in Amounts : Release(g, a, claimed)
    \/ \E g \in GrantIds, a \in ActionIds, cost, claimed \in Amounts :
          Commit(g, a, cost, claimed)

LEMMA NextIsOpenStep ==
  ASSUME Next
  PROVE  OpenStep
  <1>1. \A g \in GrantIds : PutGrant(g) => Import(g)
    BY StoreAssumption DEF PutGrant, Import
  <1> QED
    BY <1>1 DEF Next, OpenStep

(* The store, whoever computes the rows it is given.                       *)
OpenSpec == Init /\ [][OpenStep]_storeVars

LEMMA SpecIsOpen == Spec => OpenSpec
  <1>1. [Next]_storeVars => [OpenStep]_storeVars
    BY NextIsOpenStep
  <1> QED
    BY <1>1, PTL DEF Spec, OpenSpec

LEMMA ImportTyped ==
  ASSUME TypeOK, NEW g \in GrantIds, Import(g)
  PROVE  TypeOK'
  <1>1. PICK row \in GrantRow : InsertGrant(g, row) \/ AttachSignature(g, row)
    BY DEF Import
  <1>2. row \in GrantRow
    OBVIOUS
  <1>3. CASE InsertGrant(g, row)
    BY <1>2, <1>3 DEF InsertGrant, TypeOK, GrantRow
  <1>4. CASE AttachSignature(g, row)
    <2>1. grants[g] \in GrantRow
      BY <1>4 DEF AttachSignature, Stored, TypeOK
    <2>2. [Auth(g) EXCEPT !.signed = TRUE] \in Authority
      BY <2>1 DEF Auth, GrantRow, Authority
    <2>3. [grants[g] EXCEPT !.auth.signed = TRUE] \in GrantRow
      BY <2>1, <2>2 DEF GrantRow, Auth
    <2>4. grants' \in [GrantIds -> GrantRow \cup {None}]
      BY <1>4, <2>3 DEF AttachSignature, TypeOK
    <2> QED
      BY <1>4, <2>4 DEF AttachSignature, TypeOK
  <1> QED
    BY <1>1, <1>3, <1>4

LEMMA SetStatusTyped ==
  ASSUME TypeOK, NEW g \in GrantIds, NEW status \in Statuses, SetStatus(g, status)
  PROVE  TypeOK'
  <1>1. grants[g] \in GrantRow
    BY DEF SetStatus, Stored, TypeOK
  <1>2. [grants[g] EXCEPT !.status = status] \in GrantRow
    BY <1>1 DEF GrantRow
  <1>3. grants' \in [GrantIds -> GrantRow \cup {None}]
    BY <1>2 DEF SetStatus, TypeOK
  <1> QED
    BY <1>3 DEF SetStatus, TypeOK

LEMMA StepTyped ==
  ASSUME TypeOK, [OpenStep]_storeVars
  PROVE  TypeOK'
  <1>1. CASE UNCHANGED storeVars
    BY <1>1 DEF storeVars, TypeOK
  <1>2. CASE Tick
    BY <1>2 DEF Tick, TypeOK
  <1>3. ASSUME NEW g \in GrantIds, Import(g)
        PROVE  TypeOK'
    BY <1>3, ImportTyped
  <1>4. ASSUME NEW g \in GrantIds, Revoke(g) \/ Expire(g)
        PROVE  TypeOK'
    BY <1>4, SetStatusTyped DEF Revoke, Expire, Statuses
  <1>5. ASSUME NEW g \in GrantIds, NEW a \in ActionIds, NEW amount \in Amounts,
               NEW effect \in EffectIds \cup {None}, NEW ts \in 0..now,
               Reserve(g, a, amount, effect, ts)
        PROVE  TypeOK'
    BY <1>5, ReserveTyped
  <1>6. ASSUME NEW g \in GrantIds, NEW a \in ActionIds, NEW claimed \in Amounts,
               Release(g, a, claimed)
        PROVE  TypeOK'
    BY <1>6, ReleaseTyped
  <1>7. ASSUME NEW g \in GrantIds, NEW a \in ActionIds, NEW cost \in Amounts,
               NEW claimed \in Amounts, Commit(g, a, cost, claimed)
        PROVE  TypeOK'
    <2>1. cost \in Int
      BY StoreAssumption
    <2> QED
      BY <1>7, <2>1, CommitTyped
  <1> QED
    BY <1>1, <1>2, <1>3, <1>4, <1>5, <1>6, <1>7 DEF OpenStep

LEMMA NextTyped ==
  ASSUME TypeOK, [Next]_storeVars
  PROVE  TypeOK'
  BY StepTyped, NextIsOpenStep

LEMMA OpenTyped == OpenSpec => []TypeOK
  <1>1. Init => TypeOK
    BY DEF Init, TypeOK
  <1> QED
    BY <1>1, StepTyped, PTL DEF OpenSpec

(* Every value the store writes is one its tables can hold; in particular  *)
(* neither a balance nor a debt is ever written as a negative number.      *)
THEOREM TypeCorrect == Spec => []TypeOK
  BY SpecIsOpen, OpenTyped, PTL

-----------------------------------------------------------------------------
(* Counting money. *)

(* Attempts with the same amounts stand for the same units.                *)
LEMMA UnitsAgree ==
  ASSUME NEW S, NEW f, NEW h, \A a \in S : f[a] = h[a]
  PROVE  UnitsOf(S, f) = UnitsOf(S, h)
  BY DEF UnitsOf

LEMMA UnitsSubset ==
  ASSUME NEW S, NEW T, NEW f, T \subseteq S, IsFiniteSet(UnitsOf(S, f))
  PROVE  IsFiniteSet(UnitsOf(T, f))
  <1>1. UnitsOf(T, f) \in SUBSET UnitsOf(S, f)
    BY DEF UnitsOf
  <1> QED
    BY <1>1, FS_Subset

(* One more attempt adds as many units as it costs.                        *)
LEMMA UnitsAdd ==
  ASSUME NEW S, NEW f, NEW a, a \notin S, f[a] \in Nat, IsFiniteSet(UnitsOf(S, f))
  PROVE  /\ IsFiniteSet(UnitsOf(S \cup {a}, f))
         /\ Cardinality(UnitsOf(S \cup {a}, f)) = Cardinality(UnitsOf(S, f)) + f[a]
  <1> DEFINE own == {a} \X (1..f[a])
  <1>1. UnitsOf(S \cup {a}, f) = UnitsOf(S, f) \cup own
    BY DEF UnitsOf
  <1>2. UnitsOf(S, f) \cap own = {}
    BY DEF UnitsOf
  <1>3. IsFiniteSet(1..f[a]) /\ Cardinality(1..f[a]) = f[a]
    <2>1. 1 \in Int /\ f[a] \in Int
      OBVIOUS
    <2>2. IsFiniteSet(1..f[a]) /\ Cardinality(1..f[a]) = IF 1 > f[a] THEN 0 ELSE f[a] - 1 + 1
      BY <2>1, FS_Interval, ZenonT(30)
    <2>3. (IF 1 > f[a] THEN 0 ELSE f[a] - 1 + 1) = f[a]
      OBVIOUS
    <2> QED
      BY <2>2, <2>3
  <1>4. IsFiniteSet({a}) /\ Cardinality({a}) = 1
    BY FS_Singleton
  <1>5. IsFiniteSet(own) /\ Cardinality(own) = f[a]
    <2>1. IsFiniteSet(own) /\ Cardinality(own) = Cardinality({a}) * Cardinality(1..f[a])
      BY <1>3, <1>4, FS_Product
    <2>2. 1 * f[a] = f[a]
      OBVIOUS
    <2> QED
      BY <1>3, <1>4, <2>1, <2>2
  <1>6. Cardinality({}) = 0
    BY FS_EmptySet
  <1>7. Cardinality(UnitsOf(S, f)) \in Nat
    BY FS_CardinalityType
  <1> HIDE DEF own
  <1>8. /\ IsFiniteSet(UnitsOf(S, f) \cup own)
        /\ Cardinality(UnitsOf(S, f) \cup own) =
              Cardinality(UnitsOf(S, f)) + Cardinality(own) - Cardinality({})
    BY <1>2, <1>5, FS_Union
  <1>9. Cardinality(UnitsOf(S, f)) + f[a] - 0 = Cardinality(UnitsOf(S, f)) + f[a]
    BY <1>7
  <1> QED
    BY <1>1, <1>5, <1>6, <1>8, <1>9

(* Repricing one attempt of a set changes the units by the difference.     *)
LEMMA UnitsReprice ==
  ASSUME NEW S, NEW f, NEW h, NEW a \in S, f[a] \in Nat, h[a] \in Nat,
         \A b \in S \ {a} : f[b] = h[b], IsFiniteSet(UnitsOf(S, f))
  PROVE  /\ IsFiniteSet(UnitsOf(S, h))
         /\ Cardinality(UnitsOf(S, h)) = Cardinality(UnitsOf(S, f)) - f[a] + h[a]
  <1> DEFINE R == S \ {a}
  <1>1. S = R \cup {a} /\ a \notin R
    OBVIOUS
  <1>2. IsFiniteSet(UnitsOf(R, f))
    BY UnitsSubset
  <1>3. UnitsOf(R, f) = UnitsOf(R, h)
    BY UnitsAgree
  <1>4. Cardinality(UnitsOf(R, f)) \in Nat
    BY <1>2, FS_CardinalityType
  <1> HIDE DEF R
  <1>5. Cardinality(UnitsOf(S, f)) = Cardinality(UnitsOf(R, f)) + f[a]
    BY <1>1, <1>2, UnitsAdd
  <1>6. /\ IsFiniteSet(UnitsOf(S, h))
        /\ Cardinality(UnitsOf(S, h)) = Cardinality(UnitsOf(R, f)) + h[a]
    BY <1>1, <1>2, <1>3, UnitsAdd
  <1> QED
    BY <1>4, <1>5, <1>6

(* Taking one attempt out of a set takes out the units it costs.           *)
LEMMA UnitsRemove ==
  ASSUME NEW S, NEW f, NEW a \in S, f[a] \in Nat, IsFiniteSet(UnitsOf(S, f))
  PROVE  /\ IsFiniteSet(UnitsOf(S \ {a}, f))
         /\ Cardinality(UnitsOf(S \ {a}, f)) = Cardinality(UnitsOf(S, f)) - f[a]
  <1>1. IsFiniteSet(UnitsOf(S \ {a}, f))
    BY UnitsSubset
  <1>2. (S \ {a}) \cup {a} = S
    OBVIOUS
  <1>3. Cardinality(UnitsOf(S, f)) = Cardinality(UnitsOf(S \ {a}, f)) + f[a]
    BY <1>1, <1>2, UnitsAdd
  <1>4. Cardinality(UnitsOf(S \ {a}, f)) \in Nat
    BY <1>1, FS_CardinalityType
  <1> QED
    BY <1>1, <1>3, <1>4

-----------------------------------------------------------------------------
(* How each operation moves the charges of a grant. *)

LEMMA ChargesType ==
  ASSUME TypeOK
  PROVE  \A a \in Held :
            /\ rateEvents[a] \in RateEvent
            /\ rateEvents[a].reserved \in Nat
            /\ Cost[a] \in Nat
            /\ Excess[a] \in Nat
            /\ ~rateEvents[a].committed => Cost[a] = rateEvents[a].reserved /\ Excess[a] = 0
  <1> TAKE a \in Held
  <1>1. rateEvents[a] \in RateEvent
    BY DEF TypeOK, Held
  <1>2. rateEvents[a].reserved \in Nat /\ rateEvents[a].actual \in Nat
    BY <1>1, StoreAssumption DEF RateEvent, Charges
  <1>3. Cost[a] \in Nat
    BY <1>2 DEF Cost
  <1>4. Cost[a] - rateEvents[a].reserved \in Int
    BY <1>2, <1>3
  <1>5. Excess[a] = PosPart(Cost[a] - rateEvents[a].reserved)
    BY DEF Excess
  <1>6. Excess[a] \in Nat
    BY <1>4, <1>5, PosPartType
  <1>7. ASSUME ~rateEvents[a].committed
        PROVE  Cost[a] = rateEvents[a].reserved /\ Excess[a] = 0
    <2>1. Cost[a] = rateEvents[a].reserved
      BY <1>7 DEF Cost
    <2> QED
      BY <1>2, <1>5, <2>1 DEF PosPart
  <1> QED
    BY <1>1, <1>2, <1>3, <1>6, <1>7

LEMMA ReserveCharges ==
  ASSUME TypeOK, NEW g \in GrantIds, NEW a \in ActionIds, NEW amount \in Amounts,
         NEW effect, NEW ts \in 0..now, Reserve(g, a, amount, effect, ts)
  PROVE  /\ a \notin Held
         /\ Held' = Held \cup {a}
         /\ \A b \in Held : Cost'[b] = Cost[b] /\ Excess'[b] = Excess[b]
         /\ Cost'[a] = amount /\ Excess'[a] = 0
         /\ owners'[a] = Lineage(g)
         /\ \A o \in GrantIds :
               ChargedTo(o)' = IF o \in Lineage(g) THEN ChargedTo(o) \cup {a} ELSE ChargedTo(o)
  <1>1. amount \in Nat /\ amount \in Charges
    BY StoreAssumption DEF Reserve, Charges
  <1> DEFINE row == [grant |-> g, ts |-> ts, reserved |-> amount, committed |-> FALSE,
                     actual |-> 0]
  <1>2. row \in RateEvent
    BY <1>1 DEF RateEvent, TypeOK
  <1>3. row # None
    BY <1>2, StoreAssumption
  <1>4. rateEvents'[a] = row /\ \A b \in ActionIds : b # a => rateEvents'[b] = rateEvents[b]
    BY DEF Reserve, TypeOK
  <1>5. owners'[a] = Lineage(g) /\ \A b \in ActionIds : b # a => owners'[b] = owners[b]
    BY DEF Reserve, TypeOK
  <1>6. a \notin Held /\ Held' = Held \cup {a}
    BY <1>3, <1>4 DEF Reserve, Held
  <1>7. ASSUME NEW b \in Held
        PROVE  Cost'[b] = Cost[b] /\ Excess'[b] = Excess[b]
    <2>1. rateEvents'[b] = rateEvents[b] /\ b \in Held'
      BY <1>4, <1>6 DEF Held
    <2>2. Cost'[b] = Cost[b]
      BY <2>1 DEF Cost
    <2> QED
      BY <2>1, <2>2 DEF Excess
  <1>8. Cost'[a] = amount /\ Excess'[a] = 0
    <2>1. Cost'[a] = amount
      BY <1>4, <1>6 DEF Cost
    <2>2. Excess'[a] = PosPart(amount - amount)
      BY <1>4, <1>6, <2>1 DEF Excess
    <2> QED
      BY <1>1, <2>1, <2>2 DEF PosPart
  <1>9. \A o \in GrantIds :
           ChargedTo(o)' = IF o \in Lineage(g) THEN ChargedTo(o) \cup {a} ELSE ChargedTo(o)
    BY <1>5, <1>6 DEF ChargedTo, Held
  <1> QED
    BY <1>5, <1>6, <1>7, <1>8, <1>9

LEMMA CommitCharges ==
  ASSUME TypeOK, NEW g \in GrantIds, NEW a \in ActionIds, NEW cost \in Int,
         NEW claimed \in Amounts, Commit(g, a, cost, claimed)
  PROVE  /\ a \in Held /\ Held' = Held
         /\ claimed \in Nat /\ PosPart(cost) \in Nat
         /\ \A b \in Held \ {a} : Cost'[b] = Cost[b] /\ Excess'[b] = Excess[b]
         /\ Cost[a] = claimed /\ Excess[a] = 0
         /\ Cost'[a] = PosPart(cost) /\ Excess'[a] = PosPart(PosPart(cost) - claimed)
         /\ \A o \in GrantIds : ChargedTo(o)' = ChargedTo(o)
  <1>1. /\ rateEvents[a] \in RateEvent /\ claimed \in Nat /\ PosPart(cost) \in Nat
        /\ a \in Held /\ rateEvents[a].reserved = claimed /\ ~rateEvents[a].committed
    BY ReservationType, PosPartType DEF Commit, Reservation
  <1> DEFINE row == [rateEvents[a] EXCEPT !.committed = TRUE, !.actual = PosPart(cost)]
  <1>2. row \in RateEvent
    BY <1>1 DEF RateEvent
  <1>3. row # None
    BY <1>2, StoreAssumption
  <1>4. rateEvents'[a] = row /\ \A b \in ActionIds : b # a => rateEvents'[b] = rateEvents[b]
    BY DEF Commit, TypeOK
  <1>5. Held' = Held
    BY <1>1, <1>3, <1>4 DEF Held
  <1>6. ASSUME NEW b \in Held \ {a}
        PROVE  Cost'[b] = Cost[b] /\ Excess'[b] = Excess[b]
    <2>1. rateEvents'[b] = rateEvents[b] /\ b \in Held'
      BY <1>4, <1>5 DEF Held
    <2>2. Cost'[b] = Cost[b]
      BY <2>1 DEF Cost
    <2> QED
      BY <2>1, <2>2 DEF Excess
  <1>7. Cost[a] = claimed /\ Excess[a] = 0
    BY <1>1, ChargesType
  <1>8. rateEvents'[a].committed /\ rateEvents'[a].actual = PosPart(cost)
        /\ rateEvents'[a].reserved = claimed
    BY <1>1, <1>4 DEF RateEvent
  <1>9. Cost'[a] = PosPart(cost)
    BY <1>1, <1>5, <1>8 DEF Cost
  <1>10. Excess'[a] = PosPart(PosPart(cost) - claimed)
    BY <1>1, <1>5, <1>8, <1>9 DEF Excess
  <1>11. \A o \in GrantIds : ChargedTo(o)' = ChargedTo(o)
    BY <1>5 DEF ChargedTo, Commit
  <1> QED
    BY <1>1, <1>5, <1>6, <1>7, <1>9, <1>10, <1>11

LEMMA ReleaseCharges ==
  ASSUME TypeOK, NEW g \in GrantIds, NEW a \in ActionIds, NEW claimed \in Amounts,
         Release(g, a, claimed)
  PROVE  /\ a \in Held /\ Held' = Held \ {a} /\ claimed \in Nat
         /\ \A b \in Held \ {a} : Cost'[b] = Cost[b] /\ Excess'[b] = Excess[b]
         /\ Cost[a] = claimed /\ Excess[a] = 0
         /\ \A o \in GrantIds : ChargedTo(o)' = ChargedTo(o) \ {a}
  <1>1. /\ rateEvents[a] \in RateEvent /\ claimed \in Nat
        /\ a \in Held /\ rateEvents[a].reserved = claimed /\ ~rateEvents[a].committed
    BY ReservationType DEF Release, Reservation
  <1>2. rateEvents'[a] = None /\ \A b \in ActionIds : b # a => rateEvents'[b] = rateEvents[b]
    BY DEF Release, TypeOK
  <1>3. \A b \in ActionIds : b # a => owners'[b] = owners[b]
    BY DEF Release, TypeOK
  <1>4. Held' = Held \ {a}
    BY <1>1, <1>2 DEF Held
  <1>5. ASSUME NEW b \in Held \ {a}
        PROVE  Cost'[b] = Cost[b] /\ Excess'[b] = Excess[b]
    <2>1. rateEvents'[b] = rateEvents[b] /\ b \in Held'
      BY <1>2, <1>4 DEF Held
    <2>2. Cost'[b] = Cost[b]
      BY <2>1 DEF Cost
    <2> QED
      BY <2>1, <2>2 DEF Excess
  <1>6. Cost[a] = claimed /\ Excess[a] = 0
    BY <1>1, ChargesType
  <1>7. \A o \in GrantIds : ChargedTo(o)' = ChargedTo(o) \ {a}
    BY <1>3, <1>4 DEF ChargedTo, Held
  <1> QED
    BY <1>1, <1>4, <1>5, <1>6, <1>7

-----------------------------------------------------------------------------
(* What happens to the authority and the status of a stored grant. *)

(* What settling does to the row and the debt of one charged owner.        *)
LEMMA SettleOwner ==
  ASSUME TypeOK, NEW g \in GrantIds, NEW a \in ActionIds, NEW adjustment \in Int,
         SettleOwners(g, a, adjustment), NEW o \in GrantIds
  PROVE  /\ o \in Stored <=> (o \in Stored)'
         /\ o \in Stored => Auth(o)' = Auth(o)
         /\ o \notin owners[a] => grants'[o] = grants[o] /\ overrun'[o] = overrun[o]
         /\ o \in owners[a] =>
               /\ o \in Stored /\ grants[o].remaining \in Nat /\ overrun[o] \in Nat
               /\ grants'[o].remaining - overrun'[o] =
                     grants[o].remaining - overrun[o] + adjustment
               /\ overrun'[o] = PosPart(overrun[o] - grants[o].remaining - adjustment)
  <1>1. CASE o \notin owners[a]
    BY <1>1 DEF SettleOwners, TypeOK, Stored, Auth
  <1>2. CASE o \in owners[a]
    <2>1. /\ o \in Stored /\ grants[o] \in GrantRow
          /\ Balance(o, adjustment) \in Int
      BY <1>2, SettleType DEF SettleOwners
    <2>2. grants[o].remaining \in Nat /\ overrun[o] \in Nat
      BY <2>1 DEF GrantRow, TypeOK
    <2>3. grants'[o] = [grants[o] EXCEPT
             !.remaining = PosPart(Balance(o, adjustment)),
             !.status = SettledStatus(@, PosPart(Balance(o, adjustment)))]
      BY <1>2 DEF SettleOwners
    <2>4. grants'[o].remaining = PosPart(Balance(o, adjustment)) /\ Auth(o)' = Auth(o)
      BY <2>1, <2>3 DEF GrantRow, Auth
    <2>5. grants' \in [GrantIds -> GrantRow \cup {None}]
      BY SettleType
    <2>6. o \in Stored'
      <3>1. DOMAIN grants'[o] = DOMAIN grants[o]
        BY <2>3
      <3>2. PosPart(Balance(o, adjustment)) \in Nat
        BY <2>1, PosPartType
      <3>3. SettledStatus(grants[o].status, PosPart(Balance(o, adjustment))) \in Statuses
        BY <2>1, <3>2, SettledStatusType DEF GrantRow
      <3>4. grants'[o] \in GrantRow
        <4>1. PICK row \in GrantRow, remaining \in Nat, status \in Statuses :
                 /\ row = grants[o] /\ remaining = PosPart(Balance(o, adjustment))
                 /\ status = SettledStatus(grants[o].status, PosPart(Balance(o, adjustment)))
          BY <2>1, <3>2, <3>3
        <4>2. grants'[o] = [row EXCEPT !.remaining = remaining, !.status = status]
          BY <2>3, <4>1
        <4> QED
          BY <4>2, RowUpdate, ZenonT(30)
      <3>5. grants'[o] # None
        BY <3>4, StoreAssumption
      <3> QED
        BY <3>5 DEF Stored
    <2>7. overrun'[o] = PosPart(-Balance(o, adjustment))
      BY <1>2 DEF SettleOwners
    <2>8. -Balance(o, adjustment) = overrun[o] - grants[o].remaining - adjustment
      BY <2>2 DEF Balance
    <2>9. PosPart(Balance(o, adjustment)) - PosPart(-Balance(o, adjustment)) =
             grants[o].remaining - overrun[o] + adjustment
      BY <2>2 DEF PosPart, Balance
    <2> QED
      BY <1>2, <2>1, <2>2, <2>4, <2>6, <2>7, <2>8, <2>9
  <1> QED
    BY <1>1, <1>2

(* A stored authority is never rewritten; at most it becomes signed.  A    *)
(* dead grant stays dead.                                                  *)
LEMMA GrantKept ==
  ASSUME TypeOK, OpenStep, NEW o \in Stored
  PROVE  /\ o \in Stored'
         /\ Auth(o)' \in {Auth(o), [Auth(o) EXCEPT !.signed = TRUE]}
         /\ grants[o].status \in {"REVOKED", "EXPIRED"} =>
               grants'[o].status \in {"REVOKED", "EXPIRED"}
  <1> DEFINE Goal == /\ Auth(o)' \in {Auth(o), [Auth(o) EXCEPT !.signed = TRUE]}
                     /\ grants[o].status \in {"REVOKED", "EXPIRED"} =>
                           grants'[o].status \in {"REVOKED", "EXPIRED"}
  <1>1. o \in GrantIds /\ grants[o] \in GrantRow
    BY DEF Stored, TypeOK
  <1>2. TypeOK'
    BY StepTyped
  <1>3. ASSUME grants'[o] = grants[o]
        PROVE  o \in Stored' /\ Goal
    BY <1>1, <1>3, StoreAssumption DEF Stored, Auth
  <1>4. CASE Tick
    BY <1>3, <1>4 DEF Tick
  <1>5. ASSUME NEW g \in GrantIds, Import(g)
        PROVE  o \in Stored' /\ Goal
    <2>1. PICK row \in GrantRow : InsertGrant(g, row) \/ AttachSignature(g, row)
      BY <1>5 DEF Import
    <2>2. CASE InsertGrant(g, row)
      <3>1. grants'[o] = grants[o]
        BY <1>1, <2>2 DEF InsertGrant, Stored, TypeOK
      <3> QED
        BY <1>3, <3>1
    <2>3. CASE AttachSignature(g, row)
      <3>1. CASE o # g
        BY <1>1, <1>3, <2>3, <3>1 DEF AttachSignature, TypeOK
      <3>2. CASE o = g
        <4>1. grants'[o] = [grants[o] EXCEPT !.auth = [Auth(o) EXCEPT !.signed = TRUE]]
          BY <1>1, <2>3, <3>2 DEF AttachSignature, TypeOK, Auth
        <4>2. [Auth(o) EXCEPT !.signed = TRUE] \in Authority
          BY <1>1 DEF Auth, GrantRow, Authority
        <4>3. grants'[o] \in GrantRow
          BY <1>1, <4>1, <4>2 DEF GrantRow
        <4>4. o \in Stored'
          BY <1>1, <4>3, StoreAssumption DEF Stored
        <4>5. /\ Auth(o)' = [Auth(o) EXCEPT !.signed = TRUE]
              /\ grants'[o].status = grants[o].status
          BY <1>1, <4>1 DEF GrantRow, Auth
        <4> QED
          BY <4>4, <4>5
      <3> QED
        BY <3>1, <3>2
    <2> QED
      BY <2>1, <2>2, <2>3
  <1>6. ASSUME NEW g \in GrantIds, Revoke(g) \/ Expire(g)
        PROVE  o \in Stored' /\ Goal
    <2>1. PICK status \in {"REVOKED", "EXPIRED"} : SetStatus(g, status)
      BY <1>6 DEF Revoke, Expire
    <2>2. CASE o # g
      BY <1>1, <1>3, <2>1, <2>2 DEF SetStatus, TypeOK
    <2>3. CASE o = g
      <3>1. grants'[o] = [grants[o] EXCEPT !.status = status]
        BY <1>1, <2>1, <2>3 DEF SetStatus, TypeOK
      <3>2. grants'[o] \in GrantRow
        BY <1>1, <2>1, <3>1 DEF GrantRow, Statuses
      <3> QED
        BY <1>1, <2>1, <3>1, <3>2, StoreAssumption DEF Stored, GrantRow, Auth
    <2> QED
      BY <2>2, <2>3
  <1>7. ASSUME NEW g \in GrantIds, NEW a \in ActionIds, NEW amount \in Amounts,
               NEW effect \in EffectIds \cup {None}, NEW ts \in 0..now,
               Reserve(g, a, amount, effect, ts)
        PROVE  o \in Stored' /\ Goal
    <2>1. CASE o \notin Lineage(g)
      BY <1>1, <1>3, <1>7, <2>1 DEF Reserve
    <2>2. CASE o \in Lineage(g)
      <3>1. grants'[o] = Debit(grants[o], amount) /\ grants[o].status = "ACTIVE"
            /\ grants[o].remaining >= amount /\ amount \in Nat
        BY <1>1, <1>7, <2>2, StoreAssumption DEF Reserve, LineageSound, MayCharge
      <3>2. grants'[o] \in GrantRow
        BY <1>1, <3>1, DebitType
      <3>3. Auth(o)' = Auth(o)
        BY <1>1, <3>1 DEF Debit, GrantRow, Auth
      <3> QED
        BY <1>1, <3>1, <3>2, <3>3, StoreAssumption DEF Stored
    <2> QED
      BY <2>1, <2>2
  <1>8. ASSUME NEW g \in GrantIds, NEW a \in ActionIds, NEW adjustment \in Int,
               SettleOwners(g, a, adjustment)
        PROVE  o \in Stored' /\ Goal
    <2>1. o \in Stored' /\ Auth(o)' = Auth(o)
      BY <1>1, <1>8, SettleOwner
    <2>2. ASSUME grants[o].status \in {"REVOKED", "EXPIRED"}
          PROVE  grants'[o].status \in {"REVOKED", "EXPIRED"}
      <3>1. CASE o \notin owners[a]
        BY <1>1, <1>8, <2>2, <3>1, SettleOwner
      <3>2. CASE o \in owners[a]
        BY <1>1, <1>8, <2>2, <3>2 DEF SettleOwners, GrantRow, SettledStatus
      <3> QED
        BY <3>1, <3>2
    <2> QED
      BY <2>1, <2>2
  <1>9. ASSUME NEW g \in GrantIds, NEW a \in ActionIds, NEW claimed \in Amounts,
               Release(g, a, claimed)
        PROVE  o \in Stored' /\ Goal
    <2>1. claimed \in Int
      BY StoreAssumption
    <2> QED
      BY <1>8, <1>9, <2>1 DEF Release
  <1>10. ASSUME NEW g \in GrantIds, NEW a \in ActionIds, NEW cost \in Amounts,
                NEW claimed \in Amounts, Commit(g, a, cost, claimed)
         PROVE  o \in Stored' /\ Goal
    <2>1. cost \in Int /\ claimed \in Int
      BY StoreAssumption
    <2>2. claimed - PosPart(cost) \in Int
      BY <2>1 DEF PosPart
    <2> QED
      BY <1>8, <1>10, <2>2 DEF Commit
  <1> QED
    BY <1>4, <1>5, <1>6, <1>7, <1>9, <1>10 DEF OpenStep

LEMMA StoredGrantStep ==
  ASSUME TypeOK, Next, NEW o \in Stored
  PROVE  /\ o \in Stored'
         /\ Auth(o)' \in {Auth(o), [Auth(o) EXCEPT !.signed = TRUE]}
         /\ grants[o].status \in {"REVOKED", "EXPIRED"} =>
               grants'[o].status \in {"REVOKED", "EXPIRED"}
  BY GrantKept, NextIsOpenStep

(* The same authority, signed or not.                                      *)
Same(a, b) == [a EXCEPT !.signed = TRUE] = [b EXCEPT !.signed = TRUE]

LEMMA SameFields ==
  ASSUME NEW a \in Authority, NEW b \in Authority
  PROVE  Same(a, b) <=>
            /\ a.parent = b.parent /\ a.depth = b.depth /\ a.agent = b.agent
            /\ a.currency = b.currency /\ a.limit = b.limit /\ a.expires = b.expires
            /\ a.allow = b.allow /\ a.deny = b.deny /\ a.rules = b.rules
            /\ a.rateMax = b.rateMax /\ a.ratePer = b.ratePer /\ a.approved = b.approved
  <1> DEFINE x == [a EXCEPT !.signed = TRUE]
             y == [b EXCEPT !.signed = TRUE]
  <1>1. /\ x \in Authority /\ y \in Authority /\ x.signed = TRUE /\ y.signed = TRUE
        /\ x.parent = a.parent /\ x.depth = a.depth /\ x.agent = a.agent
        /\ x.currency = a.currency /\ x.limit = a.limit /\ x.expires = a.expires
        /\ x.allow = a.allow /\ x.deny = a.deny /\ x.rules = a.rules
        /\ x.rateMax = a.rateMax /\ x.ratePer = a.ratePer /\ x.approved = a.approved
    BY DEF Authority
  <1>2. /\ y.parent = b.parent /\ y.depth = b.depth /\ y.agent = b.agent
        /\ y.currency = b.currency /\ y.limit = b.limit /\ y.expires = b.expires
        /\ y.allow = b.allow /\ y.deny = b.deny /\ y.rules = b.rules
        /\ y.rateMax = b.rateMax /\ y.ratePer = b.ratePer /\ y.approved = b.approved
    BY DEF Authority
  <1>3. Same(a, b) <=> x = y
    BY DEF Same
  <1> HIDE DEF x, y
  <1>4. x = y <=>
          /\ x.parent = y.parent /\ x.depth = y.depth /\ x.agent = y.agent
          /\ x.currency = y.currency /\ x.limit = y.limit /\ x.expires = y.expires
          /\ x.allow = y.allow /\ x.deny = y.deny /\ x.rules = y.rules
          /\ x.rateMax = y.rateMax /\ x.ratePer = y.ratePer /\ x.approved = y.approved
    BY <1>1 DEF Authority
  <1>5. /\ x.parent = y.parent <=> a.parent = b.parent
        /\ x.depth = y.depth <=> a.depth = b.depth
        /\ x.agent = y.agent <=> a.agent = b.agent
        /\ x.currency = y.currency <=> a.currency = b.currency
        /\ x.limit = y.limit <=> a.limit = b.limit
        /\ x.expires = y.expires <=> a.expires = b.expires
        /\ x.allow = y.allow <=> a.allow = b.allow
        /\ x.deny = y.deny <=> a.deny = b.deny
        /\ x.rules = y.rules <=> a.rules = b.rules
        /\ x.rateMax = y.rateMax <=> a.rateMax = b.rateMax
        /\ x.ratePer = y.ratePer <=> a.ratePer = b.ratePer
        /\ x.approved = y.approved <=> a.approved = b.approved
    BY <1>1, <1>2
  <1> QED
    BY <1>3, <1>4, <1>5

LEMMA SameNarrows ==
  ASSUME NEW a \in Authority, NEW b \in Authority, NEW c \in Authority, NEW d \in Authority,
         Same(a, b), Same(c, d), Narrows(a, c)
  PROVE  Narrows(b, d)
  BY SameFields DEF Narrows

LEMMA SignedSame ==
  ASSUME NEW a \in Authority
  PROVE  [a EXCEPT !.signed = TRUE] \in Authority /\ Same(a, [a EXCEPT !.signed = TRUE])
  <1>1. [a EXCEPT !.signed = TRUE] \in Authority
    BY DEF Authority
  <1> QED
    BY <1>1 DEF Same

LEMMA StoredKept ==
  ASSUME TypeOK, [OpenStep]_storeVars, NEW o \in Stored
  PROVE  /\ o \in Stored' /\ Auth(o) \in Authority /\ Auth(o)' \in Authority
         /\ Same(Auth(o), Auth(o)')
  <1>1. o \in GrantIds /\ grants[o] \in GrantRow /\ Auth(o) \in Authority
    BY DEF Stored, TypeOK, Auth, GrantRow
  <1>2. CASE OpenStep
    <2>1. o \in Stored' /\ Auth(o)' \in {Auth(o), [Auth(o) EXCEPT !.signed = TRUE]}
      BY <1>2, GrantKept
    <2> QED
      BY <1>1, <2>1, SignedSame DEF Same
  <1>3. CASE UNCHANGED storeVars
    <2>1. o \in Stored' /\ Auth(o)' = Auth(o)
      BY <1>3 DEF storeVars, Stored, Auth
    <2> QED
      BY <1>1, <2>1 DEF Same
  <1> QED
    BY <1>2, <1>3

-----------------------------------------------------------------------------
(* The money of one grant, strong enough to be inductive: its units are    *)
(* finitely many, what it owes is covered by what providers overcharged,   *)
(* and a grant not yet imported neither owes nor pays anything.            *)

Books(g) ==
    /\ IsFiniteSet(ChargedUnits(g))
    /\ IsFiniteSet(ExcessUnits(g))
    /\ overrun[g] <= Cardinality(ExcessUnits(g))
    /\ g \notin Stored => overrun[g] = 0
    /\ g \in Stored =>
          /\ opening[g] <= Auth(g).limit
          /\ grants[g].remaining - overrun[g] + Cardinality(ChargedUnits(g)) = opening[g]

ChargesStored == \A a \in Held : owners[a] \subseteq Stored

MoneyInv ==
    /\ TypeOK
    /\ ChargesStored
    /\ \A g \in GrantIds : Books(g)

LEMMA BooksFrame ==
  ASSUME NEW g \in GrantIds, Books(g), UNCHANGED <<rateEvents, owners, overrun, opening>>,
         (g \in Stored)' <=> g \in Stored,
         g \in Stored => /\ grants'[g].remaining = grants[g].remaining
                         /\ Auth(g)'.limit = Auth(g).limit
  PROVE  Books(g)'
  <1>1. Held' = Held /\ ChargedTo(g)' = ChargedTo(g)
    BY DEF Held, ChargedTo
  <1>2. Cost' = Cost
    BY <1>1 DEF Cost
  <1>3. Excess' = Excess
    BY <1>1, <1>2 DEF Excess
  <1>4. ChargedUnits(g)' = ChargedUnits(g) /\ ExcessUnits(g)' = ExcessUnits(g)
    BY <1>1, <1>2, <1>3 DEF ChargedUnits, ExcessUnits
  <1> QED
    BY <1>4 DEF Books

LEMMA ReserveBooks ==
  ASSUME MoneyInv, NEW g \in GrantIds, NEW a \in ActionIds, NEW amount \in Amounts,
         NEW effect, NEW ts \in 0..now, Reserve(g, a, amount, effect, ts),
         NEW o \in GrantIds
  PROVE  Books(o)'
  <1> USE DEF MoneyInv
  <1>1. amount \in Nat
    BY StoreAssumption DEF Reserve
  <1>2. /\ a \notin Held /\ a \notin ChargedTo(o)
        /\ \A b \in ChargedTo(o) : Cost'[b] = Cost[b] /\ Excess'[b] = Excess[b]
        /\ Cost'[a] = amount /\ Excess'[a] = 0
        /\ ChargedTo(o)' = IF o \in Lineage(g) THEN ChargedTo(o) \cup {a} ELSE ChargedTo(o)
    BY ReserveCharges DEF ChargedTo
  <1>3. /\ UnitsOf(ChargedTo(o), Cost') = ChargedUnits(o)
        /\ UnitsOf(ChargedTo(o), Excess') = ExcessUnits(o)
    BY <1>2, UnitsAgree DEF ChargedUnits, ExcessUnits
  <1>4. Books(o)
    OBVIOUS
  <1>5. UNCHANGED <<overrun, opening>>
    BY DEF Reserve
  <1>6. CASE o \in Lineage(g)
    <2>1. o \in Stored /\ overrun[o] = 0 /\ grants[o].remaining >= amount
      BY <1>6 DEF Reserve, LineageSound, MayCharge
    <2>2. grants[o] \in GrantRow
      BY <2>1 DEF TypeOK, Stored
    <2>3. grants'[o] = Debit(grants[o], amount)
      BY <1>6 DEF Reserve
    <2>4. Debit(grants[o], amount) \in GrantRow
      BY <1>1, <2>1, <2>2, DebitType
    <2>5. o \in Stored'
      BY <2>3, <2>4, StoreAssumption DEF Stored
    <2>6. grants'[o].remaining = grants[o].remaining - amount /\ Auth(o)' = Auth(o)
      BY <2>2, <2>3 DEF Debit, GrantRow, Auth
    <2>7. /\ IsFiniteSet(ChargedUnits(o)')
          /\ Cardinality(ChargedUnits(o)') = Cardinality(ChargedUnits(o)) + amount
      <3>1. ChargedUnits(o)' = UnitsOf(ChargedTo(o) \cup {a}, Cost')
        BY <1>2, <1>6 DEF ChargedUnits
      <3>2. IsFiniteSet(UnitsOf(ChargedTo(o), Cost'))
        BY <1>3, <1>4 DEF Books
      <3>3. Cost'[a] \in Nat /\ Cost'[a] = amount /\ a \notin ChargedTo(o)
        BY <1>1, <1>2
      <3>4. PICK attempts, cost : attempts = ChargedTo(o) /\ cost = Cost'
        OBVIOUS
      <3>5. /\ IsFiniteSet(UnitsOf(attempts \cup {a}, cost))
            /\ Cardinality(UnitsOf(attempts \cup {a}, cost)) =
                  Cardinality(UnitsOf(attempts, cost)) + cost[a]
        BY <3>2, <3>3, <3>4, UnitsAdd
      <3> QED
        BY <1>3, <3>1, <3>3, <3>4, <3>5
    <2>8. /\ IsFiniteSet(ExcessUnits(o)')
          /\ Cardinality(ExcessUnits(o)') = Cardinality(ExcessUnits(o)) + 0
      <3>1. ExcessUnits(o)' = UnitsOf(ChargedTo(o) \cup {a}, Excess')
        BY <1>2, <1>6 DEF ExcessUnits
      <3>2. IsFiniteSet(UnitsOf(ChargedTo(o), Excess'))
        BY <1>3, <1>4 DEF Books
      <3>3. Excess'[a] \in Nat
        BY <1>2
      <3> QED
        BY <1>2, <1>3, <3>1, <3>2, <3>3, UnitsAdd
    <2>9. /\ Cardinality(ChargedUnits(o)) \in Nat /\ Cardinality(ExcessUnits(o)) \in Nat
          /\ grants[o].remaining \in Nat
      BY <1>4, <2>2, FS_CardinalityType DEF Books, GrantRow
    <2>10. overrun'[o] <= Cardinality(ExcessUnits(o)')
      BY <1>5, <2>1, <2>8, <2>9
    <2>11. grants'[o].remaining - overrun'[o] + Cardinality(ChargedUnits(o)') = opening'[o]
      BY <1>1, <1>4, <1>5, <2>1, <2>6, <2>7, <2>9 DEF Books
    <2> QED
      BY <1>4, <1>5, <2>1, <2>5, <2>6, <2>7, <2>8, <2>10, <2>11 DEF Books
  <1>7. CASE o \notin Lineage(g)
    <2>1. grants'[o] = grants[o]
      BY <1>7 DEF Reserve
    <2>2. ChargedUnits(o)' = ChargedUnits(o) /\ ExcessUnits(o)' = ExcessUnits(o)
      BY <1>2, <1>3, <1>7 DEF ChargedUnits, ExcessUnits
    <2> QED
      BY <1>4, <1>5, <2>1, <2>2 DEF Books, Stored, Auth
  <1> QED
    BY <1>6, <1>7

LEMMA CommitBooks ==
  ASSUME MoneyInv, NEW g \in GrantIds, NEW a \in ActionIds, NEW cost \in Int,
         NEW claimed \in Amounts, Commit(g, a, cost, claimed), NEW o \in GrantIds
  PROVE  Books(o)'
  <1> USE DEF MoneyInv
  <1> DEFINE paid == PosPart(cost)
             over == PosPart(paid - claimed)
  <1>1. /\ a \in Held /\ claimed \in Nat /\ paid \in Nat
        /\ \A b \in ChargedTo(o) \ {a} : Cost'[b] = Cost[b] /\ Excess'[b] = Excess[b]
        /\ Cost[a] = claimed /\ Excess[a] = 0 /\ Cost'[a] = paid /\ Excess'[a] = over
        /\ ChargedTo(o)' = ChargedTo(o)
    BY CommitCharges DEF ChargedTo
  <1>2. claimed - paid \in Int /\ over \in Nat
    BY <1>1, PosPartType
  <1>3. Books(o) /\ opening' = opening
    BY DEF Commit
  <1>4. /\ o \in Stored <=> (o \in Stored)'
        /\ o \in Stored => Auth(o)' = Auth(o)
        /\ o \notin owners[a] => grants'[o] = grants[o] /\ overrun'[o] = overrun[o]
        /\ o \in owners[a] =>
              /\ o \in Stored /\ grants[o].remaining \in Nat /\ overrun[o] \in Nat
              /\ grants'[o].remaining - overrun'[o] =
                    grants[o].remaining - overrun[o] + (claimed - paid)
              /\ overrun'[o] = PosPart(overrun[o] - grants[o].remaining - (claimed - paid))
    BY <1>2, SettleOwner DEF Commit
  <1>5. CASE o \in owners[a]
    <2>1. a \in ChargedTo(o)
      BY <1>1, <1>5 DEF ChargedTo
    <2>2. /\ IsFiniteSet(ChargedUnits(o)')
          /\ Cardinality(ChargedUnits(o)') = Cardinality(ChargedUnits(o)) - claimed + paid
      BY <1>1, <1>3, <2>1, UnitsReprice DEF ChargedUnits, Books
    <2>3. /\ IsFiniteSet(ExcessUnits(o)')
          /\ Cardinality(ExcessUnits(o)') = Cardinality(ExcessUnits(o)) - 0 + over
      <3> DEFINE S == ChargedTo(o)
                 f == Excess
                 h == Excess'
      <3>1. IsFiniteSet(UnitsOf(S, f))
        BY <1>3 DEF Books, ExcessUnits
      <3>2. a \in S /\ f[a] = 0 /\ h[a] = over /\ \A b \in S \ {a} : f[b] = h[b]
        BY <1>1, <2>1
      <3>3. UnitsOf(S, f) = ExcessUnits(o) /\ UnitsOf(S, h) = ExcessUnits(o)'
        BY <1>1 DEF ExcessUnits
      <3> HIDE DEF S, f, h, over
      <3>4. a \in S /\ f[a] \in Nat /\ h[a] \in Nat /\ \A b \in S \ {a} : f[b] = h[b]
        BY <1>2, <3>2
      <3>5. /\ IsFiniteSet(UnitsOf(S, h))
            /\ Cardinality(UnitsOf(S, h)) = Cardinality(UnitsOf(S, f)) - f[a] + h[a]
        BY <3>1, <3>4, UnitsReprice, Z3
      <3> QED
        BY <3>2, <3>3, <3>5
    <2>4. Cardinality(ChargedUnits(o)) \in Nat /\ Cardinality(ExcessUnits(o)) \in Nat
      BY <1>3, FS_CardinalityType DEF Books
    <2>5. overrun'[o] <= overrun[o] + over
      BY <1>1, <1>4, <1>5 DEF PosPart
    <2>6. overrun'[o] \in Nat
      <3>1. overrun[o] - grants[o].remaining - (claimed - paid) \in Int
        BY <1>2, <1>4, <1>5
      <3> QED
        BY <1>4, <1>5, <3>1, PosPartType
    <2>7. overrun'[o] <= Cardinality(ExcessUnits(o)')
      BY <1>2, <1>3, <1>4, <1>5, <2>3, <2>4, <2>5, <2>6 DEF Books
    <2>8. grants'[o].remaining - overrun'[o] + Cardinality(ChargedUnits(o)') = opening'[o]
      BY <1>1, <1>3, <1>4, <1>5, <2>2, <2>4 DEF Books
    <2> QED
      BY <1>3, <1>4, <1>5, <2>2, <2>3, <2>7, <2>8 DEF Books
  <1>6. CASE o \notin owners[a]
    <2>1. a \notin ChargedTo(o)
      BY <1>6 DEF ChargedTo
    <2>2. ChargedUnits(o)' = ChargedUnits(o) /\ ExcessUnits(o)' = ExcessUnits(o)
      BY <1>1, <2>1, UnitsAgree DEF ChargedUnits, ExcessUnits
    <2> QED
      BY <1>3, <1>4, <1>6, <2>2 DEF Books
  <1> QED
    BY <1>5, <1>6

LEMMA ReleaseBooks ==
  ASSUME MoneyInv, NEW g \in GrantIds, NEW a \in ActionIds, NEW claimed \in Amounts,
         Release(g, a, claimed), NEW o \in GrantIds
  PROVE  Books(o)'
  <1> USE DEF MoneyInv
  <1>1. /\ a \in Held /\ claimed \in Nat
        /\ \A b \in ChargedTo(o) \ {a} : Cost'[b] = Cost[b] /\ Excess'[b] = Excess[b]
        /\ Cost[a] = claimed /\ Excess[a] = 0
        /\ ChargedTo(o)' = ChargedTo(o) \ {a}
    BY ReleaseCharges DEF ChargedTo
  <1>2. /\ ChargedUnits(o)' = UnitsOf(ChargedTo(o) \ {a}, Cost)
        /\ ExcessUnits(o)' = UnitsOf(ChargedTo(o) \ {a}, Excess)
    BY <1>1, UnitsAgree DEF ChargedUnits, ExcessUnits
  <1>3. Books(o) /\ opening' = opening
    BY DEF Release
  <1>4. /\ o \in Stored <=> (o \in Stored)'
        /\ o \in Stored => Auth(o)' = Auth(o)
        /\ o \notin owners[a] => grants'[o] = grants[o] /\ overrun'[o] = overrun[o]
        /\ o \in owners[a] =>
              /\ o \in Stored /\ grants[o].remaining \in Nat /\ overrun[o] \in Nat
              /\ grants'[o].remaining - overrun'[o] =
                    grants[o].remaining - overrun[o] + claimed
              /\ overrun'[o] = PosPart(overrun[o] - grants[o].remaining - claimed)
    BY <1>1, SettleOwner DEF Release
  <1>5. CASE o \in owners[a]
    <2>1. a \in ChargedTo(o)
      BY <1>1, <1>5 DEF ChargedTo
    <2>2. /\ IsFiniteSet(ChargedUnits(o)')
          /\ Cardinality(ChargedUnits(o)') = Cardinality(ChargedUnits(o)) - claimed
      <3>1. IsFiniteSet(UnitsOf(ChargedTo(o), Cost)) /\ Cost[a] \in Nat
        BY <1>1, <1>3 DEF Books, ChargedUnits
      <3>2. /\ IsFiniteSet(UnitsOf(ChargedTo(o) \ {a}, Cost))
            /\ Cardinality(UnitsOf(ChargedTo(o) \ {a}, Cost)) =
                  Cardinality(UnitsOf(ChargedTo(o), Cost)) - Cost[a]
        BY <2>1, <3>1, UnitsRemove
      <3> QED
        BY <1>1, <1>2, <3>2 DEF ChargedUnits
    <2>3. /\ IsFiniteSet(ExcessUnits(o)')
          /\ Cardinality(ExcessUnits(o)') = Cardinality(ExcessUnits(o)) - 0
      <3>1. IsFiniteSet(UnitsOf(ChargedTo(o), Excess)) /\ Excess[a] \in Nat
        BY <1>1, <1>3 DEF Books, ExcessUnits
      <3>2. /\ IsFiniteSet(UnitsOf(ChargedTo(o) \ {a}, Excess))
            /\ Cardinality(UnitsOf(ChargedTo(o) \ {a}, Excess)) =
                  Cardinality(UnitsOf(ChargedTo(o), Excess)) - Excess[a]
        BY <2>1, <3>1, UnitsRemove
      <3> QED
        BY <1>1, <1>2, <3>2 DEF ExcessUnits
    <2>4. Cardinality(ChargedUnits(o)) \in Nat /\ Cardinality(ExcessUnits(o)) \in Nat
      BY <1>3, FS_CardinalityType DEF Books
    <2>5. overrun'[o] <= overrun[o] /\ overrun'[o] \in Nat
      BY <1>1, <1>4, <1>5 DEF PosPart
    <2>6. overrun'[o] <= Cardinality(ExcessUnits(o)')
      BY <1>3, <1>4, <1>5, <2>3, <2>4, <2>5 DEF Books
    <2>7. grants'[o].remaining - overrun'[o] + Cardinality(ChargedUnits(o)') = opening'[o]
      BY <1>1, <1>3, <1>4, <1>5, <2>2, <2>4 DEF Books
    <2> QED
      BY <1>3, <1>4, <1>5, <2>2, <2>3, <2>6, <2>7 DEF Books
  <1>6. CASE o \notin owners[a]
    <2>1. ChargedTo(o) \ {a} = ChargedTo(o)
      BY <1>6 DEF ChargedTo
    <2>2. ChargedUnits(o)' = ChargedUnits(o) /\ ExcessUnits(o)' = ExcessUnits(o)
      BY <1>2, <2>1 DEF ChargedUnits, ExcessUnits
    <2> QED
      BY <1>3, <1>4, <1>6, <2>2 DEF Books
  <1> QED
    BY <1>5, <1>6

LEMMA ImportBooks ==
  ASSUME MoneyInv, NEW g \in GrantIds, Import(g), NEW o \in GrantIds
  PROVE  Books(o)'
  <1> USE DEF MoneyInv
  <1>1. PICK row \in GrantRow : InsertGrant(g, row) \/ AttachSignature(g, row)
    BY DEF Import
  <1>2. row \in GrantRow /\ Books(o)
    OBVIOUS
  <1>3. CASE AttachSignature(g, row)
    <2>1. grants[g] \in GrantRow
      BY <1>3 DEF AttachSignature, Stored, TypeOK
    <2>2. grants' = [grants EXCEPT ![g].auth.signed = TRUE] /\ grants \in [GrantIds -> GrantRow \cup {None}]
      BY <1>3 DEF AttachSignature, TypeOK
    <2>3. [grants[g] EXCEPT !.auth.signed = TRUE] # None
      <3>1. [Auth(g) EXCEPT !.signed = TRUE] \in Authority
        BY <2>1 DEF Auth, GrantRow, Authority
      <3>2. [grants[g] EXCEPT !.auth.signed = TRUE] \in GrantRow
        BY <2>1, <3>1 DEF GrantRow, Auth
      <3> QED
        BY <3>2, StoreAssumption
    <2>4. (o \in Stored)' <=> o \in Stored
      BY <1>3, <2>2, <2>3 DEF Stored, AttachSignature
    <2>5. ASSUME o \in Stored
          PROVE  grants'[o].remaining = grants[o].remaining /\ Auth(o)'.limit = Auth(o).limit
      <3>1. grants'[g].remaining = grants[g].remaining /\ Auth(g)'.limit = Auth(g).limit
        BY <2>1, <2>2 DEF GrantRow, Auth, Authority
      <3>2. o # g => grants'[o] = grants[o]
        BY <2>2
      <3> QED
        BY <3>1, <3>2 DEF Auth
    <2>6. UNCHANGED <<rateEvents, owners, overrun, opening>>
      BY <1>3 DEF AttachSignature
    <2> QED
      BY <1>2, <2>4, <2>5, <2>6, BooksFrame
  <1>4. CASE InsertGrant(g, row)
    <2>1. UNCHANGED <<rateEvents, owners, overrun>>
      BY <1>4 DEF InsertGrant
    <2>2. ChargedUnits(o)' = ChargedUnits(o) /\ ExcessUnits(o)' = ExcessUnits(o)
      <3>1. Held' = Held /\ ChargedTo(o)' = ChargedTo(o)
        BY <2>1 DEF Held, ChargedTo
      <3>2. Cost' = Cost
        BY <2>1, <3>1 DEF Cost
      <3>3. Excess' = Excess
        BY <2>1, <3>1, <3>2 DEF Excess
      <3> QED
        BY <3>1, <3>2, <3>3 DEF ChargedUnits, ExcessUnits
    <2>3. CASE o # g
      BY <1>2, <1>4, <2>1, <2>2, <2>3 DEF InsertGrant, TypeOK, Books, Stored, Auth
    <2>4. CASE o = g
      <3>1. o \notin Stored /\ overrun[o] = 0
        BY <1>2, <1>4, <2>4 DEF InsertGrant, Stored, Books
      <3>2. ChargedTo(o) = {}
        BY <3>1 DEF ChargedTo, ChargesStored
      <3>3. ChargedUnits(o) = {}
        BY <3>2 DEF ChargedUnits, UnitsOf
      <3>4. Cardinality(ChargedUnits(o)) = 0
        BY <3>3, FS_EmptySet
      <3>5. grants'[o] = row /\ opening'[o] = row.remaining
        BY <1>4, <2>4 DEF InsertGrant, TypeOK
      <3>6. o \in Stored' /\ row.remaining \in Nat /\ row.remaining <= row.auth.limit
        BY <1>2, <1>4, <3>5, StoreAssumption DEF Stored, GrantRow, InsertGrant
      <3>7. grants'[o].remaining - overrun'[o] + Cardinality(ChargedUnits(o)') = opening'[o]
        BY <2>1, <2>2, <3>1, <3>4, <3>5, <3>6
      <3> QED
        BY <1>2, <2>1, <2>2, <3>5, <3>6, <3>7 DEF Books, Auth
    <2> QED
      BY <2>3, <2>4
  <1> QED
    BY <1>1, <1>3, <1>4

LEMMA SetStatusBooks ==
  ASSUME MoneyInv, NEW g \in GrantIds, NEW status \in Statuses, SetStatus(g, status),
         NEW o \in GrantIds
  PROVE  Books(o)'
  <1> USE DEF MoneyInv
  <1>1. grants[g] \in GrantRow
    BY DEF SetStatus, Stored, TypeOK
  <1>2. [grants[g] EXCEPT !.status = status] \in GrantRow
    BY <1>1 DEF GrantRow
  <1>3. [grants[g] EXCEPT !.status = status] # None
    BY <1>2, StoreAssumption
  <1>4. (o \in Stored)' <=> o \in Stored
    BY <1>3 DEF SetStatus, Stored, TypeOK
  <1>5. grants'[o].remaining = grants[o].remaining /\ Auth(o)'.limit = Auth(o).limit
    BY <1>1 DEF SetStatus, TypeOK, GrantRow, Auth
  <1> QED
    BY <1>4, <1>5, BooksFrame DEF SetStatus

(* Charges stay on stored grants: no operation deletes a grant.            *)
LEMMA ChargesKept ==
  ASSUME TypeOK, ChargesStored, [OpenStep]_storeVars
  PROVE  Stored \subseteq Stored' /\ ChargesStored'
  <1>1. CASE UNCHANGED storeVars
    BY <1>1 DEF storeVars, Stored, ChargesStored, Held
  <1>2. CASE OpenStep
    <2>1. Stored \subseteq Stored'
      BY <1>2, GrantKept
    <2>2. CASE UNCHANGED <<rateEvents, owners>>
      BY <2>1, <2>2 DEF ChargesStored, Held
    <2>3. ASSUME NEW g \in GrantIds, NEW a \in ActionIds, NEW amount \in Amounts,
                 NEW effect \in EffectIds \cup {None}, NEW ts \in 0..now,
                 Reserve(g, a, amount, effect, ts)
          PROVE  ChargesStored'
      <3>1. /\ Held' = Held \cup {a} /\ owners'[a] = Lineage(g)
            /\ \A b \in Held : owners'[b] = owners[b]
        BY <2>3, ReserveCharges DEF Reserve, TypeOK, Held
      <3>2. Lineage(g) \subseteq Stored
        BY <2>3 DEF Reserve, LineageSound
      <3> QED
        BY <2>1, <3>1, <3>2 DEF ChargesStored
    <2>4. ASSUME NEW g \in GrantIds, NEW a \in ActionIds, NEW claimed \in Amounts,
                 Release(g, a, claimed)
          PROVE  ChargesStored'
      <3>1. Held' = Held \ {a} /\ \A b \in Held \ {a} : owners'[b] = owners[b]
        BY <2>4, ReleaseCharges DEF Release, TypeOK, Held
      <3> QED
        BY <2>1, <3>1 DEF ChargesStored
    <2>5. ASSUME NEW g \in GrantIds, NEW a \in ActionIds, NEW cost \in Amounts,
                 NEW claimed \in Amounts, Commit(g, a, cost, claimed)
          PROVE  ChargesStored'
      <3>1. cost \in Int
        BY StoreAssumption
      <3>2. Held' = Held
        BY <2>5, <3>1, CommitCharges
      <3> QED
        BY <2>1, <2>5, <3>2 DEF ChargesStored, Commit
    <2> QED
      BY <1>2, <2>1, <2>2, <2>3, <2>4, <2>5
      DEF OpenStep, Tick, Import, InsertGrant, AttachSignature, Revoke, Expire, SetStatus
  <1> QED
    BY <1>1, <1>2

LEMMA MoneyKept ==
  ASSUME MoneyInv, [OpenStep]_storeVars
  PROVE  MoneyInv'
  <1> USE DEF MoneyInv
  <1>1. TypeOK' /\ ChargesStored'
    BY StepTyped, ChargesKept
  <1>2. SUFFICES ASSUME NEW o \in GrantIds PROVE Books(o)'
    BY <1>1
  <1>3. CASE UNCHANGED storeVars \/ Tick
    <2>1. UNCHANGED <<grants, rateEvents, owners, overrun, opening>>
      BY <1>3 DEF storeVars, Tick
    <2> QED
      BY <2>1, BooksFrame DEF Stored, Auth
  <1>4. ASSUME NEW g \in GrantIds, Import(g)
        PROVE  Books(o)'
    BY <1>4, ImportBooks
  <1>5. ASSUME NEW g \in GrantIds, Revoke(g) \/ Expire(g)
        PROVE  Books(o)'
    BY <1>5, SetStatusBooks DEF Revoke, Expire, Statuses
  <1>6. ASSUME NEW g \in GrantIds, NEW a \in ActionIds, NEW amount \in Amounts,
               NEW effect \in EffectIds \cup {None}, NEW ts \in 0..now,
               Reserve(g, a, amount, effect, ts)
        PROVE  Books(o)'
    BY <1>6, ReserveBooks
  <1>7. ASSUME NEW g \in GrantIds, NEW a \in ActionIds, NEW claimed \in Amounts,
               Release(g, a, claimed)
        PROVE  Books(o)'
    BY <1>7, ReleaseBooks
  <1>8. ASSUME NEW g \in GrantIds, NEW a \in ActionIds, NEW cost \in Amounts,
               NEW claimed \in Amounts, Commit(g, a, cost, claimed)
        PROVE  Books(o)'
    <2>1. cost \in Int
      BY StoreAssumption
    <2> QED
      BY <1>8, <2>1, CommitBooks
  <1> QED
    BY <1>3, <1>4, <1>5, <1>6, <1>7, <1>8 DEF OpenStep

LEMMA MoneyInit == Init => MoneyInv
  <1> SUFFICES ASSUME Init PROVE MoneyInv
    OBVIOUS
  <1>1. TypeOK
    BY DEF Init, TypeOK
  <1>2. Held = {} /\ Stored = {}
    BY DEF Init, Held, Stored
  <1>3. \A g \in GrantIds : ChargedUnits(g) = {} /\ ExcessUnits(g) = {}
    BY <1>2 DEF ChargedUnits, ExcessUnits, ChargedTo, UnitsOf
  <1>4. \A g \in GrantIds : overrun[g] = 0
    BY DEF Init
  <1>5. IsFiniteSet({}) /\ Cardinality({}) = 0
    BY FS_EmptySet
  <1>6. \A g \in GrantIds : Books(g)
    BY <1>2, <1>3, <1>4, <1>5 DEF Books
  <1> QED
    BY <1>1, <1>2, <1>6 DEF MoneyInv, ChargesStored

LEMMA MoneySafe == OpenSpec => []MoneyInv
  BY MoneyInit, MoneyKept, PTL DEF OpenSpec

LEMMA MoneyConserves ==
  ASSUME MoneyInv
  PROVE  BudgetConservation /\ NoOverspend
  <1>1. BudgetConservation
    BY DEF MoneyInv, Books, BudgetConservation, Stored
  <1>2. ASSUME NEW g \in Stored
        PROVE  Cardinality(ChargedUnits(g)) <= Auth(g).limit + Cardinality(ExcessUnits(g))
    <2>1. g \in GrantIds /\ Books(g) /\ grants[g] \in GrantRow /\ overrun[g] \in Nat
      BY DEF MoneyInv, Stored, TypeOK
    <2>2. /\ Cardinality(ChargedUnits(g)) \in Nat /\ Cardinality(ExcessUnits(g)) \in Nat
          /\ grants[g].remaining \in Nat /\ Auth(g).limit \in Nat
      BY <2>1, FS_CardinalityType DEF Books, GrantRow, Auth, Authority
    <2>3. /\ overrun[g] <= Cardinality(ExcessUnits(g))
          /\ opening[g] <= Auth(g).limit
          /\ grants[g].remaining - overrun[g] + Cardinality(ChargedUnits(g)) = opening[g]
          /\ opening[g] \in Nat
      BY <2>1 DEF Books, MoneyInv, TypeOK
    <2> QED
      BY <2>1, <2>2, <2>3
  <1> QED
    BY <1>1, <1>2 DEF NoOverspend

(* Money is conserved in every grant of every delegation tree, whatever    *)
(* the number of attempts, the amounts and the order of the operations.    *)
THEOREM MoneyConserved == Spec => []BudgetConservation
  BY SpecIsOpen, MoneySafe, MoneyConserves, PTL

(* Delegation creates no money: the descendants of a grant can together    *)
(* take more than its limit only by what providers overcharged.            *)
THEOREM LimitRespected == Spec => []NoOverspend
  BY SpecIsOpen, MoneySafe, MoneyConserves, PTL

-----------------------------------------------------------------------------
(* The life of a grant and of a reservation. *)

LEMMA OpenDeadForever == OpenSpec => DeadStaysDead
  <1> DEFINE A == \A g \in Stored : grants[g].status \in {"REVOKED", "EXPIRED"} =>
                     grants'[g].status \in {"REVOKED", "EXPIRED"}
  <1>1. TypeOK /\ OpenStep => A
    BY GrantKept
  <1>2. TypeOK /\ [OpenStep]_storeVars => [A]_storeVars
    BY <1>1
  <1>3. DeadStaysDead <=> [][A]_storeVars
    BY DEF DeadStaysDead
  <1> HIDE DEF A
  <1> QED
    BY <1>2, <1>3, OpenTyped, PTL DEF OpenSpec

(* No refund, overrun, import or late expiry revives a dead grant.         *)
THEOREM DeadForever == Spec => DeadStaysDead
  BY SpecIsOpen, OpenDeadForever, PTL

(* What one step may do to a reservation.                                  *)
SettlesOrStays(a) ==
    \/ UNCHANGED <<rateEvents[a], owners[a]>>
    \/ /\ ~rateEvents[a].committed
       /\ \/ rateEvents'[a] = None
          \/ /\ rateEvents'[a] =
                   [rateEvents[a] EXCEPT !.committed = TRUE, !.actual = rateEvents'[a].actual]
             /\ owners'[a] = owners[a]

LEMMA SettleStep ==
  ASSUME TypeOK, OpenStep, NEW b \in Held
  PROVE  SettlesOrStays(b)
  <1> USE DEF SettlesOrStays
  <1>1. b \in ActionIds /\ rateEvents[b] \in RateEvent
    BY DEF Held, TypeOK
  <1>2. CASE UNCHANGED <<rateEvents, owners>>
    BY <1>2
  <1>3. ASSUME NEW g \in GrantIds, NEW a \in ActionIds, NEW amount \in Amounts,
               NEW effect \in EffectIds \cup {None}, NEW ts \in 0..now,
               Reserve(g, a, amount, effect, ts)
        PROVE  SettlesOrStays(b)
    BY <1>1, <1>3 DEF Reserve, TypeOK
  <1>4. ASSUME NEW g \in GrantIds, NEW a \in ActionIds, NEW claimed \in Amounts,
               Release(g, a, claimed)
        PROVE  SettlesOrStays(b)
    BY <1>1, <1>4 DEF Release, TypeOK
  <1>5. ASSUME NEW g \in GrantIds, NEW a \in ActionIds, NEW cost \in Amounts,
               NEW claimed \in Amounts, Commit(g, a, cost, claimed)
        PROVE  SettlesOrStays(b)
    <2>1. CASE a # b
      BY <1>1, <1>5, <2>1 DEF Commit, TypeOK
    <2>2. CASE a = b
      <3>1. rateEvents'[b] = [rateEvents[b] EXCEPT !.committed = TRUE, !.actual = PosPart(cost)]
        BY <1>1, <1>5, <2>2 DEF Commit, TypeOK
      <3>2. rateEvents'[b].actual = PosPart(cost)
        BY <1>1, <3>1 DEF RateEvent
      <3>3. ~rateEvents[b].committed /\ owners'[b] = owners[b]
        BY <1>5, <2>2 DEF Commit
      <3> QED
        BY <3>1, <3>2, <3>3
    <2> QED
      BY <2>1, <2>2
  <1> QED
    BY <1>2, <1>3, <1>4, <1>5
    DEF OpenStep, Tick, Import, InsertGrant, AttachSignature, Revoke, Expire, SetStatus

(* A reservation that has been committed stays so.                         *)
LEMMA PaidStays ==
  ASSUME TypeOK, [Next]_storeVars, NEW a \in Held, rateEvents[a].committed
  PROVE  a \in Held' /\ rateEvents'[a].committed
  <1>1. rateEvents'[a] = rateEvents[a]
    BY SettleStep, NextIsOpenStep DEF SettlesOrStays, storeVars
  <1> QED
    BY <1>1 DEF Held

LEMMA OpenSettlesOnce == OpenSpec => SettledOnce
  <1> DEFINE A == \A a \in Held : SettlesOrStays(a)
  <1>1. TypeOK /\ OpenStep => A
    BY SettleStep
  <1>2. TypeOK /\ [OpenStep]_storeVars => [A]_storeVars
    BY <1>1
  <1>3. SettledOnce <=> [][A]_storeVars
    BY DEF SettledOnce, SettlesOrStays
  <1> HIDE DEF A
  <1> QED
    BY <1>2, <1>3, OpenTyped, PTL DEF OpenSpec

(* Whatever callers retry, a reservation is committed or released once,    *)
(* and neither its amount nor its payers change before that.               *)
THEOREM SettlesOnce == Spec => SettledOnce
  BY SpecIsOpen, OpenSettlesOnce, PTL

-----------------------------------------------------------------------------
(* Rate limits. *)

Window(g, t) == {a \in ChargedTo(g) : rateEvents[a].ts \in t..(t + Auth(g).ratePer)}

RateInv ==
    /\ TypeOK
    /\ ChargesStored
    /\ IsFiniteSet(Held)
    /\ \A g \in Stored, t \in Int :
          Auth(g).rateMax > 0 => Cardinality(Window(g, t)) <= Auth(g).rateMax

(* The rate limit of a grant never changes, and windows never grow unless  *)
(* something is reserved.                                                  *)
LEMMA WindowFrame ==
  ASSUME RateInv, NEW o \in Stored, NEW t \in Int, Auth(o)'.rateMax > 0,
         Auth(o)'.rateMax = Auth(o).rateMax, Auth(o)'.ratePer = Auth(o).ratePer,
         ChargedTo(o)' \subseteq ChargedTo(o),
         \A a \in ChargedTo(o)' : rateEvents'[a].ts = rateEvents[a].ts
  PROVE  Cardinality(Window(o, t)') <= Auth(o)'.rateMax
  <1>1. Window(o, t)' \subseteq Window(o, t)
    BY DEF Window
  <1>2. IsFiniteSet(Window(o, t))
    BY FS_Subset DEF RateInv, Window, ChargedTo
  <1>3. /\ Cardinality(Window(o, t)') <= Cardinality(Window(o, t))
        /\ Cardinality(Window(o, t)') \in Nat /\ Cardinality(Window(o, t)) \in Nat
    BY <1>1, <1>2, FS_Subset, FS_CardinalityType
  <1>4. Cardinality(Window(o, t)) <= Auth(o).rateMax
    BY DEF RateInv
  <1>5. Auth(o).rateMax \in Nat
    BY DEF RateInv, TypeOK, Stored, Auth, GrantRow, Authority
  <1> QED
    BY <1>3, <1>4, <1>5

LEMMA ReserveWindow ==
  ASSUME RateInv, NEW g \in GrantIds, NEW a \in ActionIds, NEW amount \in Amounts,
         NEW effect, NEW ts \in 0..now, Reserve(g, a, amount, effect, ts),
         NEW o \in Lineage(g), NEW t \in Int, Auth(o)' = Auth(o), Auth(o).rateMax > 0
  PROVE  Cardinality(Window(o, t)') <= Auth(o)'.rateMax
  <1>1. o \in Stored /\ o \in GrantIds
    BY DEF Reserve, LineageSound, Stored
  <1>2. Auth(o).rateMax \in Nat /\ Auth(o).ratePer \in Nat
    BY <1>1 DEF RateInv, TypeOK, Stored, Auth, GrantRow, Authority
  <1>3. ts \in Nat
    BY DEF RateInv, TypeOK
  <1>4. a \notin Held /\ ChargedTo(o)' = ChargedTo(o) \cup {a}
    BY <1>1, ReserveCharges DEF RateInv
  <1>5. rateEvents'[a].ts = ts /\ \A b \in Held : rateEvents'[b] = rateEvents[b]
    BY <1>4 DEF Reserve, RateInv, TypeOK, Held
  <1>6. \A b \in Held : rateEvents[b].ts \in Nat
    BY DEF RateInv, TypeOK, Held, RateEvent
  <1>7. IsFiniteSet(Window(o, t)) /\ IsFiniteSet(RateHits(o, ts - Auth(o).ratePer))
    BY FS_Subset DEF RateInv, Window, ChargedTo, RateHits
  <1>8. /\ Cardinality(Window(o, t)) \in Nat
        /\ Cardinality(RateHits(o, ts - Auth(o).ratePer)) \in Nat
    BY <1>7, FS_CardinalityType
  <1>9. CASE ts \in t..(t + Auth(o).ratePer)
    <2>1. Window(o, t)' = Window(o, t) \cup {a}
      BY <1>4, <1>5, <1>9 DEF Window, ChargedTo
    <2>2. Window(o, t) \subseteq RateHits(o, ts - Auth(o).ratePer)
      <3> SUFFICES ASSUME NEW b \in Window(o, t)
                   PROVE  b \in RateHits(o, ts - Auth(o).ratePer)
        OBVIOUS
      <3>1. b \in Held /\ o \in owners[b] /\ rateEvents[b].ts >= t
        BY <1>2, <1>6 DEF Window, ChargedTo
      <3>2. rateEvents[b].ts >= ts - Auth(o).ratePer
        BY <1>2, <1>3, <1>6, <1>9, <3>1
      <3> QED
        BY <3>1, <3>2 DEF RateHits
    <2>3. Cardinality(Window(o, t)) <= Cardinality(RateHits(o, ts - Auth(o).ratePer))
      BY <1>7, <2>2, FS_Subset
    <2>4. Cardinality(RateHits(o, ts - Auth(o).ratePer)) < Auth(o).rateMax
      BY DEF Reserve, MayCharge, UnderRateLimit
    <2>5. a \notin Window(o, t)
      BY <1>4 DEF Window, ChargedTo
    <2>6. Cardinality(Window(o, t) \cup {a}) = Cardinality(Window(o, t)) + 1
      BY <1>7, <2>5, FS_AddElement
    <2> QED
      BY <1>2, <1>8, <2>1, <2>3, <2>4, <2>6
  <1>10. CASE ts \notin t..(t + Auth(o).ratePer)
    <2>1. Window(o, t)' = Window(o, t)
      BY <1>4, <1>5, <1>10 DEF Window, ChargedTo
    <2> QED
      BY <1>1, <2>1 DEF RateInv
  <1> QED
    BY <1>9, <1>10

LEMMA RateStep ==
  ASSUME RateInv, [OpenStep]_storeVars
  PROVE  RateInv'
  <1> USE DEF RateInv
  <1>1. TypeOK' /\ ChargesStored'
    BY StepTyped, ChargesKept
  <1> DEFINE Goal == IsFiniteSet(Held') /\ \A o \in Stored', t \in Int :
                        Auth(o)'.rateMax > 0 => Cardinality(Window(o, t)') <= Auth(o)'.rateMax
  <1>2. CASE UNCHANGED storeVars
    BY <1>1, <1>2 DEF storeVars, Held, Stored, Window, ChargedTo, Auth
  <1>3. ASSUME OpenStep
        PROVE  Goal
    <2>1. \A o \in Stored : Auth(o)'.rateMax = Auth(o).rateMax /\ Auth(o)'.ratePer = Auth(o).ratePer
      <3> TAKE o \in Stored
      <3>1. Auth(o) \in Authority
        BY DEF TypeOK, Stored, Auth, GrantRow
      <3>2. Auth(o)' \in {Auth(o), [Auth(o) EXCEPT !.signed = TRUE]}
        BY <1>3, GrantKept
      <3> QED
        BY <3>1, <3>2 DEF Authority
    <2>2. ASSUME NEW o \in Stored', NEW t \in Int, o \notin Stored, Auth(o)'.rateMax > 0,
                 UNCHANGED <<rateEvents, owners>>
          PROVE  Cardinality(Window(o, t)') <= Auth(o)'.rateMax
      <3>1. Window(o, t)' = {}
        BY <2>2 DEF Window, ChargedTo, ChargesStored, Held
      <3>2. Cardinality({}) = 0
        BY FS_EmptySet
      <3>3. Auth(o)'.rateMax \in Nat
        BY <1>1, <2>2 DEF TypeOK, Stored, Auth, GrantRow, Authority
      <3> QED
        BY <3>1, <3>2, <3>3
    <2>3. CASE UNCHANGED <<rateEvents, owners>>
      <3>1. Held' = Held /\ \A o \in Stored : ChargedTo(o)' = ChargedTo(o)
        BY <2>3 DEF Held, ChargedTo
      <3>2. ASSUME NEW o \in Stored, NEW t \in Int, Auth(o)'.rateMax > 0
            PROVE  Cardinality(Window(o, t)') <= Auth(o)'.rateMax
        BY <2>1, <2>3, <3>1, <3>2, WindowFrame
      <3> QED
        BY <2>2, <2>3, <3>1, <3>2
    <2>4. ASSUME NEW g \in GrantIds, NEW a \in ActionIds, NEW amount \in Amounts,
                 NEW effect \in EffectIds \cup {None}, NEW ts \in 0..now,
                 Reserve(g, a, amount, effect, ts)
          PROVE  Goal
      <3>1. Held' = Held \cup {a} /\ IsFiniteSet(Held')
        BY <2>4, ReserveCharges, FS_AddElement
      <3>2. Lineage(g) \subseteq Stored
        BY <2>4 DEF Reserve, LineageSound
      <3>3. ASSUME NEW o \in GrantIds, o \notin Lineage(g)
            PROVE  grants'[o] = grants[o] /\ ChargedTo(o)' = ChargedTo(o)
        BY <2>4, <3>3, ReserveCharges DEF Reserve
      <3>4. \A b \in Held : rateEvents'[b] = rateEvents[b]
        BY <2>4 DEF Reserve, TypeOK, Held
      <3>5. ASSUME NEW o \in Lineage(g)
            PROVE  Auth(o)' = Auth(o)
        <4>1. o \in GrantIds /\ grants[o] \in GrantRow
          BY <3>2 DEF Stored, TypeOK
        <4>2. grants'[o] = Debit(grants[o], amount)
          BY <2>4, <4>1 DEF Reserve
        <4> QED
          BY <4>1, <4>2 DEF Debit, GrantRow, Auth
      <3>6. ASSUME NEW o \in Stored', NEW t \in Int, Auth(o)'.rateMax > 0
            PROVE  Cardinality(Window(o, t)') <= Auth(o)'.rateMax
        <4>1. CASE o \in Lineage(g)
          BY <2>4, <3>5, <3>6, <4>1, ReserveWindow
        <4>2. CASE o \notin Lineage(g)
          <5>1. o \in GrantIds /\ o \in Stored
            BY <3>3, <3>6, <4>2 DEF Stored
          <5>2. \A b \in ChargedTo(o)' : rateEvents'[b].ts = rateEvents[b].ts
            BY <3>3, <3>4, <4>2, <5>1 DEF ChargedTo
          <5> QED
            BY <2>1, <3>3, <3>6, <4>2, <5>1, <5>2, WindowFrame
        <4> QED
          BY <4>1, <4>2
      <3> QED
        BY <3>1, <3>6
    <2>5. ASSUME Held' \subseteq Held, Stored' = Stored,
                 \A o \in Stored : ChargedTo(o)' \subseteq ChargedTo(o),
                 \A b \in Held' : rateEvents'[b].ts = rateEvents[b].ts
          PROVE  Goal
      <3>1. IsFiniteSet(Held')
        BY <2>5, FS_Subset
      <3>2. ASSUME NEW o \in Stored, NEW t \in Int, Auth(o)'.rateMax > 0
            PROVE  Cardinality(Window(o, t)') <= Auth(o)'.rateMax
        <4>1. \A b \in ChargedTo(o)' : rateEvents'[b].ts = rateEvents[b].ts
          BY <2>5 DEF ChargedTo
        <4> QED
          BY <2>1, <2>5, <3>2, <4>1, WindowFrame
      <3> QED
        BY <2>5, <3>1, <3>2
    <2>6. ASSUME NEW g \in GrantIds, NEW a \in ActionIds, NEW claimed \in Amounts,
                 Release(g, a, claimed)
          PROVE  Goal
      <3>1. claimed \in Int /\ SettleOwners(g, a, claimed)
        BY <2>6, StoreAssumption DEF Release
      <3>2. Stored' = Stored
        BY <3>1, SettleOwner DEF Stored
      <3>3. Held' \subseteq Held /\ \A o \in Stored : ChargedTo(o)' \subseteq ChargedTo(o)
        BY <2>6, ReleaseCharges DEF Stored
      <3>4. \A b \in Held' : rateEvents'[b] = rateEvents[b]
        BY <2>6, ReleaseCharges DEF Release, TypeOK, Held
      <3> QED
        BY <2>5, <3>2, <3>3, <3>4
    <2>7. ASSUME NEW g \in GrantIds, NEW a \in ActionIds, NEW cost \in Amounts,
                 NEW claimed \in Amounts, Commit(g, a, cost, claimed)
          PROVE  Goal
      <3>1. cost \in Int
        BY StoreAssumption
      <3>2. /\ Held' = Held /\ claimed \in Nat /\ PosPart(cost) \in Nat
            /\ \A o \in GrantIds : ChargedTo(o)' = ChargedTo(o)
        BY <2>7, <3>1, CommitCharges
      <3>3. claimed - PosPart(cost) \in Int /\ SettleOwners(g, a, claimed - PosPart(cost))
        BY <2>7, <3>2 DEF Commit
      <3>4. Stored' = Stored
        BY <3>3, SettleOwner DEF Stored
      <3>5. \A b \in Held' : rateEvents'[b].ts = rateEvents[b].ts
        BY <2>7, <3>2 DEF Commit, TypeOK, Held, RateEvent
      <3> QED
        BY <2>5, <3>2, <3>4, <3>5 DEF Stored
    <2> QED
      BY <1>3, <2>3, <2>4, <2>6, <2>7
      DEF OpenStep, Tick, Import, InsertGrant, AttachSignature, Revoke, Expire, SetStatus
  <1> QED
    BY <1>1, <1>2, <1>3

LEMMA RateInit == Init => RateInv
  <1>1. Init => Held = {} /\ Stored = {} /\ TypeOK
    BY DEF Init, Held, Stored, TypeOK
  <1> QED
    BY <1>1, FS_EmptySet DEF RateInv, ChargesStored

LEMMA OpenRateLimited == OpenSpec => []RateCeiling
  <1>1. RateInv => RateCeiling
    BY DEF RateInv, RateCeiling, Window, TypeOK
  <1>2. OpenSpec => []RateInv
    BY RateInit, RateStep, PTL DEF OpenSpec
  <1> QED
    BY <1>1, <1>2, PTL

(* No window ever holds more attempts than a grant's rate limit allows,    *)
(* even when reservations carry timestamps read before a long wait.        *)
THEOREM RateLimited == Spec => []RateCeiling
  BY SpecIsOpen, OpenRateLimited, PTL

-----------------------------------------------------------------------------
(* What the operations do to the set of reservations, for the modules that *)
(* build on the store.                                                     *)

LEMMA ReserveHolds ==
  ASSUME TypeOK, NEW g \in GrantIds, NEW a \in ActionIds, NEW amount \in Amounts,
         NEW effect, NEW ts \in Nat, Reserve(g, a, amount, effect, ts)
  PROVE  Held' = Held \cup {a}
  <1> DEFINE event == [grant |-> g, ts |-> ts, reserved |-> amount, committed |-> FALSE,
                       actual |-> 0]
  <1>1. amount >= 0 /\ rateEvents' = [rateEvents EXCEPT ![a] = event]
    BY DEF Reserve
  <1>2. event # None
    <2>1. event \in RateEvent
      BY <1>1 DEF RateEvent, Charges
    <2> QED
      BY <2>1, StoreAssumption
  <1> HIDE DEF event
  <1> QED
    BY <1>1, <1>2 DEF Held, TypeOK

LEMMA ReleaseFrees ==
  ASSUME TypeOK, NEW g \in GrantIds, NEW a \in ActionIds, NEW claimed \in Amounts,
         Release(g, a, claimed)
  PROVE  Held' = Held \ {a}
  BY DEF Release, Held, TypeOK

LEMMA CommitHolds ==
  ASSUME TypeOK, NEW g \in GrantIds, NEW a \in ActionIds, NEW cost \in Amounts,
         NEW claimed \in Amounts, Commit(g, a, cost, claimed)
  PROVE  Held' = Held
  <1> DEFINE event == [rateEvents[a] EXCEPT !.committed = TRUE, !.actual = PosPart(cost)]
  <1>1. rateEvents' = [rateEvents EXCEPT ![a] = event] /\ a \in Held
    BY DEF Commit, Reservation, TypeOK, Held
  <1>2. event # None
    <2>1. rateEvents[a] \in RateEvent /\ PosPart(cost) \in Nat
      BY <1>1, StoreAssumption, PosPartType DEF Held, TypeOK
    <2>2. event \in RateEvent
      BY <2>1 DEF RateEvent
    <2> QED
      BY <2>2, StoreAssumption
  <1> HIDE DEF event
  <1> QED
    BY <1>1, <1>2 DEF Held, TypeOK

-----------------------------------------------------------------------------
(* The delegation lineage.  Walk is a recursive function; that there is    *)
(* one that satisfies its own definition takes an induction over its       *)
(* length, by the least length for which there is none.                    *)

Below == {pair \in Nat \X Nat : pair[1] < pair[2]}

LEMMA LeastNumber ==
  ASSUME NEW S \in SUBSET Nat, S # {}
  PROVE  \E n \in S : \A m \in S : ~(m < n)
  <1>1. IsWellFoundedOn(Below, Nat)
    BY NatLessThanWellFounded DEF OpToRel, Below
  <1>2. PICK n \in S : \A m \in S : <<m, n>> \notin Below
    BY <1>1, WFMin
  <1>3. ASSUME NEW m \in S, m < n
        PROVE  FALSE
    <2>1. <<m, n>> \in Nat \X Nat
      OBVIOUS
    <2>2. <<m, n>> \in Below
      BY <1>3, <2>1 DEF Below
    <2> QED
      BY <1>2, <2>2
  <1> QED
    BY <1>3

(* One link up.                                                            *)
Up(o) == IF o \in Stored THEN Auth(o).parent ELSE None

(* A walk of n links.                                                      *)
IsWalk(g, n, up) == up = [m \in 0..n |-> IF m = 0 THEN g ELSE Up(up[m-1])]

LEMMA WalkExists ==
  ASSUME NEW g, NEW n \in Nat
  PROVE  \E up : IsWalk(g, n, up)
  <1> DEFINE bad == {k \in Nat : ~\E up : IsWalk(g, k, up)}
  <1> SUFFICES ASSUME bad # {} PROVE FALSE
    OBVIOUS
  <1>1. PICK k \in bad : \A m \in bad : ~(m < k)
    <2>1. bad \in SUBSET Nat
      OBVIOUS
    <2> HIDE DEF bad
    <2> QED
      BY <2>1, LeastNumber
  <1>2. CASE k = 0
    <2> DEFINE up == [m \in 0..0 |-> g]
    <2>1. up = [m \in 0..0 |-> IF m = 0 THEN g ELSE Up(up[m-1])]
      OBVIOUS
    <2>2. IsWalk(g, k, up)
      BY <1>2, <2>1 DEF IsWalk
    <2> QED
      BY <2>2
  <1>3. CASE k # 0
    <2>1. k - 1 \in Nat /\ k - 1 < k
      BY <1>3
    <2>2. k - 1 \notin bad
      BY <1>1, <2>1
    <2>3. PICK shorter : IsWalk(g, k - 1, shorter)
      BY <2>1, <2>2
    <2> DEFINE up == [m \in 0..k |-> IF m = k THEN Up(shorter[k-1]) ELSE shorter[m]]
    <2>4. \A m \in 0..(k-1) : shorter[m] = IF m = 0 THEN g ELSE Up(shorter[m-1])
      BY <2>3 DEF IsWalk
    <2>5. \A m \in 0..k : up[m] = IF m = 0 THEN g ELSE Up(up[m-1])
      BY <1>3, <2>1, <2>4
    <2>6. up = [m \in 0..k |-> up[m]]
      OBVIOUS
    <2> HIDE DEF up
    <2>7. IsWalk(g, k, up)
      BY <2>5, <2>6 DEF IsWalk
    <2> QED
      BY <2>7
  <1> QED
    BY <1>2, <1>3

LEMMA WalkIs ==
  ASSUME NEW g
  PROVE  IsWalk(g, MaxOwners, Walk(g))
  <1>1. PICK up : IsWalk(g, MaxOwners, up)
    BY WalkExists, StoreAssumption
  <1>2. Walk(g) = CHOOSE f : IsWalk(g, MaxOwners, f)
    BY DEF Walk, IsWalk, Up
  <1> QED
    BY <1>1, <1>2

WalksAreWalks == \A g : IsWalk(g, MaxOwners, Walk(g))

LEMMA WalksStay == WalksAreWalks'
  <1>1. WalksAreWalks
    BY WalkIs DEF WalksAreWalks
  <1> QED
    BY <1>1, PTL

(* A walk that has run off the root finds nothing more.                    *)
LEMMA WalkEnds ==
  ASSUME NEW g, NEW i \in 0..MaxOwners, NEW j \in 0..MaxOwners, i <= j, Walk(g)[i] = None
  PROVE  Walk(g)[j] = None
  <1> DEFINE up == Walk(g)
             bad == {k \in Nat : k \in i..MaxOwners /\ up[k] # None}
  <1>1. \A m \in 0..MaxOwners : up[m] = IF m = 0 THEN g ELSE Up(up[m-1])
    BY WalkIs DEF IsWalk
  <1>2. MaxOwners \in Nat /\ up[i] = None /\ None \notin Stored
    BY StoreAssumption DEF Stored
  <1> HIDE DEF up
  <1> SUFFICES ASSUME bad # {} PROVE FALSE
    BY <1>2 DEF up
  <1>3. PICK k \in bad : \A m \in bad : ~(m < k)
    <2>1. bad \in SUBSET Nat
      OBVIOUS
    <2> HIDE DEF bad
    <2> QED
      BY <2>1, LeastNumber
  <1>4. k # i /\ k - 1 \in Nat /\ k - 1 \in i..MaxOwners /\ k - 1 < k
    BY <1>2, <1>3
  <1>5. up[k-1] = None
    BY <1>3, <1>4
  <1> QED
    BY <1>1, <1>2, <1>3, <1>4, <1>5 DEF Up

(* An import may lengthen a walk that ran into a missing row; what the     *)
(* walk had found it finds for ever.                                       *)
LEMMA WalkKept ==
  ASSUME TypeOK, [OpenStep]_storeVars, NEW g, NEW i \in 0..MaxOwners, Walk(g)[i] # None
  PROVE  Walk(g)'[i] = Walk(g)[i]
  <1>1. PICK up, later : up = Walk(g) /\ later = Walk(g)'
    OBVIOUS
  <1> DEFINE bad == {k \in Nat : k \in 0..MaxOwners /\ up[k] # None /\ later[k] # up[k]}
  <1>2. \A m \in 0..MaxOwners : up[m] = IF m = 0 THEN g ELSE Up(up[m-1])
    BY <1>1, WalkIs DEF IsWalk
  <1>3. \A m \in 0..MaxOwners : later[m] = IF m = 0 THEN g ELSE Up(later[m-1])'
    <2>1. IsWalk(g, MaxOwners, Walk(g))'
      BY WalksStay DEF WalksAreWalks
    <2> QED
      BY <1>1, <2>1 DEF IsWalk
  <1>4. \A o \in Stored : Up(o)' = Up(o)
    BY StoredKept, SameFields DEF Up
  <1> SUFFICES ASSUME bad # {} PROVE FALSE
    BY <1>1
  <1>5. PICK k \in bad : \A m \in bad : ~(m < k)
    <2>1. bad \in SUBSET Nat
      OBVIOUS
    <2> HIDE DEF bad
    <2> QED
      BY <2>1, LeastNumber
  <1>6. k # 0 /\ k - 1 \in Nat /\ k - 1 \in 0..MaxOwners /\ k - 1 < k
    <2>1. MaxOwners \in Nat /\ k \in 0..MaxOwners /\ later[k] # up[k]
      BY <1>5, StoreAssumption
    <2>2. k # 0
      BY <1>2, <1>3, <2>1
    <2> QED
      BY <2>1, <2>2
  <1>7. up[k-1] \in Stored /\ up[k-1] # None
    BY <1>2, <1>5, <1>6, StoreAssumption DEF Up, Stored
  <1>8. later[k-1] = up[k-1]
    BY <1>5, <1>6, <1>7
  <1> QED
    BY <1>2, <1>3, <1>4, <1>5, <1>6, <1>7, <1>8

(* What the store has checked about a lineage it charges.                  *)
LEMMA LineageFacts ==
  ASSUME NEW g \in GrantIds, NEW statuses, LineageSound(g, statuses), NEW o \in Lineage(g)
  PROVE  /\ g \in Lineage(g) /\ o \in Stored
         /\ Auth(o).parent = None => Auth(o).depth = 0
         /\ Auth(o).parent # None => Auth(o).parent \in Lineage(g)
         /\ Auth(o).parent # None => Narrows(Auth(o), Auth(Auth(o).parent))
         /\ o # g => \E child \in Lineage(g) : Auth(child).parent = o
  <1> DEFINE up == Walk(g)
  <1>1. MaxOwners \in Nat /\ MaxOwners > 0 /\ g # None
    BY StoreAssumption
  <1>2. \A m \in 0..MaxOwners : up[m] = IF m = 0 THEN g ELSE Up(up[m-1])
    BY WalkIs DEF IsWalk
  <1>3. Lineage(g) = {up[m] : m \in 0..MaxOwners} \ {None}
    BY DEF Lineage
  <1>4. up[MaxOwners] = None /\ Lineage(g) \subseteq Stored
    BY DEF LineageSound
  <1> HIDE DEF up
  <1>5. g \in Lineage(g)
    BY <1>1, <1>2, <1>3
  <1>6. PICK n \in 0..MaxOwners : o = up[n] /\ o # None
    BY <1>3
  <1>7. Auth(o).parent # None => Auth(o).parent \in Lineage(g)
    <2>1. n # MaxOwners
      BY <1>4, <1>6
    <2>2. n + 1 \in 0..MaxOwners /\ n + 1 # 0 /\ (n + 1) - 1 = n
      BY <1>1, <2>1
    <2>3. up[n+1] = Up(o)
      BY <1>2, <1>6, <2>2
    <2>4. Up(o) = Auth(o).parent
      BY <1>4 DEF Up
    <2> QED
      BY <1>3, <2>2, <2>3, <2>4
  <1>8. o # g => \E child \in Lineage(g) : Auth(child).parent = o
    <2> SUFFICES ASSUME o # g PROVE \E child \in Lineage(g) : Auth(child).parent = o
      OBVIOUS
    <2>1. n # 0
      BY <1>2, <1>6
    <2>2. n - 1 \in 0..MaxOwners
      BY <1>1, <2>1
    <2>3. PICK child : child = up[n-1]
      OBVIOUS
    <2>4. o = Up(child)
      BY <1>2, <1>6, <2>1, <2>3
    <2>5. child \in Stored /\ Auth(child).parent = o
      BY <1>6, <2>4 DEF Up
    <2>6. child # None
      BY <2>5, StoreAssumption DEF Stored
    <2>7. child \in Lineage(g)
      BY <1>3, <2>2, <2>3, <2>6
    <2> QED
      BY <2>5, <2>7
  <1>9. /\ o \in Stored
        /\ Auth(o).parent = None => Auth(o).depth = 0
        /\ Auth(o).parent # None => Narrows(Auth(o), Auth(Auth(o).parent))
    BY DEF LineageSound
  <1> QED
    BY <1>5, <1>7, <1>8, <1>9

(* An attempt that is held and was not before has just been reserved.      *)
LEMMA NewlyHeld ==
  ASSUME TypeOK, [OpenStep]_storeVars, NEW a \in Held', a \notin Held
  PROVE  \E g \in GrantIds : /\ LineageSound(g, {"ACTIVE"}) /\ Lineage(g) \subseteq GrantIds
                             /\ rateEvents'[a].grant = g /\ owners'[a] = Lineage(g)
                             /\ \A o \in Stored : Auth(o)' = Auth(o)
  <1>1. a \in ActionIds /\ rateEvents[a] = None /\ rateEvents'[a] # None
    BY DEF Held
  <1>2. ASSUME NEW g \in GrantIds, NEW b \in ActionIds, NEW amount \in Amounts,
               NEW effect \in EffectIds \cup {None}, NEW ts \in 0..now,
               Reserve(g, b, amount, effect, ts)
        PROVE  \E h \in GrantIds : /\ LineageSound(h, {"ACTIVE"}) /\ Lineage(h) \subseteq GrantIds
                                   /\ rateEvents'[a].grant = h /\ owners'[a] = Lineage(h)
                                   /\ \A o \in Stored : Auth(o)' = Auth(o)
    <2>1. a = b
      BY <1>1, <1>2 DEF Reserve, TypeOK
    <2>2. rateEvents'[a].grant = g /\ owners'[a] = Lineage(g)
      BY <1>1, <1>2, <2>1 DEF Reserve, TypeOK
    <2>3. LineageSound(g, {"ACTIVE"}) /\ Lineage(g) \subseteq GrantIds
      BY <1>2 DEF Reserve, LineageSound, Stored
    <2>4. ASSUME NEW o \in Stored
          PROVE  Auth(o)' = Auth(o)
      <3>1. o \in GrantIds /\ grants[o] \in GrantRow
        BY DEF Stored, TypeOK
      <3>2. CASE o \in Lineage(g)
        <4>1. grants'[o] = Debit(grants[o], amount)
          BY <1>2, <3>1, <3>2 DEF Reserve
        <4> QED
          BY <3>1, <4>1 DEF Debit, GrantRow, Auth
      <3>3. CASE o \notin Lineage(g)
        BY <1>2, <3>1, <3>3 DEF Reserve, Auth
      <3> QED
        BY <3>2, <3>3
    <2> QED
      BY <2>2, <2>3, <2>4
  <1>3. ASSUME NEW g \in GrantIds, NEW b \in ActionIds, NEW claimed \in Amounts,
               Release(g, b, claimed)
        PROVE  FALSE
    BY <1>1, <1>3 DEF Release, TypeOK
  <1>4. ASSUME NEW g \in GrantIds, NEW b \in ActionIds, NEW cost \in Amounts,
               NEW claimed \in Amounts, Commit(g, b, cost, claimed)
        PROVE  FALSE
    BY <1>1, <1>4 DEF Commit, Reservation, Held, TypeOK
  <1>5. rateEvents' # rateEvents
    BY <1>1
  <1> QED
    BY <1>2, <1>3, <1>4, <1>5
    DEF OpenStep, storeVars, Tick, Import, InsertGrant, AttachSignature, Revoke, Expire, SetStatus

(* One held attempt is charged to a complete chain.                        *)
ChargedChain(a) ==
    /\ rateEvents[a].grant \in owners[a]
    /\ \A o \in owners[a] :
          /\ o \in Stored
          /\ IF Auth(o).parent = None THEN Auth(o).depth = 0
             ELSE /\ Auth(o).parent \in owners[a]
                  /\ Narrows(Auth(o), Auth(Auth(o).parent))
          /\ o # rateEvents[a].grant =>
                \E child \in owners[a] : Auth(child).parent = o

LEMMA ChargedChainKept ==
  ASSUME TypeOK, [OpenStep]_storeVars, NEW a \in Held, ChargedChain(a),
         rateEvents'[a].grant = rateEvents[a].grant, owners'[a] = owners[a]
  PROVE  ChargedChain(a)'
  <1>1. \A o \in owners[a] : /\ o \in Stored /\ o \in Stored'
                             /\ Auth(o) \in Authority /\ Auth(o)' \in Authority
                             /\ Same(Auth(o), Auth(o)')
    BY StoredKept DEF ChargedChain
  <1>2. \A o \in owners[a] : Auth(o)'.parent = Auth(o).parent /\ Auth(o)'.depth = Auth(o).depth
    BY <1>1, SameFields
  <1>3. ASSUME NEW o \in owners[a], Auth(o).parent # None
        PROVE  Narrows(Auth(o)', Auth(Auth(o).parent)')
    <2>1. PICK parent \in owners[a] : parent = Auth(o).parent
      BY <1>3 DEF ChargedChain
    <2>2. Narrows(Auth(o), Auth(parent))
      BY <1>3, <2>1 DEF ChargedChain
    <2>3. Narrows(Auth(o)', Auth(parent)')
      BY <1>1, <2>2, SameNarrows
    <2> QED
      BY <1>2, <2>1, <2>3 DEF Auth
  <1> QED
    BY <1>1, <1>2, <1>3 DEF ChargedChain

LEMMA ChargedChainNew ==
  ASSUME TypeOK, [OpenStep]_storeVars, NEW a \in Held', a \notin Held
  PROVE  ChargedChain(a)'
  <1>1. PICK g \in GrantIds : /\ LineageSound(g, {"ACTIVE"}) /\ Lineage(g) \subseteq GrantIds
                              /\ rateEvents'[a].grant = g /\ owners'[a] = Lineage(g)
                              /\ \A o \in Stored : Auth(o)' = Auth(o)
    BY NewlyHeld
  <1>2. PICK charged : charged = Lineage(g)
    OBVIOUS
  <1>3. g \in charged
    <2>1. g \in Stored /\ Walk(g)[0] = g /\ g # None
      BY <1>1, WalkIs, StoreAssumption DEF LineageSound, IsWalk
    <2> QED
      BY <1>2, <2>1, StoreAssumption DEF Lineage
  <1>4. \A o \in charged :
           /\ o \in Stored
           /\ Auth(o).parent = None => Auth(o).depth = 0
           /\ Auth(o).parent # None => Auth(o).parent \in charged
           /\ Auth(o).parent # None => Narrows(Auth(o), Auth(Auth(o).parent))
           /\ o # g => \E child \in charged : Auth(child).parent = o
    BY <1>1, <1>2, LineageFacts
  <1>5. \A o \in charged : o \in Stored' /\ Auth(o)' = Auth(o)
    BY <1>1, <1>4, StoredKept
  <1>6. ASSUME NEW o \in charged, Auth(o).parent # None
        PROVE  Auth(Auth(o).parent)' = Auth(Auth(o).parent)
    <2>1. PICK parent \in charged : parent = Auth(o).parent
      BY <1>4, <1>6
    <2>2. Auth(parent)' = Auth(parent)
      BY <1>5
    <2> QED
      BY <1>5, <2>1, <2>2 DEF Auth
  <1> QED
    BY <1>1, <1>2, <1>3, <1>4, <1>5, <1>6 DEF ChargedChain

(* What stays held keeps its owners.                                       *)
LEMMA HeldKeeps ==
  ASSUME TypeOK, [OpenStep]_storeVars, NEW a \in Held, a \in Held'
  PROVE  rateEvents'[a].grant = rateEvents[a].grant /\ owners'[a] = owners[a]
  <1>1. rateEvents[a] \in RateEvent /\ rateEvents'[a] # None
    BY DEF Held, TypeOK
  <1>2. SettlesOrStays(a)
    BY SettleStep DEF SettlesOrStays, storeVars
  <1>3. CASE UNCHANGED <<rateEvents[a], owners[a]>>
    BY <1>3
  <1>4. CASE /\ rateEvents'[a] = [rateEvents[a] EXCEPT !.committed = TRUE,
                                                      !.actual = rateEvents'[a].actual]
             /\ owners'[a] = owners[a]
    <2>1. PICK actual : actual = rateEvents'[a].actual
      OBVIOUS
    <2>2. rateEvents'[a] = [rateEvents[a] EXCEPT !.committed = TRUE, !.actual = actual]
      BY <1>4, <2>1
    <2> QED
      BY <1>1, <1>4, <2>2 DEF RateEvent
  <1> QED
    BY <1>1, <1>2, <1>3, <1>4 DEF SettlesOrStays

LEMMA OpenChargesClosed == OpenSpec => []ChargedLineageClosed
  <1>1. Init => ChargedLineageClosed
    BY DEF Init, ChargedLineageClosed, Held
  <1>2. ASSUME TypeOK, ChargedLineageClosed, [OpenStep]_storeVars
        PROVE  ChargedLineageClosed'
    <2>1. ASSUME NEW a \in Held'
          PROVE  ChargedChain(a)'
      <3>1. CASE a \notin Held
        BY <1>2, <2>1, <3>1, ChargedChainNew
      <3>2. CASE a \in Held
        <4>1. ChargedChain(a)
          BY <1>2, <3>2 DEF ChargedLineageClosed, ChargedChain
        <4>2. rateEvents'[a].grant = rateEvents[a].grant /\ owners'[a] = owners[a]
          BY <1>2, <2>1, <3>2, HeldKeeps
        <4> QED
          BY <1>2, <3>2, <4>1, <4>2, ChargedChainKept
      <3> QED
        BY <3>1, <3>2
    <2> QED
      BY <2>1 DEF ChargedLineageClosed, ChargedChain
  <1> QED
    BY <1>1, <1>2, OpenTyped, PTL DEF OpenSpec

(* Every hold is charged to a complete chain of ever narrower authority,   *)
(* whatever is imported, signed, revoked, settled or charged to siblings   *)
(* after it was made (delegated_budget.py).                                *)
THEOREM ChargesClosed == Spec => []ChargedLineageClosed
  BY SpecIsOpen, OpenChargesClosed, PTL

-----------------------------------------------------------------------------
(* Narrowing at any distance.  Narrows compares a grant with its parent;   *)
(* what it compares, save the depth, carries over to every ancestor.       *)

NoWider(inner, outer) ==
    /\ inner.currency = outer.currency
    /\ inner.limit <= outer.limit
    /\ inner.expires <= outer.expires
    /\ inner.allow \subseteq outer.allow
    /\ inner.allow = {} => outer.allow = {}
    /\ outer.deny \subseteq inner.deny
    /\ outer.rules \subseteq inner.rules
    /\ outer.rateMax > 0 => inner.rateMax \in 1..outer.rateMax
    /\ inner.ratePer >= outer.ratePer
    /\ outer.approved # None =>
          inner.approved # None /\ inner.approved \subseteq outer.approved

LEMMA NoWiderItself ==
  ASSUME NEW a \in Authority
  PROVE  NoWider(a, a)
  <1>1. /\ a.limit \in Nat /\ a.expires \in Nat /\ a.rateMax \in Nat /\ a.ratePer \in Nat
    BY DEF Authority
  <1> QED
    BY <1>1 DEF NoWider

LEMMA NoWiderNarrows ==
  ASSUME NEW a \in Authority, NEW b \in Authority, NEW c \in Authority,
         NoWider(a, b), Narrows(b, c)
  PROVE  NoWider(a, c)
  <1>1. /\ a.limit \in Nat /\ b.limit \in Nat /\ c.limit \in Nat
        /\ a.expires \in Nat /\ b.expires \in Nat /\ c.expires \in Nat
    BY DEF Authority
  <1>2. /\ a.rateMax \in Nat /\ b.rateMax \in Nat /\ c.rateMax \in Nat
        /\ a.ratePer \in Nat /\ b.ratePer \in Nat /\ c.ratePer \in Nat
    BY DEF Authority
  <1>3. a.currency = c.currency /\ a.limit <= c.limit /\ a.expires <= c.expires
    BY <1>1 DEF NoWider, Narrows
  <1>4. a.allow \subseteq c.allow /\ (a.allow = {} => c.allow = {})
    BY DEF NoWider, Narrows
  <1>5. c.deny \subseteq a.deny /\ c.rules \subseteq a.rules
    BY DEF NoWider, Narrows
  <1>6. (c.rateMax > 0 => a.rateMax \in 1..c.rateMax) /\ a.ratePer >= c.ratePer
    BY <1>2 DEF NoWider, Narrows
  <1>7. c.approved # None => a.approved # None /\ a.approved \subseteq c.approved
    BY DEF NoWider, Narrows
  <1> QED
    BY <1>3, <1>4, <1>5, <1>6, <1>7 DEF NoWider

LEMMA SameNoWider ==
  ASSUME NEW a \in Authority, NEW b \in Authority, NEW c \in Authority, NEW d \in Authority,
         Same(a, b), Same(c, d), NoWider(a, c)
  PROVE  NoWider(b, d)
  BY SameFields DEF NoWider

(* A walk that starts in a set of narrowing grants closed under parents    *)
(* stays in it, and only ever widens.                                      *)
LEMMA LineageNoWider ==
  ASSUME TypeOK, NEW S, S \subseteq Stored, NEW g \in S,
         \A o \in S : Auth(o).parent # None =>
             Auth(o).parent \in S /\ Narrows(Auth(o), Auth(Auth(o).parent))
  PROVE  \A o \in Lineage(g) : o \in S /\ NoWider(Auth(g), Auth(o))
  <1> DEFINE up == Walk(g)
             good(o) == o \in S /\ NoWider(Auth(g), Auth(o))
             bad == {k \in Nat : k \in 0..MaxOwners /\ up[k] # None /\ ~good(up[k])}
  <1>1. \A m \in 0..MaxOwners : up[m] = IF m = 0 THEN g ELSE Up(up[m-1])
    BY WalkIs DEF IsWalk
  <1>2. \A o \in S : Auth(o) \in Authority
    BY DEF Stored, TypeOK, GrantRow, Auth
  <1>3. MaxOwners \in Nat /\ None \notin Stored
    BY StoreAssumption DEF Stored
  <1>4. bad = {}
    <2> SUFFICES ASSUME bad # {} PROVE FALSE
      OBVIOUS
    <2>1. PICK k \in bad : \A m \in bad : ~(m < k)
      <3>1. bad \in SUBSET Nat
        OBVIOUS
      <3> HIDE DEF bad
      <3> QED
        BY <3>1, LeastNumber
    <2>2. k \in 0..MaxOwners /\ up[k] # None /\ ~good(up[k])
      BY <2>1
    <2>3. k # 0
      <3>1. good(g)
        BY <1>2, NoWiderItself
      <3> HIDE DEF good
      <3> QED
        BY <1>1, <1>3, <2>2, <3>1
    <2>4. k - 1 \in 0..MaxOwners /\ k - 1 \in Nat /\ k - 1 < k
      BY <1>3, <2>2, <2>3
    <2>5. PICK o : o = up[k-1]
      OBVIOUS
    <2>6. up[k] = Up(o)
      BY <1>1, <2>2, <2>3, <2>5
    <2>7. o \in Stored /\ up[k] = Auth(o).parent
      BY <2>2, <2>6 DEF Up
    <2>8. good(o)
      <3>1. k - 1 \notin bad
        BY <2>1, <2>4
      <3> HIDE DEF good
      <3> QED
        BY <1>3, <2>4, <2>5, <2>7, <3>1
    <2>9. PICK parent \in S : parent = up[k] /\ Narrows(Auth(o), Auth(parent))
      BY <2>2, <2>7, <2>8
    <2>10. NoWider(Auth(g), Auth(parent))
      BY <1>2, <2>8, <2>9, NoWiderNarrows
    <2> QED
      BY <2>2, <2>9, <2>10
  <1>5. \A k \in 0..MaxOwners : up[k] # None => good(up[k])
    BY <1>3, <1>4
  <1> HIDE DEF good, bad
  <1>6. \A o \in Lineage(g) : good(o)
    BY <1>5 DEF Lineage
  <1> QED
    BY <1>6 DEF good

(* A stored grant is the first of its own lineage.                         *)
LEMMA OwnLineage ==
  ASSUME NEW g \in Stored
  PROVE  g \in Lineage(g)
  <1>1. 0 \in 0..MaxOwners /\ g # None
    BY StoreAssumption DEF Stored
  <1>2. Walk(g)[0] = g
    BY <1>1, WalkIs DEF IsWalk
  <1> QED
    BY <1>1, <1>2 DEF Lineage

(* Whoever holds money holds it within the authority of all who pay.       *)
ChargesNoWider ==
    \A a \in Held : \A o \in owners[a] : NoWider(Auth(rateEvents[a].grant), Auth(o))

LEMMA ClosedSet ==
  ASSUME ChargedLineageClosed, NEW a \in Held
  PROVE  /\ owners[a] \subseteq Stored /\ rateEvents[a].grant \in owners[a]
         /\ \A o \in owners[a] : Auth(o).parent # None =>
                Auth(o).parent \in owners[a] /\ Narrows(Auth(o), Auth(Auth(o).parent))
  BY DEF ChargedLineageClosed

(* A charge lies within every grant of the chain that pays for it.         *)
LEMMA ChainNoWider ==
  ASSUME TypeOK, ChargedLineageClosed, NEW a \in Held, NEW d \in owners[a]
  PROVE  \A o \in Lineage(d) : o \in owners[a] /\ NoWider(Auth(d), Auth(o))
  <1>1. PICK S : S = owners[a]
    OBVIOUS
  <1>2. /\ S \subseteq Stored /\ d \in S
        /\ \A o \in S : Auth(o).parent # None =>
              Auth(o).parent \in S /\ Narrows(Auth(o), Auth(Auth(o).parent))
    BY <1>1, ClosedSet
  <1>3. \A o \in Lineage(d) : o \in S /\ NoWider(Auth(d), Auth(o))
    BY <1>2, LineageNoWider
  <1> QED
    BY <1>1, <1>3

LEMMA NoWiderStep ==
  ASSUME TypeOK, ChargesNoWider, ChargedLineageClosed, ChargedLineageClosed',
         [OpenStep]_storeVars
  PROVE  ChargesNoWider'
  <1> SUFFICES ASSUME NEW a \in Held', NEW o \in owners'[a]
               PROVE  NoWider(grants'[rateEvents'[a].grant].auth, grants'[o].auth)
    BY DEF ChargesNoWider, Auth
  <1>1. PICK leaf : leaf = rateEvents'[a].grant
    OBVIOUS
  <1>2. leaf \in Stored /\ o \in Stored /\ NoWider(Auth(leaf), Auth(o))
    <2>1. CASE a \in Held
      <3>1. leaf = rateEvents[a].grant /\ owners'[a] = owners[a]
        BY <1>1, <2>1, HeldKeeps
      <3> QED
        BY <2>1, <3>1, ClosedSet DEF ChargesNoWider
    <2>2. CASE a \notin Held
      <3>1. PICK g \in GrantIds : /\ LineageSound(g, {"ACTIVE"})
                                  /\ leaf = g /\ owners'[a] = Lineage(g)
        BY <1>1, <2>2, NewlyHeld
      <3>2. PICK S : S = Lineage(g)
        OBVIOUS
      <3>3. /\ S \subseteq Stored /\ g \in Stored
            /\ \A d \in S : Auth(d).parent # None =>
                  Auth(d).parent \in S /\ Narrows(Auth(d), Auth(Auth(d).parent))
        BY <3>1, <3>2, LineageFacts DEF LineageSound
      <3>4. g \in S
        BY <3>2, <3>3, OwnLineage
      <3>5. \A d \in Lineage(g) : d \in S /\ NoWider(Auth(g), Auth(d))
        BY <3>3, <3>4, LineageNoWider
      <3> QED
        BY <3>1, <3>2, <3>3, <3>5
    <2> QED
      BY <2>1, <2>2
  <1>3. /\ Auth(leaf) \in Authority /\ Auth(leaf)' \in Authority /\ Same(Auth(leaf), Auth(leaf)')
        /\ Auth(o) \in Authority /\ Auth(o)' \in Authority /\ Same(Auth(o), Auth(o)')
    BY <1>2, StoredKept
  <1>4. NoWider(Auth(leaf)', Auth(o)')
    BY <1>2, <1>3, SameNoWider
  <1>5. NoWider(grants'[leaf].auth, grants'[o].auth)
    BY <1>4 DEF Auth
  <1> QED
    BY <1>1, <1>5

LEMMA OpenChargesNoWider == OpenSpec => []ChargesNoWider
  <1>1. Init => ChargesNoWider
    BY DEF Init, ChargesNoWider, Held
  <1>2. /\ TypeOK /\ ChargedLineageClosed /\ ChargedLineageClosed'
        /\ ChargesNoWider /\ [OpenStep]_storeVars
        => ChargesNoWider'
    BY NoWiderStep
  <1> QED
    BY <1>1, <1>2, OpenTyped, OpenChargesClosed, PTL DEF OpenSpec

(* Whoever holds money does so within the authority of every grant that    *)
(* pays, at any distance: no currency, limit, expiry, scope, denial, rule, *)
(* rate or effect of the spender is wider than an ancestor's, although the *)
(* store compares each grant with its parent only (delegated_budget.py).   *)
THEOREM ChargesNeverWiden == Spec => []ChargesNoWider
  BY SpecIsOpen, OpenChargesNoWider, PTL

-----------------------------------------------------------------------------
(* The money of a whole subtree. *)

Descendants(g) == {d \in Stored : g \in Lineage(d)}

UnitsBelow(g) == UNION {ChargedUnits(d) : d \in Descendants(g)}

(* The grant and all that is delegated from it, at any depth, together     *)
(* take no more than its limit and what providers overcharged.             *)
SubtreeWithinLimit ==
    \A g \in Stored :
        /\ UnitsBelow(g) = ChargedUnits(g)
        /\ Cardinality(UnitsBelow(g)) <= Auth(g).limit + Cardinality(ExcessUnits(g))

LEMMA BelowIsCharged ==
  ASSUME TypeOK, ChargedLineageClosed, NEW g \in Stored
  PROVE  UnitsBelow(g) = ChargedUnits(g)
  <1>1. g \in Descendants(g)
    BY OwnLineage DEF Descendants
  <1>2. ASSUME NEW d \in Descendants(g)
        PROVE  ChargedTo(d) \subseteq ChargedTo(g)
    <2>1. \A a \in ChargedTo(d) : g \in owners[a]
      BY <1>2, ChainNoWider DEF ChargedTo, Descendants
    <2> QED
      BY <2>1 DEF ChargedTo
  <1>3. \A d \in Descendants(g) : ChargedUnits(d) \subseteq ChargedUnits(g)
    BY <1>2 DEF ChargedUnits, UnitsOf
  <1>4. UnitsBelow(g) \subseteq ChargedUnits(g)
    BY <1>3 DEF UnitsBelow
  <1>5. ChargedUnits(g) \subseteq UnitsBelow(g)
    BY <1>1 DEF UnitsBelow
  <1> QED
    BY <1>4, <1>5

LEMMA OpenSubtreeWithinLimit == OpenSpec => []SubtreeWithinLimit
  <1>1. TypeOK /\ ChargedLineageClosed /\ NoOverspend => SubtreeWithinLimit
    BY BelowIsCharged DEF SubtreeWithinLimit, NoOverspend
  <1>2. MoneyInv => NoOverspend
    BY MoneyConserves
  <1> QED
    BY <1>1, <1>2, OpenTyped, OpenChargesClosed, MoneySafe, PTL

(* Delegation creates no money (delegated_budget.py:3): what a grant and   *)
(* every grant attenuated from it, however deep and however many, hold and *)
(* have spent is charged to it, unit by unit, and stays within its limit.  *)
THEOREM SubtreeStaysWithinLimit == Spec => []SubtreeWithinLimit
  BY SpecIsOpen, OpenSubtreeWithinLimit, PTL

-----------------------------------------------------------------------------
(* Authority that has ended. *)

Lapsed(g) == grants[g].status \in {"REVOKED", "EXPIRED"} \/ Auth(g).expires <= now

(* Lapsed authority stays lapsed, and nothing is charged to it any more.   *)
NothingChargedToLapsed ==
    [][\A g \in Stored : Lapsed(g) =>
          Lapsed(g)' /\ ChargedTo(g)' \subseteq ChargedTo(g)]_storeVars

LEMMA ClockStep ==
  ASSUME TypeOK, OpenStep
  PROVE  now <= now'
  <1>1. now \in Nat
    BY DEF TypeOK
  <1>2. CASE Tick
    BY <1>1, <1>2 DEF Tick
  <1>3. CASE now' = now
    BY <1>1, <1>3
  <1> QED
    BY <1>2, <1>3 DEF OpenStep, Import, InsertGrant, AttachSignature, Revoke, Expire,
                      SetStatus, Reserve, Release, Commit

LEMMA LapsedStep ==
  ASSUME TypeOK, OpenStep, NEW g \in Stored, Lapsed(g)
  PROVE  Lapsed(g)' /\ ChargedTo(g)' \subseteq ChargedTo(g)
  <1>1. Lapsed(g)'
    <2>1. CASE grants[g].status \in {"REVOKED", "EXPIRED"}
      BY <2>1, GrantKept DEF Lapsed
    <2>2. CASE Auth(g).expires <= now
      <3>1. /\ Auth(g) \in Authority /\ Auth(g)' \in Authority
            /\ Auth(g)'.expires = Auth(g).expires
        BY StoredKept, SameFields
      <3>2. Auth(g).expires \in Nat /\ now \in Nat /\ now' \in Nat
        BY <3>1, StepTyped DEF Authority, TypeOK
      <3> QED
        BY <2>2, <3>1, <3>2, ClockStep DEF Lapsed
    <2> QED
      BY <2>1, <2>2 DEF Lapsed
  <1>2. ASSUME NEW a \in Held', g \in owners'[a]
        PROVE  a \in Held /\ g \in owners[a]
    <2>1. CASE a \in Held
      BY <1>2, <2>1, HeldKeeps
    <2>2. CASE a \notin Held
      <3>1. PICK leaf \in GrantIds : LineageSound(leaf, {"ACTIVE"}) /\ owners'[a] = Lineage(leaf)
        BY <2>2, NewlyHeld
      <3>2. grants[g].status = "ACTIVE" /\ Auth(g).expires > now
        BY <1>2, <3>1 DEF LineageSound
      <3>3. Auth(g).expires \in Nat /\ now \in Nat
        BY DEF TypeOK, Stored, Auth, GrantRow, Authority
      <3> QED
        BY <3>2, <3>3 DEF Lapsed
    <2> QED
      BY <2>1, <2>2
  <1> QED
    BY <1>1, <1>2 DEF ChargedTo

LEMMA OpenLapsed == OpenSpec => NothingChargedToLapsed
  <1> DEFINE A == \A g \in Stored : Lapsed(g) =>
                     Lapsed(g)' /\ ChargedTo(g)' \subseteq ChargedTo(g)
  <1>1. TypeOK /\ [OpenStep]_storeVars => [A]_storeVars
    BY LapsedStep
  <1>2. NothingChargedToLapsed <=> [][A]_storeVars
    BY DEF NothingChargedToLapsed
  <1> HIDE DEF A
  <1> QED
    BY <1>1, <1>2, OpenTyped, PTL DEF OpenSpec

(* Revocation and expiry are final for money: once a grant has lapsed, no  *)
(* reservation of its own or of any grant delegated from it is ever added  *)
(* to what it pays for; holds only end.                                    *)
THEOREM LapsedForGood == Spec => NothingChargedToLapsed
  BY SpecIsOpen, OpenLapsed, PTL

-----------------------------------------------------------------------------
(* The store is an escrow.  Grants are accounts, attempts hold money of    *)
(* the grants that pay for them, and the balances, debts and statuses the  *)
(* store keeps counting up and down are only how it knows what is left.    *)

HoldOf(a) ==
    IF a \notin Held THEN [phase |-> "free", payers |-> {}, amount |-> 0]
    ELSE [phase |-> IF rateEvents[a].committed THEN "paid" ELSE "held",
          payers |-> owners[a], amount |-> Cost[a]]

heldBar == [a \in ActionIds |-> HoldOf(a)]

Escrow ==
    INSTANCE BudgetEscrow WITH Accounts <- GrantIds, Attempts <- ActionIds, Sums <- Nat,
                               accounts <- Stored, deposits <- opening, holds <- heldBar

(* Both count the same units.                                              *)
LEMMA EscrowCharges ==
  ASSUME NEW g \in GrantIds
  PROVE  Escrow!Charged(g) = ChargedUnits(g)
  <1>1. \A b \in ActionIds : g \in heldBar[b].payers <=> b \in ChargedTo(g)
    BY DEF heldBar, HoldOf, ChargedTo, Held
  <1>2. \A b \in ChargedTo(g) : b \in ActionIds /\ heldBar[b].amount = Cost[b]
    BY DEF heldBar, HoldOf, ChargedTo, Held
  <1>3. ChargedTo(g) = {b \in ActionIds : g \in heldBar[b].payers}
    BY <1>1 DEF ChargedTo, Held
  <1> QED
    BY <1>2, <1>3 DEF Escrow!Charged, ChargedUnits, UnitsOf

LEMMA EscrowLeft ==
  ASSUME MoneyInv, NEW g \in Stored, overrun[g] = 0
  PROVE  Escrow!Left(g) = grants[g].remaining
  <1>1. g \in GrantIds /\ Books(g) /\ grants[g] \in GrantRow
    BY DEF MoneyInv, Stored, TypeOK
  <1>2. grants[g].remaining + Cardinality(ChargedUnits(g)) = opening[g]
        /\ Cardinality(ChargedUnits(g)) \in Nat /\ grants[g].remaining \in Nat
    BY <1>1, FS_CardinalityType DEF Books, GrantRow
  <1>3. Escrow!Left(g) = opening[g] - Cardinality(ChargedUnits(g))
    BY <1>1, EscrowCharges DEF Escrow!Left, Escrow!Cardinality, Cardinality
  <1> QED
    BY <1>2, <1>3

(* An attempt whose row and owners are not touched holds what it held.     *)
LEMMA HoldKept ==
  ASSUME NEW b \in ActionIds, rateEvents'[b] = rateEvents[b], owners'[b] = owners[b]
  PROVE  HoldOf(b)' = HoldOf(b)
  <1>1. b \in Held' <=> b \in Held
    BY DEF Held
  <1>2. b \in Held => Cost'[b] = Cost[b]
    BY <1>1 DEF Cost
  <1> QED
    BY <1>1, <1>2 DEF HoldOf

(* Only one attempt's hold changes when only its row and owners do.        *)
LEMMA HoldTurns ==
  ASSUME NEW a \in ActionIds, NEW hold, HoldOf(a)' = hold,
         \A b \in ActionIds \ {a} : rateEvents'[b] = rateEvents[b] /\ owners'[b] = owners[b]
  PROVE  heldBar' = [heldBar EXCEPT ![a] = hold]
  <1>1. \A b \in ActionIds \ {a} : HoldOf(b)' = HoldOf(b)
    BY HoldKept
  <1> QED
    BY <1>1 DEF heldBar

LEMMA EscrowHolds ==
  ASSUME MoneyInv, NEW g \in GrantIds, NEW a \in ActionIds, NEW amount \in Amounts,
         NEW effect \in EffectIds \cup {None}, NEW ts \in 0..now,
         Reserve(g, a, amount, effect, ts)
  PROVE  Escrow!Next
  <1>1. TypeOK /\ amount \in Nat
    BY StoreAssumption DEF MoneyInv, Reserve
  <1>2. PICK payers : payers = Lineage(g)
    OBVIOUS
  <1>3. payers # {} /\ payers \subseteq Stored
    BY <1>2, LineageFacts, OwnLineage DEF Reserve, LineageSound
  <1>4. \A o \in payers : Escrow!Left(o) >= amount
    BY <1>1, <1>2, <1>3, EscrowLeft DEF Reserve, MayCharge
  <1> DEFINE row == [grant |-> g, ts |-> ts, reserved |-> amount, committed |-> FALSE,
                     actual |-> 0]
             hold == [phase |-> "held", payers |-> payers, amount |-> amount]
  <1>5. a \notin Held /\ a \in Held' /\ Cost'[a] = amount /\ owners'[a] = payers
    BY <1>1, <1>2, ReserveCharges
  <1>6. rateEvents'[a] = row /\ ~rateEvents'[a].committed
    BY <1>1 DEF Reserve, TypeOK
  <1>7. HoldOf(a)' = hold
    BY <1>5, <1>6 DEF HoldOf
  <1>8. \A b \in ActionIds \ {a} : rateEvents'[b] = rateEvents[b] /\ owners'[b] = owners[b]
    BY <1>1 DEF Reserve, TypeOK
  <1>9. heldBar' = [heldBar EXCEPT ![a] = hold]
    BY <1>7, <1>8, HoldTurns
  <1>10. heldBar[a].phase = "free"
    BY <1>5 DEF heldBar, HoldOf
  <1>11. Stored' = Stored
    <2>1. Stored \subseteq Stored'
      BY <1>1, StoredKept DEF OpenStep
    <2>2. \A o \in GrantIds \ Stored : grants'[o] = grants[o]
      BY <1>2, <1>3 DEF Reserve
    <2> QED
      BY <2>1, <2>2 DEF Stored
  <1>12. opening' = opening
    BY DEF Reserve
  <1>13. Escrow!Hold(a, payers, amount)
    BY <1>3, <1>4, <1>9, <1>10, <1>11, <1>12 DEF Escrow!Hold, Escrow!Turn
  <1> QED
    BY <1>1, <1>3, <1>13 DEF Escrow!Next

(* Settling touches no grant but those that are stored.                    *)
LEMMA SettleStores ==
  ASSUME TypeOK, NEW g \in GrantIds, NEW a \in ActionIds, NEW adjustment \in Int,
         SettleOwners(g, a, adjustment)
  PROVE  Stored' = Stored
  <1>1. \A o \in GrantIds : o \in Stored <=> (o \in Stored)'
    BY SettleOwner
  <1> QED
    BY <1>1 DEF Stored

LEMMA EscrowGivesBack ==
  ASSUME MoneyInv, NEW g \in GrantIds, NEW a \in ActionIds, NEW claimed \in Amounts,
         Release(g, a, claimed)
  PROVE  Escrow!Next
  <1>1. TypeOK
    BY DEF MoneyInv
  <1>2. a \in Held /\ a \notin Held' /\ claimed \in Int
    BY <1>1, ReleaseCharges
  <1>3. HoldOf(a)' = [phase |-> "free", payers |-> {}, amount |-> 0]
    BY <1>2 DEF HoldOf
  <1>4. \A b \in ActionIds \ {a} : rateEvents'[b] = rateEvents[b] /\ owners'[b] = owners[b]
    BY <1>1 DEF Release, TypeOK
  <1>5. heldBar' = [heldBar EXCEPT ![a] = Escrow!NoHold]
    BY <1>3, <1>4, HoldTurns DEF Escrow!NoHold
  <1>6. heldBar[a].phase = "held"
    BY <1>2 DEF heldBar, HoldOf, Release
  <1>7. Stored' = Stored /\ opening' = opening
    BY <1>1, <1>2, SettleStores DEF Release
  <1>8. Escrow!GiveBack(a)
    BY <1>5, <1>6, <1>7 DEF Escrow!GiveBack, Escrow!Turn
  <1> QED
    BY <1>8 DEF Escrow!Next

LEMMA EscrowPays ==
  ASSUME MoneyInv, NEW g \in GrantIds, NEW a \in ActionIds, NEW cost \in Int,
         NEW claimed \in Amounts, Commit(g, a, cost, claimed)
  PROVE  Escrow!Next
  <1>1. TypeOK
    BY DEF MoneyInv
  <1>2. PICK paid \in Nat : paid = PosPart(cost)
    BY PosPartType
  <1>3. /\ a \in Held /\ a \in Held' /\ claimed - PosPart(cost) \in Int
        /\ Cost'[a] = paid /\ owners'[a] = owners[a]
    <2>1. a \in Held /\ Held' = Held /\ claimed \in Nat /\ Cost'[a] = PosPart(cost)
      BY <1>1, CommitCharges
    <2>2. owners' = owners
      BY DEF Commit
    <2> QED
      BY <1>2, <2>1, <2>2
  <1>4. rateEvents'[a].committed
    <2>1. rateEvents[a] \in RateEvent
      BY <1>1, <1>3 DEF TypeOK, Held
    <2>2. rateEvents'[a] = [rateEvents[a] EXCEPT !.committed = TRUE, !.actual = paid]
      BY <1>1, <1>2 DEF Commit, TypeOK
    <2> QED
      BY <2>1, <2>2 DEF RateEvent
  <1>5. HoldOf(a)' = [phase |-> "paid", payers |-> owners[a], amount |-> paid]
    BY <1>3, <1>4 DEF HoldOf
  <1>6. \A b \in ActionIds \ {a} : rateEvents'[b] = rateEvents[b] /\ owners'[b] = owners[b]
    BY <1>1 DEF Commit, TypeOK
  <1>7. heldBar' = [heldBar EXCEPT ![a] = [phase |-> "paid", payers |-> owners[a], amount |-> paid]]
    BY <1>5, <1>6, HoldTurns
  <1>8. heldBar[a].phase = "held" /\ heldBar[a].payers = owners[a]
    BY <1>3 DEF heldBar, HoldOf, Commit
  <1>9. Stored' = Stored /\ opening' = opening
    BY <1>1, <1>3, SettleStores DEF Commit
  <1>10. Escrow!Pay(a, paid)
    BY <1>7, <1>8, <1>9 DEF Escrow!Pay, Escrow!Turn
  <1> QED
    BY <1>10 DEF Escrow!Next

(* Whatever leaves reservations alone leaves holds alone.                  *)
LEMMA HoldsStay ==
  ASSUME UNCHANGED <<rateEvents, owners>>
  PROVE  heldBar' = heldBar
  BY HoldKept DEF heldBar

LEMMA EscrowOpens ==
  ASSUME MoneyInv, NEW g \in GrantIds, Import(g)
  PROVE  [Escrow!Next]_(Escrow!escrowVars)
  <1>1. PICK row \in GrantRow : InsertGrant(g, row) \/ AttachSignature(g, row)
    BY DEF Import
  <1>2. TypeOK /\ row \in GrantRow /\ row.remaining \in Nat /\ row # None
    BY StoreAssumption DEF MoneyInv, GrantRow
  <1>3. heldBar' = heldBar
    BY <1>1, HoldsStay DEF InsertGrant, AttachSignature
  <1>4. CASE InsertGrant(g, row)
    <2>1. g \notin Stored /\ Stored' = Stored \cup {g}
      BY <1>2, <1>4 DEF InsertGrant, Stored, TypeOK
    <2>2. opening' = [opening EXCEPT ![g] = row.remaining]
      BY <1>4 DEF InsertGrant
    <2>3. Escrow!Open(g, row.remaining)
      BY <1>3, <2>1, <2>2 DEF Escrow!Open
    <2> QED
      BY <1>2, <2>3 DEF Escrow!Next
  <1>5. CASE AttachSignature(g, row)
    <2>1. Stored \subseteq Stored'
      BY <1>1, <1>2, StoredKept DEF OpenStep, Import
    <2>2. \A o \in GrantIds \ Stored : grants'[o] = grants[o]
      BY <1>2, <1>5 DEF AttachSignature, TypeOK
    <2>3. Stored' = Stored /\ opening' = opening
      BY <1>5, <2>1, <2>2 DEF Stored, AttachSignature
    <2> QED
      BY <1>3, <2>3 DEF Escrow!escrowVars
  <1> QED
    BY <1>1, <1>4, <1>5

LEMMA EscrowRests ==
  ASSUME MoneyInv, NEW g \in GrantIds, Revoke(g) \/ Expire(g)
  PROVE  UNCHANGED Escrow!escrowVars
  <1>1. PICK status \in Statuses : SetStatus(g, status)
    BY DEF Revoke, Expire, Statuses
  <1>2. heldBar' = heldBar
    BY <1>1, HoldsStay DEF SetStatus
  <1>3. Stored \subseteq Stored'
    BY StoredKept DEF OpenStep, MoneyInv
  <1>4. \A o \in GrantIds \ Stored : grants'[o] = grants[o]
    BY <1>1 DEF SetStatus, MoneyInv, TypeOK
  <1>5. Stored' = Stored /\ opening' = opening
    BY <1>1, <1>3, <1>4 DEF Stored, SetStatus
  <1> QED
    BY <1>2, <1>5 DEF Escrow!escrowVars

LEMMA EscrowStep ==
  ASSUME MoneyInv, [OpenStep]_storeVars
  PROVE  [Escrow!Next]_(Escrow!escrowVars)
  <1>1. CASE UNCHANGED storeVars \/ Tick
    <2>1. UNCHANGED <<grants, rateEvents, owners, opening>>
      BY <1>1 DEF storeVars, Tick
    <2> QED
      BY <2>1, HoldsStay DEF Stored, Escrow!escrowVars
  <1>2. ASSUME NEW g \in GrantIds, Revoke(g) \/ Expire(g)
        PROVE  [Escrow!Next]_(Escrow!escrowVars)
    BY <1>2, EscrowRests
  <1>3. ASSUME NEW g \in GrantIds, NEW a \in ActionIds, NEW cost \in Amounts,
               NEW claimed \in Amounts, Commit(g, a, cost, claimed)
        PROVE  Escrow!Next
    <2>1. cost \in Int
      BY StoreAssumption
    <2> QED
      BY <1>3, <2>1, EscrowPays
  <1> QED
    BY <1>1, <1>2, <1>3, EscrowOpens, EscrowHolds, EscrowGivesBack DEF OpenStep

LEMMA OpenIsEscrow == OpenSpec => Escrow!Spec
  <1>1. Init => Escrow!Init
    <2> SUFFICES ASSUME Init PROVE Escrow!Init
      OBVIOUS
    <2>1. Stored = {} /\ Held = {}
      BY DEF Init, Stored, Held
    <2>2. heldBar = [a \in ActionIds |-> Escrow!NoHold]
      BY <2>1 DEF heldBar, HoldOf, Escrow!NoHold
    <2> QED
      BY <2>1, <2>2 DEF Init, Escrow!Init
  <1> QED
    BY <1>1, EscrowStep, MoneySafe, PTL DEF OpenSpec, Escrow!Spec

(* The store implements an escrow: whatever is delegated, revoked, expired *)
(* or overcharged, and however its callers interleave, each of its         *)
(* operations opens one account, charges one attempt to all who pay for it *)
(* or to none, ends one hold, or changes nothing an account holder can see *)
(* (delegated_budget.py, state.py).                                        *)
THEOREM StoreIsEscrow == Spec => Escrow!Spec
  BY SpecIsOpen, OpenIsEscrow, PTL

(* All that is proved of the store in one place, for the modules that use  *)
(* it.                                                                     *)
LEMMA StoreIsSafe ==
  Spec => /\ [](BudgetConservation /\ NoOverspend /\ RateCeiling)
          /\ [](ChargedLineageClosed /\ ChargesNoWider /\ SubtreeWithinLimit)
          /\ DeadStaysDead /\ SettledOnce /\ NothingChargedToLapsed
          /\ Escrow!Spec
  BY MoneyConserved, LimitRespected, RateLimited, ChargesClosed, ChargesNeverWiden,
     SubtreeStaysWithinLimit, DeadForever, SettlesOnce, LapsedForGood, StoreIsEscrow, PTL
=============================================================================
