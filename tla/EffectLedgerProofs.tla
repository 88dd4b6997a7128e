------------------------- MODULE EffectLedgerProofs -------------------------
(***************************************************************************)
(* Theorems about EffectLedger: it is an authority store, so every theorem *)
(* about the store's money holds of it, it keeps the abstract promise of   *)
(* ConsequenceOnce, and only approved effects come to be, for every set of *)
(* grants, attempts and effects.                                           *)
(***************************************************************************)
EXTENDS EffectLedger, AuthorityStoreProofs

-----------------------------------------------------------------------------
(* Type correctness. *)

LEMMA CostsType == Costs \ {None} \subseteq Amounts
  BY DEF Costs

LEMMA EffectRowType ==
  ASSUME EffectTypeOK, NEW a \in Attempts
  PROVE  /\ effectRows[a] \in EffectRow
         /\ effectRows[a].grant \in GrantIds
         /\ effectRows[a].reserved \in Amounts
         /\ effectRows[a].state \in EffectStates
  <1>1. effectRows[a] \in EffectRow
    BY DEF EffectTypeOK, Attempts
  <1> QED
    BY <1>1 DEF EffectRow, Charges

LEMMA RecordType ==
  ASSUME EffectTypeOK, NEW a \in ActionIds, NEW state \in EffectStates, Record(a, state)
  PROVE  effectEvents' \in [ActionIds -> Seq(EffectStates)]
  BY DEF EffectTypeOK, Record

(* What settling an effect does to the store.                              *)
LEMMA SettleEffectStore ==
  ASSUME EffectTypeOK, NEW a \in ActionIds, NEW outcome \in Outcomes, NEW cost \in Costs,
         NEW reconciliation \in BOOLEAN, NEW expected,
         SettleEffect(a, outcome, cost, reconciliation, expected)
  PROVE  /\ a \in Attempts
         /\ outcome = "COMMITTED" =>
               \E paid \in Amounts :
                  Commit(effectRows[a].grant, a, paid, effectRows[a].reserved)
         /\ outcome = "NOT_EXECUTED" =>
               Release(effectRows[a].grant, a, effectRows[a].reserved)
         /\ outcome = "AMBIGUOUS" => UNCHANGED storeVars
  <1> DEFINE row == effectRows[a]
             paid == IF cost = None THEN row.reserved ELSE cost
  <1>1. a \in Attempts
    BY DEF SettleEffect
  <1>2. paid \in Amounts
    BY <1>1, EffectRowType, CostsType
  <1>3. outcome = "COMMITTED" => Commit(row.grant, a, paid, row.reserved)
    BY DEF SettleEffect, SettleMoney
  <1>4. outcome = "NOT_EXECUTED" => Release(row.grant, a, row.reserved)
    BY DEF SettleEffect, SettleMoney
  <1>5. outcome = "AMBIGUOUS" => UNCHANGED storeVars
    BY DEF SettleEffect, SettleMoney
  <1> QED
    BY <1>1, <1>2, <1>3, <1>4, <1>5

(* Every step of the ledger is a step of the store, or leaves it alone.    *)
LEMMA StoreSimulated ==
  ASSUME EffectTypeOK, [EffectNext]_vars
  PROVE  [Next]_storeVars
  <1>1. CASE UNCHANGED vars
    BY <1>1 DEF vars
  <1>2. CASE StoreStep
    <2>1. ASSUME NEW g \in GrantIds, NEW a \in ActionIds, NEW amount \in Amounts,
                 NEW ts \in 0..now, Reserve(g, a, amount, None, ts)
          PROVE  Next
      BY <2>1 DEF Next
    <2> QED
      BY <1>2, <2>1 DEF StoreStep, Next
  <1>3. ASSUME NEW g \in GrantIds, NEW a \in ActionIds, NEW cost \in Amounts,
               NEW claimed \in Amounts, LegacyCommit(g, a, cost, claimed)
        PROVE  Next
    BY <1>3 DEF LegacyCommit, Next
  <1>4. ASSUME NEW g \in GrantIds, NEW a \in ActionIds, NEW claimed \in Amounts,
               LegacyRelease(g, a, claimed)
        PROVE  Next
    BY <1>4 DEF LegacyRelease, Next
  <1>5. ASSUME NEW g \in GrantIds, NEW a \in ActionIds, NEW effect \in EffectIds,
               NEW amount \in Amounts, ReserveEffect(g, a, effect, amount)
        PROVE  Next
    <2>1. now \in 0..now
      BY DEF EffectTypeOK, TypeOK
    <2> QED
      BY <1>5, <2>1 DEF ReserveEffect, Next
  <1>6. ASSUME NEW a \in ActionIds, ClaimEffect(a)
        PROVE  UNCHANGED storeVars
    BY <1>6 DEF ClaimEffect
  <1>7. ASSUME NEW a \in ActionIds, NEW outcome \in Outcomes, NEW cost \in Costs,
               NEW reconciliation \in BOOLEAN, NEW expected \in 1..MaxEvents \cup {None},
               SettleEffect(a, outcome, cost, reconciliation, expected)
        PROVE  [Next]_storeVars
    <2>1. a \in Attempts
      BY <1>7, SettleEffectStore
    <2>2. effectRows[a].grant \in GrantIds /\ effectRows[a].reserved \in Amounts
      BY <2>1, EffectRowType
    <2>3. CASE outcome = "COMMITTED"
      <3>1. PICK paid \in Amounts : Commit(effectRows[a].grant, a, paid, effectRows[a].reserved)
        BY <1>7, <2>3, SettleEffectStore
      <3> QED
        BY <2>2, <3>1 DEF Next
    <2>4. CASE outcome = "NOT_EXECUTED"
      <3>1. Release(effectRows[a].grant, a, effectRows[a].reserved)
        BY <1>7, <2>4, SettleEffectStore
      <3> QED
        BY <2>2, <3>1 DEF Next
    <2>5. CASE outcome = "AMBIGUOUS"
      BY <1>7, <2>5, SettleEffectStore
    <2> QED
      BY <2>3, <2>4, <2>5 DEF Outcomes
  <1> QED
    BY <1>1, <1>2, <1>3, <1>4, <1>5, <1>6, <1>7 DEF EffectNext

(* The steps that change the effect tables.                                *)
LEMMA EffectMoves ==
  ASSUME [EffectNext]_vars
  PROVE  \/ UNCHANGED effectVars
         \/ \E g \in GrantIds, a \in ActionIds, effect \in EffectIds, amount \in Amounts :
               ReserveEffect(g, a, effect, amount)
         \/ \E a \in ActionIds : ClaimEffect(a)
         \/ \E a \in ActionIds, outcome \in Outcomes, cost \in Costs,
               reconciliation \in BOOLEAN, expected \in 1..MaxEvents \cup {None} :
                  SettleEffect(a, outcome, cost, reconciliation, expected)
  <1>1. UNCHANGED vars => UNCHANGED effectVars
    BY DEF vars
  <1>2. StoreStep => UNCHANGED effectVars
    BY DEF StoreStep
  <1>3. \A g \in GrantIds, a \in ActionIds, cost, claimed \in Amounts :
           LegacyCommit(g, a, cost, claimed) => UNCHANGED effectVars
    BY DEF LegacyCommit
  <1>4. \A g \in GrantIds, a \in ActionIds, claimed \in Amounts :
           LegacyRelease(g, a, claimed) => UNCHANGED effectVars
    BY DEF LegacyRelease
  <1> QED
    BY <1>1, <1>2, <1>3, <1>4, Zenon DEF EffectNext

LEMMA EffectStepTyped ==
  ASSUME EffectTypeOK, [EffectNext]_vars
  PROVE  EffectTypeOK'
  <1>1. TypeOK'
    BY StoreSimulated, NextTyped DEF EffectTypeOK
  <1> DEFINE Goal == /\ effectRows' \in [ActionIds -> EffectRow \cup {None}]
                     /\ effectEvents' \in [ActionIds -> Seq(EffectStates)]
  <1>2. ASSUME UNCHANGED effectVars
        PROVE  Goal
    BY <1>2 DEF effectVars, EffectTypeOK
  <1>3. ASSUME NEW g \in GrantIds, NEW a \in ActionIds, NEW effect \in EffectIds,
               NEW amount \in Amounts, ReserveEffect(g, a, effect, amount)
        PROVE  Goal
    <2>1. amount \in Charges
      BY <1>3 DEF ReserveEffect, Reserve, Charges
    <2>2. [effect |-> effect, grant |-> g, reserved |-> amount, state |-> "RESERVED"]
             \in EffectRow
      BY <2>1 DEF EffectRow, EffectStates
    <2>3. effectRows' \in [ActionIds -> EffectRow \cup {None}]
      BY <1>3, <2>2 DEF ReserveEffect, EffectTypeOK
    <2> QED
      BY <1>3, <2>3, RecordType DEF ReserveEffect, EffectStates
  <1>4. ASSUME NEW a \in ActionIds, NEW state \in EffectStates, a \in Attempts,
               effectRows' = [effectRows EXCEPT ![a].state = state], Record(a, state)
        PROVE  Goal
    <2>1. [effectRows[a] EXCEPT !.state = state] \in EffectRow
      BY <1>4, EffectRowType DEF EffectRow
    <2>2. effectRows' \in [ActionIds -> EffectRow \cup {None}]
      BY <1>4, <2>1 DEF EffectTypeOK
    <2> QED
      BY <1>4, <2>2, RecordType
  <1>5. ASSUME NEW a \in ActionIds, ClaimEffect(a)
        PROVE  Goal
    BY <1>4, <1>5 DEF ClaimEffect, EffectStates
  <1>6. ASSUME NEW a \in ActionIds, NEW outcome \in Outcomes, NEW cost \in Costs,
               NEW reconciliation \in BOOLEAN, NEW expected \in 1..MaxEvents \cup {None},
               SettleEffect(a, outcome, cost, reconciliation, expected)
        PROVE  Goal
    BY <1>4, <1>6 DEF SettleEffect, EffectStates, Outcomes
  <1>7. Goal
    <2>1. \/ UNCHANGED effectVars
          \/ \E g \in GrantIds, a \in ActionIds, effect \in EffectIds, amount \in Amounts :
                ReserveEffect(g, a, effect, amount)
          \/ \E a \in ActionIds : ClaimEffect(a)
          \/ \E a \in ActionIds, outcome \in Outcomes, cost \in Costs,
                reconciliation \in BOOLEAN, expected \in 1..MaxEvents \cup {None} :
                   SettleEffect(a, outcome, cost, reconciliation, expected)
      BY EffectMoves
    <2> QED
      BY <1>2, <1>3, <1>5, <1>6, <2>1
  <1> QED
    BY <1>1, <1>7 DEF EffectTypeOK

(* Everything the ledger writes is a row its tables can hold.              *)
THEOREM EffectTypeCorrect == EffectSpec => []EffectTypeOK
  <1>1. EffectInit => EffectTypeOK
    BY DEF EffectInit, EffectTypeOK, Init, TypeOK
  <1> QED
    BY <1>1, EffectStepTyped, PTL DEF EffectSpec

(* The ledger implements the store: whatever is proved of the store's      *)
(* money, rates and statuses holds in the presence of effects.             *)
THEOREM LedgerIsStore == EffectSpec => ImplementsAuthorityStore
  <1>1. EffectInit => Init
    BY DEF EffectInit
  <1>2. EffectTypeOK /\ [EffectNext]_vars => [Next]_storeVars
    BY StoreSimulated
  <1> QED
    BY <1>1, <1>2, EffectTypeCorrect, PTL DEF EffectSpec, Spec, ImplementsAuthorityStore

(* In particular money is conserved and limits hold in the ledger, all     *)
(* that is charged stays in complete and narrowing chains, no lapsed grant *)
(* is charged more, and the ledger is an escrow.                           *)
COROLLARY LedgerMoney ==
  EffectSpec => /\ [](BudgetConservation /\ NoOverspend /\ RateCeiling)
                /\ [](ChargedLineageClosed /\ ChargesNoWider /\ SubtreeWithinLimit)
                /\ DeadStaysDead /\ SettledOnce /\ NothingChargedToLapsed
                /\ Escrow!Spec
  BY LedgerIsStore, StoreIsSafe, PTL DEF ImplementsAuthorityStore

-----------------------------------------------------------------------------
(* At most one owner. *)

(* A row is born owning an effect nobody owns, and from then on only its   *)
(* state moves, and only while it is live and not committed.               *)
Born(a, effect) ==
    /\ a \notin Attempts
    /\ ~Owned(effect)
    /\ effectRows'[a] \in EffectRow
    /\ effectRows'[a].effect = effect
    /\ effectRows'[a].state = "RESERVED"

Moved(a, from, to) ==
    /\ Live(a)
    /\ effectRows[a].state = from
    /\ effectRows'[a] = [effectRows[a] EXCEPT !.state = to]

Moves == {<<"RESERVED", "DISPATCHING">>, <<"RESERVED", "NOT_EXECUTED">>,
          <<"DISPATCHING", "COMMITTED">>, <<"DISPATCHING", "NOT_EXECUTED">>,
          <<"DISPATCHING", "AMBIGUOUS">>, <<"AMBIGUOUS", "AMBIGUOUS">>,
          <<"AMBIGUOUS", "COMMITTED">>, <<"AMBIGUOUS", "NOT_EXECUTED">>}

OneRowMoves ==
    \/ UNCHANGED effectRows
    \/ \E a \in ActionIds :
          /\ \A b \in ActionIds \ {a} : effectRows'[b] = effectRows[b]
          /\ \/ \E effect \in EffectIds : Born(a, effect)
             \/ \E move \in Moves : Moved(a, move[1], move[2])

LEMMA RowStep ==
  ASSUME EffectTypeOK, [EffectNext]_vars
  PROVE  OneRowMoves
  <1>1. CASE UNCHANGED effectVars
    BY <1>1 DEF effectVars, OneRowMoves
  <1>2. ASSUME NEW g \in GrantIds, NEW a \in ActionIds, NEW effect \in EffectIds,
               NEW amount \in Amounts, ReserveEffect(g, a, effect, amount)
        PROVE  OneRowMoves
    <2>1. amount \in Charges
      BY <1>2 DEF ReserveEffect, Reserve, Charges
    <2>2. /\ effectRows'[a] = [effect |-> effect, grant |-> g, reserved |-> amount,
                               state |-> "RESERVED"]
          /\ \A b \in ActionIds \ {a} : effectRows'[b] = effectRows[b]
      BY <1>2 DEF ReserveEffect, EffectTypeOK
    <2>3. Born(a, effect)
      BY <1>2, <2>1, <2>2 DEF Born, ReserveEffect, EffectRow, EffectStates
    <2> QED
      BY <2>2, <2>3 DEF OneRowMoves
  <1>3. ASSUME NEW a \in ActionIds, NEW from, NEW to, <<from, to>> \in Moves, a \in Attempts,
               effectRows[a].state = from,
               effectRows' = [effectRows EXCEPT ![a].state = to]
        PROVE  OneRowMoves
    <2>1. Live(a)
      BY <1>3 DEF Live, Moves
    <2>2. Moved(a, from, to) /\ \A b \in ActionIds \ {a} : effectRows'[b] = effectRows[b]
      BY <1>3, <2>1 DEF Moved, EffectTypeOK
    <2>3. \E move \in Moves : Moved(a, move[1], move[2])
      BY <1>3, <2>2
    <2> QED
      BY <2>2, <2>3 DEF OneRowMoves
  <1>4. ASSUME NEW a \in ActionIds, ClaimEffect(a)
        PROVE  OneRowMoves
    <2>1. <<"RESERVED", "DISPATCHING">> \in Moves
      BY DEF Moves
    <2>2. /\ a \in Attempts /\ effectRows[a].state = "RESERVED"
          /\ effectRows' = [effectRows EXCEPT ![a].state = "DISPATCHING"]
      BY <1>4 DEF ClaimEffect
    <2> QED
      BY <1>3, <2>1, <2>2
  <1>5. ASSUME NEW a \in ActionIds, NEW outcome \in Outcomes, NEW cost \in Costs,
               NEW reconciliation \in BOOLEAN, NEW expected \in 1..MaxEvents \cup {None},
               SettleEffect(a, outcome, cost, reconciliation, expected)
        PROVE  OneRowMoves
    <2>1. <<effectRows[a].state, outcome>> \in Moves
      BY <1>5 DEF SettleEffect, MayReport, Outcomes, Moves
    <2>2. a \in Attempts /\ effectRows' = [effectRows EXCEPT ![a].state = outcome]
      BY <1>5 DEF SettleEffect
    <2> QED
      BY <1>3, <2>1, <2>2
  <1> QED
    BY <1>1, <1>2, <1>4, <1>5, EffectMoves, Zenon

LEMMA OwnerStep ==
  ASSUME EffectTypeOK, OneLiveOwner, OneRowMoves
  PROVE  OneLiveOwner'
  <1>1. CASE UNCHANGED effectRows
    BY <1>1 DEF OneLiveOwner, Live, Attempts
  <1>2. ASSUME NEW a \in ActionIds, NEW effect \in EffectIds, Born(a, effect),
               \A b \in ActionIds \ {a} : effectRows'[b] = effectRows[b]
        PROVE  OneLiveOwner'
    BY <1>2 DEF OneLiveOwner, Live, Attempts, Born, Owned
  <1>3. ASSUME NEW a \in ActionIds, NEW move \in Moves, Moved(a, move[1], move[2]),
               \A b \in ActionIds \ {a} : effectRows'[b] = effectRows[b]
        PROVE  OneLiveOwner'
    <2>1. effectRows'[a].effect = effectRows[a].effect
      BY <1>3, EffectRowType DEF Moved, Live, EffectRow
    <2>2. \A b \in ActionIds : Live(b)' => Live(b) /\ effectRows'[b].effect = effectRows[b].effect
      BY <1>3, <2>1 DEF Moved, Live, Attempts
    <2> QED
      BY <2>2 DEF OneLiveOwner
  <1> QED
    BY <1>1, <1>2, <1>3 DEF OneRowMoves

LEMMA OwnerInv == EffectSpec => [](EffectTypeOK /\ OneLiveOwner)
  <1>1. EffectInit => OneLiveOwner
    BY DEF EffectInit, OneLiveOwner, Live, Attempts
  <1>2. EffectTypeOK /\ OneLiveOwner /\ [EffectNext]_vars => OneLiveOwner'
    BY RowStep, OwnerStep
  <1> QED
    BY <1>1, <1>2, EffectTypeCorrect, PTL DEF EffectSpec

(* However many grants, attempts and retries race for an effect, at most   *)
(* one of them is live.                                                    *)
THEOREM SingleOwner == EffectSpec => []OneLiveOwner
  BY OwnerInv, PTL

-----------------------------------------------------------------------------
(* Effects and their money. *)

LEMMA BackedStep ==
  ASSUME EffectTypeOK, EffectHoldsBudget, [EffectNext]_vars
  PROVE  EffectHoldsBudget'
  <1> DEFINE Backed(b) ==
                /\ b \in Held
                /\ rateEvents[b].grant = effectRows[b].grant
                /\ rateEvents[b].reserved = effectRows[b].reserved
                /\ rateEvents[b].committed <=> effectRows[b].state = "COMMITTED"
  <1>1. TypeOK
    BY DEF EffectTypeOK
  <1>2. SUFFICES ASSUME NEW b \in ActionIds, Live(b)' PROVE Backed(b)'
    BY DEF EffectHoldsBudget
  <1>3. ASSUME UNCHANGED <<rateEvents[b], effectRows[b]>>
        PROVE  Backed(b)'
    BY <1>2, <1>3 DEF EffectHoldsBudget, Live, Attempts, Held
  <1>4. CASE UNCHANGED <<rateEvents, effectRows>>
    BY <1>3, <1>4
  <1>5. ASSUME NEW g \in GrantIds, NEW a \in ActionIds, NEW amount \in Amounts,
               NEW ts \in 0..now, Reserve(g, a, amount, None, ts), UNCHANGED effectVars
        PROVE  Backed(b)'
    <2>1. a # b
      BY <1>2, <1>5 DEF EffectHoldsBudget, Live, Attempts, Reserve, effectVars
    <2> QED
      BY <1>1, <1>3, <1>5, <2>1 DEF Reserve, TypeOK, effectVars
  <1>6. ASSUME NEW g \in GrantIds, NEW a \in ActionIds, NEW cost \in Amounts,
               NEW claimed \in Amounts, LegacyCommit(g, a, cost, claimed)
        PROVE  Backed(b)'
    <2>1. a # b
      BY <1>2, <1>6 DEF LegacyCommit, RequireLegacyReservation, Live, Attempts, effectVars
    <2> QED
      BY <1>1, <1>3, <1>6, <2>1 DEF LegacyCommit, Commit, TypeOK, effectVars
  <1>7. ASSUME NEW g \in GrantIds, NEW a \in ActionIds, NEW claimed \in Amounts,
               LegacyRelease(g, a, claimed)
        PROVE  Backed(b)'
    <2>1. a # b
      BY <1>2, <1>7 DEF LegacyRelease, RequireLegacyReservation, Live, Attempts, effectVars
    <2> QED
      BY <1>1, <1>3, <1>7, <2>1 DEF LegacyRelease, Release, TypeOK, effectVars
  <1>8. ASSUME NEW g \in GrantIds, NEW a \in ActionIds, NEW effect \in EffectIds,
               NEW amount \in Amounts, ReserveEffect(g, a, effect, amount)
        PROVE  Backed(b)'
    <2>1. CASE a # b
      BY <1>1, <1>3, <1>8, <2>1 DEF ReserveEffect, Reserve, TypeOK, EffectTypeOK
    <2>2. CASE a = b
      <3>1. effectRows'[b] = [effect |-> effect, grant |-> g, reserved |-> amount,
                              state |-> "RESERVED"]
        BY <1>8, <2>2 DEF ReserveEffect, EffectTypeOK
      <3>2. /\ rateEvents'[b].grant = g /\ rateEvents'[b].reserved = amount
            /\ rateEvents'[b].committed = FALSE
        BY <1>1, <1>8, <2>2 DEF ReserveEffect, Reserve, TypeOK
      <3>3. b \in Held'
        <4>1. now \in 0..now
          BY <1>1 DEF TypeOK
        <4> QED
          BY <1>1, <1>8, <2>2, <4>1, ReserveCharges DEF ReserveEffect
      <3> QED
        BY <3>1, <3>2, <3>3
    <2> QED
      BY <2>1, <2>2
  <1>9. ASSUME NEW a \in ActionIds, ClaimEffect(a)
        PROVE  Backed(b)'
    <2>1. CASE a # b
      BY <1>3, <1>9, <2>1 DEF ClaimEffect, storeVars, EffectTypeOK
    <2>2. CASE a = b
      <3>1. effectRows[b] \in EffectRow /\ Live(b) /\ effectRows[b].state = "RESERVED"
        BY <1>9, <2>2, EffectRowType DEF ClaimEffect, Live
      <3>2. effectRows'[b] = [effectRows[b] EXCEPT !.state = "DISPATCHING"]
            /\ rateEvents' = rateEvents
        BY <1>9, <2>2 DEF ClaimEffect, storeVars, EffectTypeOK
      <3>3. /\ effectRows'[b].grant = effectRows[b].grant
            /\ effectRows'[b].reserved = effectRows[b].reserved
            /\ effectRows'[b].state = "DISPATCHING"
        BY <3>1, <3>2 DEF EffectRow
      <3> QED
        BY <3>1, <3>2, <3>3 DEF EffectHoldsBudget, Held
    <2> QED
      BY <2>1, <2>2
  <1>10. ASSUME NEW a \in ActionIds, NEW outcome \in Outcomes, NEW cost \in Costs,
                NEW reconciliation \in BOOLEAN, NEW expected \in 1..MaxEvents \cup {None},
                SettleEffect(a, outcome, cost, reconciliation, expected)
         PROVE  Backed(b)'
    <2>1. a \in Attempts /\ effectRows[a] \in EffectRow /\ effectRows[a].grant \in GrantIds
          /\ effectRows[a].reserved \in Amounts
      BY <1>10, SettleEffectStore, EffectRowType
    <2>2. effectRows' = [effectRows EXCEPT ![a].state = outcome]
          /\ effectRows[a].state \in {"RESERVED", "DISPATCHING", "AMBIGUOUS"}
      BY <1>10 DEF SettleEffect, MayReport
    <2>3. CASE a # b
      <3>1. effectRows'[b] = effectRows[b]
        BY <2>2, <2>3 DEF EffectTypeOK
      <3>2. rateEvents'[b] = rateEvents[b]
        <4>1. CASE outcome = "COMMITTED"
          <5>1. PICK paid \in Amounts : Commit(effectRows[a].grant, a, paid, effectRows[a].reserved)
            BY <1>10, <4>1, SettleEffectStore
          <5> QED
            BY <1>1, <2>3, <5>1 DEF Commit, TypeOK
        <4>2. CASE outcome = "NOT_EXECUTED"
          <5>1. Release(effectRows[a].grant, a, effectRows[a].reserved)
            BY <1>10, <4>2, SettleEffectStore
          <5> QED
            BY <1>1, <2>3, <5>1 DEF Release, TypeOK
        <4>3. CASE outcome = "AMBIGUOUS"
          BY <1>10, <4>3, SettleEffectStore DEF storeVars
        <4> QED
          BY <4>1, <4>2, <4>3 DEF Outcomes
      <3> QED
        BY <1>3, <3>1, <3>2
    <2>4. CASE a = b
      <3>1. /\ effectRows'[b].grant = effectRows[b].grant
            /\ effectRows'[b].reserved = effectRows[b].reserved
            /\ effectRows'[b].state = outcome
        BY <2>1, <2>2, <2>4 DEF EffectRow, EffectTypeOK
      <3>2. Live(b) /\ Backed(b) /\ ~rateEvents[b].committed /\ rateEvents[b] \in RateEvent
        BY <1>1, <2>1, <2>2, <2>4 DEF Live, EffectHoldsBudget, TypeOK, Held
      <3>3. CASE outcome = "COMMITTED"
        <4>1. PICK paid \in Amounts : Commit(effectRows[b].grant, b, paid, effectRows[b].reserved)
          BY <1>10, <2>4, <3>3, SettleEffectStore
        <4>2. paid \in Int
          BY StoreAssumption
        <4>3. b \in Held'
          BY <1>1, <2>1, <2>4, <4>1, <4>2, CommitCharges
        <4>4. /\ rateEvents'[b].grant = rateEvents[b].grant
              /\ rateEvents'[b].reserved = rateEvents[b].reserved
              /\ rateEvents'[b].committed = TRUE
          BY <1>1, <3>2, <4>1 DEF Commit, TypeOK, RateEvent
        <4> QED
          BY <3>1, <3>2, <3>3, <4>3, <4>4
      <3>4. CASE outcome = "AMBIGUOUS"
        <4>1. rateEvents' = rateEvents
          BY <1>10, <3>4, SettleEffectStore DEF storeVars
        <4> QED
          BY <3>1, <3>2, <3>4, <4>1 DEF Held
      <3>5. outcome # "NOT_EXECUTED"
        BY <1>2, <3>1 DEF Live
      <3> QED
        BY <3>3, <3>4, <3>5 DEF Outcomes
    <2> QED
      BY <2>3, <2>4
  <1>11. CASE UNCHANGED vars
    BY <1>4, <1>11 DEF vars, storeVars, effectVars
  <1>12. CASE StoreStep
    BY <1>4, <1>5, <1>12
    DEF StoreStep, Tick, PutGrant, InsertGrant, AttachSignature, Revoke, Expire, SetStatus,
        effectVars
  <1> QED
    BY <1>6, <1>7, <1>8, <1>9, <1>10, <1>11, <1>12 DEF EffectNext

(* An effect that is not settled as not executed always has its money: no  *)
(* interleaving of legacy settlements and effect settlements frees it.     *)
THEOREM EffectsBacked == EffectSpec => []EffectHoldsBudget
  <1>1. EffectInit => EffectHoldsBudget
    BY DEF EffectInit, EffectHoldsBudget, Live, Attempts
  <1>2. EffectTypeOK /\ EffectHoldsBudget /\ [EffectNext]_vars => EffectHoldsBudget'
    BY BackedStep
  <1> QED
    BY <1>1, <1>2, EffectTypeCorrect, PTL DEF EffectSpec

-----------------------------------------------------------------------------
(* Effects and the authority that pays for them. *)

(* Every payer of an effect approves of it, under a signature if the       *)
(* approval is a list of effects.                                          *)
Approves(o, effect) ==
    PermitsEffect(o, effect) /\ (Auth(o).approved # None => Auth(o).signed = TRUE)

EffectsApproved ==
    \A a \in ActionIds : Live(a) => \A o \in owners[a] : Approves(o, effectRows[a].effect)

(* What a stored grant approves, it approves for ever.                     *)
LEMMA ApprovalStays ==
  ASSUME TypeOK, [OpenStep]_storeVars, NEW o \in Stored, NEW effect, Approves(o, effect)
  PROVE  Approves(o, effect)'
  <1>1. /\ Auth(o) \in Authority /\ Auth(o)' \in Authority
        /\ Auth(o).approved = Auth(o)'.approved
    BY StoredKept, SameFields
  <1>2. Auth(o).signed = TRUE => Auth(o)'.signed = TRUE
    <2>1. CASE OpenStep
      <3>1. PICK before, after : before = Auth(o) /\ after = Auth(o)'
        OBVIOUS
      <3>2. after \in {before, [before EXCEPT !.signed = TRUE]} /\ before \in Authority
        BY <1>1, <2>1, <3>1, GrantKept
      <3> QED
        BY <3>1, <3>2 DEF Authority
    <2>2. CASE UNCHANGED storeVars
      BY <2>2 DEF storeVars, Auth
    <2> QED
      BY <2>1, <2>2
  <1> QED
    BY <1>1, <1>2 DEF Approves, PermitsEffect

(* A live attempt was live before, at the same effect, or has just         *)
(* reserved it.                                                            *)
LEMMA LiveBefore ==
  ASSUME EffectTypeOK, [EffectNext]_vars, NEW b \in ActionIds, Live(b)'
  PROVE  \/ Live(b) /\ effectRows'[b].effect = effectRows[b].effect
         \/ \E g \in GrantIds, effect \in EffectIds, amount \in Amounts :
               ReserveEffect(g, b, effect, amount)
  <1> DEFINE Stayed == Live(b) /\ effectRows'[b].effect = effectRows[b].effect
  <1>1. ASSUME effectRows'[b] = effectRows[b]
        PROVE  Stayed
    BY <1>1 DEF Live, Attempts
  <1>2. ASSUME NEW g \in GrantIds, NEW a \in ActionIds, NEW effect \in EffectIds,
               NEW amount \in Amounts, ReserveEffect(g, a, effect, amount), a # b
        PROVE  Stayed
    BY <1>1, <1>2 DEF ReserveEffect, EffectTypeOK
  <1>3. ASSUME NEW a \in ActionIds, NEW state, a \in Attempts,
               effectRows[a].state # "NOT_EXECUTED",
               effectRows' = [effectRows EXCEPT ![a].state = state]
        PROVE  Stayed
    <2>1. CASE a # b
      BY <1>1, <1>3, <2>1 DEF EffectTypeOK
    <2>2. CASE a = b
      BY <1>3, <2>2, EffectRowType DEF Live, EffectRow, EffectTypeOK
    <2> QED
      BY <2>1, <2>2
  <1>4. ASSUME NEW a \in ActionIds, ClaimEffect(a)
        PROVE  Stayed
    <2>1. /\ a \in Attempts /\ effectRows[a].state # "NOT_EXECUTED"
          /\ effectRows' = [effectRows EXCEPT ![a].state = "DISPATCHING"]
      BY <1>4 DEF ClaimEffect
    <2> QED
      BY <1>3, <2>1
  <1>5. ASSUME NEW a \in ActionIds, NEW outcome \in Outcomes, NEW cost \in Costs,
               NEW reconciliation \in BOOLEAN, NEW expected \in 1..MaxEvents \cup {None},
               SettleEffect(a, outcome, cost, reconciliation, expected)
        PROVE  Stayed
    <2>1. /\ a \in Attempts /\ effectRows[a].state # "NOT_EXECUTED"
          /\ effectRows' = [effectRows EXCEPT ![a].state = outcome]
      BY <1>5 DEF SettleEffect, MayReport
    <2> QED
      BY <1>3, <2>1
  <1>6. UNCHANGED effectVars => Stayed
    BY <1>1 DEF effectVars
  <1> QED
    BY <1>2, <1>4, <1>5, <1>6, EffectMoves, Zenon

LEMMA ApprovedStep ==
  ASSUME EffectTypeOK, ChargesStored, EffectHoldsBudget, EffectsApproved, [EffectNext]_vars
  PROVE  EffectsApproved'
  <1>1. SUFFICES ASSUME NEW b \in ActionIds, Live(b)', NEW o \in owners'[b]
                 PROVE  Approves(o, effectRows[b].effect)'
    BY DEF EffectsApproved
  <1>2. TypeOK /\ [OpenStep]_storeVars
    BY StoreSimulated, NextIsOpenStep DEF EffectTypeOK
  <1>3. CASE Live(b) /\ effectRows'[b].effect = effectRows[b].effect
    <2>1. b \in Held /\ b \in Held'
      BY <1>1, <1>3, BackedStep DEF EffectHoldsBudget
    <2>2. owners'[b] = owners[b]
      BY <1>2, <2>1, HeldKeeps
    <2>3. o \in Stored /\ Approves(o, effectRows[b].effect)
      BY <1>1, <1>3, <2>1, <2>2 DEF ChargesStored, EffectsApproved
    <2>4. PICK effect : effect = effectRows[b].effect
      OBVIOUS
    <2>5. Approves(o, effect)'
      BY <1>2, <2>3, <2>4, ApprovalStays
    <2> QED
      BY <1>3, <2>4, <2>5 DEF Approves, PermitsEffect
  <1>4. ASSUME NEW g \in GrantIds, NEW effect \in EffectIds, NEW amount \in Amounts,
               ReserveEffect(g, b, effect, amount)
        PROVE  Approves(o, effectRows[b].effect)'
    <2>1. effectRows'[b].effect = effect
      BY <1>4 DEF ReserveEffect, EffectTypeOK
    <2>2. owners'[b] = Lineage(g)
      BY <1>2, <1>4 DEF ReserveEffect, Reserve, TypeOK
    <2>3. o \in Stored /\ MayCharge(o, amount, effect, now)
      BY <1>1, <1>4, <2>2 DEF ReserveEffect, Reserve, LineageSound
    <2>4. Auth(o).approved # None => Auth(o).signed = TRUE
      <3>1. Auth(o) \in Authority
        BY <1>2, <2>3, StoredKept
      <3> QED
        BY <2>3, <3>1 DEF MayCharge, Authority
    <2>5. Approves(o, effect)'
      BY <1>2, <2>3, <2>4, ApprovalStays DEF Approves, MayCharge
    <2> QED
      BY <2>1, <2>5 DEF Approves, PermitsEffect
  <1> QED
    BY <1>1, <1>3, <1>4, LiveBefore

(* An effect that is reserved, in flight, unresolved or done was approved  *)
(* by every grant that pays for it, and still is, whatever was imported,   *)
(* signed, revoked or delegated since (effects.py, state.py).              *)
THEOREM EffectsArePermitted == EffectSpec => []EffectsApproved
  <1>1. EffectInit => EffectsApproved
    BY DEF EffectInit, EffectsApproved, Live, Attempts
  <1>2. MoneyInv => ChargesStored
    BY DEF MoneyInv
  <1>3. EffectTypeOK /\ ChargesStored /\ EffectHoldsBudget /\ EffectsApproved /\ [EffectNext]_vars
           => EffectsApproved'
    BY ApprovedStep
  <1>4. EffectSpec => []MoneyInv
    BY LedgerIsStore, SpecIsOpen, MoneySafe, PTL DEF ImplementsAuthorityStore
  <1> QED
    BY <1>1, <1>2, <1>3, <1>4, EffectTypeCorrect, EffectsBacked, PTL DEF EffectSpec

-----------------------------------------------------------------------------
(* The refinement of ConsequenceOnce. *)

(* The live owner of an effect decides its phase.                           *)
LEMMA PhaseOfOwner ==
  ASSUME OneLiveOwner, NEW a \in ActionIds, NEW e \in EffectIds,
         Live(a), effectRows[a].effect = e
  PROVE  phaseBar[e] = PhaseOf(effectRows[a].state)
  <1>1. Owned(e)
    BY DEF Owned
  <1>2. Owner(e) \in ActionIds /\ Live(Owner(e)) /\ effectRows[Owner(e)].effect = e
    BY DEF Owner
  <1>3. Owner(e) = a
    BY <1>2 DEF OneLiveOwner
  <1> QED
    BY <1>1, <1>3 DEF phaseBar

(* The same of the next state.                                             *)
LEMMA PhaseOfNextOwner ==
  ASSUME OneLiveOwner', NEW a \in ActionIds, NEW e \in EffectIds,
         Live(a)', effectRows'[a].effect = e
  PROVE  phaseBar'[e] = PhaseOf(effectRows'[a].state)
  <1>1. Owned(e)'
    BY DEF Owned
  <1>2. Owner(e)' \in ActionIds /\ Live(Owner(e))' /\ effectRows'[Owner(e)'].effect = e
    BY DEF Owner
  <1>3. Owner(e)' = a
    BY <1>2 DEF OneLiveOwner
  <1> QED
    BY <1>1, <1>3 DEF phaseBar, PhaseOf

(* A step that touches the row of one attempt moves only its effect.       *)
LEMMA PhaseElsewhere ==
  ASSUME OneLiveOwner, OneLiveOwner', NEW a \in ActionIds,
         \A b \in ActionIds \ {a} : effectRows'[b] = effectRows[b],
         NEW e \in EffectIds,
         Live(a) => effectRows[a].effect # e,
         Live(a)' => effectRows'[a].effect # e
  PROVE  phaseBar'[e] = phaseBar[e]
  <1>1. CASE Owned(e)
    <2>1. PICK b \in ActionIds : Live(b) /\ effectRows[b].effect = e
      BY <1>1 DEF Owned
    <2>2. b # a /\ effectRows'[b] = effectRows[b]
      BY <2>1
    <2>3. Live(b)' /\ effectRows'[b].effect = e
      BY <2>1, <2>2 DEF Live, Attempts
    <2>4. phaseBar[e] = PhaseOf(effectRows[b].state)
      BY <2>1, PhaseOfOwner
    <2>5. phaseBar'[e] = PhaseOf(effectRows'[b].state)
      BY <2>3, PhaseOfNextOwner
    <2> QED
      BY <2>2, <2>4, <2>5
  <1>2. CASE ~Owned(e)
    <2>1. ~Owned(e)'
      BY <1>2 DEF Owned, Live, Attempts
    <2> QED
      BY <1>2, <2>1 DEF phaseBar
  <1> QED
    BY <1>1, <1>2

(* A step that touches the row of one attempt is a move of its effect.     *)
LEMMA PhaseMove ==
  ASSUME OneLiveOwner, OneLiveOwner', NEW a \in ActionIds,
         \A b \in ActionIds \ {a} : effectRows'[b] = effectRows[b],
         NEW e \in EffectIds,
         Live(a) => effectRows[a].effect = e,
         Live(a)' => effectRows'[a].effect = e,
         Live(a) \/ ~Owned(e)
  PROVE  /\ phaseBar[e] = IF Live(a) THEN PhaseOf(effectRows[a].state) ELSE "free"
         /\ phaseBar' = [phaseBar EXCEPT ![e] =
               IF Live(a)' THEN PhaseOf(effectRows'[a].state) ELSE "free"]
  <1>1. phaseBar[e] = IF Live(a) THEN PhaseOf(effectRows[a].state) ELSE "free"
    <2>1. CASE Live(a)
      BY <2>1, PhaseOfOwner
    <2>2. CASE ~Live(a)
      BY <2>2 DEF phaseBar
    <2> QED
      BY <2>1, <2>2
  <1>2. phaseBar'[e] = IF Live(a)' THEN PhaseOf(effectRows'[a].state) ELSE "free"
    <2>1. CASE Live(a)'
      BY <2>1, PhaseOfNextOwner
    <2>2. CASE ~Live(a)'
      <3>1. \A b \in ActionIds : Live(b)' /\ effectRows'[b].effect = e =>
               b # a /\ Live(b) /\ effectRows[b].effect = e
        BY <2>2 DEF Live, Attempts
      <3>2. ~Owned(e)'
        BY <2>2, <3>1 DEF Owned, OneLiveOwner
      <3> QED
        BY <2>2, <3>2 DEF phaseBar
    <2> QED
      BY <2>1, <2>2
  <1>3. \A d \in EffectIds \ {e} : phaseBar'[d] = phaseBar[d]
    BY PhaseElsewhere
  <1>4. DOMAIN phaseBar = EffectIds /\ DOMAIN phaseBar' = EffectIds
    BY DEF phaseBar
  <1>5. phaseBar = [d \in EffectIds |-> phaseBar[d]]
        /\ phaseBar' = [d \in EffectIds |-> phaseBar'[d]]
    BY DEF phaseBar
  <1> QED
    BY <1>1, <1>2, <1>3, <1>4, <1>5

LEMMA OnceStep ==
  ASSUME EffectTypeOK, OneLiveOwner, OneRowMoves
  PROVE  Once!Next \/ UNCHANGED phaseBar
  <1>1. OneLiveOwner'
    BY OwnerStep
  <1>2. CASE UNCHANGED effectRows
    BY <1>2 DEF phaseBar, Owner, Owned, Live, Attempts, PhaseOf
  <1>3. ASSUME NEW a \in ActionIds, NEW e \in EffectIds, Born(a, e),
               \A b \in ActionIds \ {a} : effectRows'[b] = effectRows[b]
        PROVE  Once!Next
    <2>1. ~Live(a) /\ Live(a)' /\ effectRows'[a].effect = e
      BY <1>3, EffectAssumption DEF Born, Live, Attempts
    <2>2. phaseBar[e] = "free" /\ phaseBar' = [phaseBar EXCEPT ![e] = "owned"]
      BY <1>1, <1>3, <2>1, PhaseMove DEF Born, PhaseOf
    <2>3. Once!Own(e)
      BY <2>2 DEF Once!Own, Once!Move
    <2> QED
      BY <2>3 DEF Once!Next
  <1>4. ASSUME NEW a \in ActionIds, NEW move \in Moves, Moved(a, move[1], move[2]),
               \A b \in ActionIds \ {a} : effectRows'[b] = effectRows[b]
        PROVE  Once!Next \/ UNCHANGED phaseBar
    <2> DEFINE e == effectRows[a].effect
    <2>1. effectRows[a] \in EffectRow /\ e \in EffectIds
      BY <1>4, EffectRowType DEF Moved, Live, EffectRow
    <2>2. /\ effectRows[a].state = move[1] /\ effectRows'[a].state = move[2]
          /\ effectRows'[a].effect = e /\ effectRows'[a] \in EffectRow
      BY <1>4, <2>1 DEF Moved, EffectRow, Moves, EffectStates
    <2>3. Live(a) /\ (Live(a)' <=> move[2] # "NOT_EXECUTED")
      BY <1>4, <2>2, EffectAssumption DEF Moved, Live, Attempts
    <2>4. /\ phaseBar[e] = PhaseOf(move[1])
          /\ phaseBar' = [phaseBar EXCEPT ![e] =
                IF move[2] # "NOT_EXECUTED" THEN PhaseOf(move[2]) ELSE "free"]
      BY <1>1, <1>4, <2>1, <2>2, <2>3, PhaseMove
    <2>5. CASE move = <<"RESERVED", "DISPATCHING">>
      BY <2>1, <2>4, <2>5 DEF PhaseOf, Once!Dispatch, Once!Move, Once!Next
    <2>6. CASE move = <<"RESERVED", "NOT_EXECUTED">>
      BY <2>1, <2>4, <2>6 DEF PhaseOf, Once!Abandon, Once!Move, Once!Next
    <2>7. CASE move = <<"DISPATCHING", "AMBIGUOUS">>
      BY <2>1, <2>4, <2>7 DEF PhaseOf, Once!Lose, Once!Move, Once!Next
    <2>8. CASE move = <<"AMBIGUOUS", "AMBIGUOUS">>
      <3>1. phaseBar = [d \in EffectIds |-> phaseBar[d]]
        BY DEF phaseBar
      <3> QED
        BY <2>1, <2>4, <2>8, <3>1 DEF PhaseOf
    <2>9. CASE move[1] \in {"DISPATCHING", "AMBIGUOUS"} /\ move[2] = "COMMITTED"
      <3>1. /\ phaseBar[e] \in {"inflight", "unresolved"}
            /\ phaseBar' = [phaseBar EXCEPT ![e] = "done"]
        BY <2>4, <2>9 DEF PhaseOf
      <3> QED
        BY <2>1, <3>1 DEF Once!Resolve, Once!Move, Once!Next
    <2>10. CASE move[1] \in {"DISPATCHING", "AMBIGUOUS"} /\ move[2] = "NOT_EXECUTED"
      <3>1. /\ phaseBar[e] \in {"inflight", "unresolved"}
            /\ phaseBar' = [phaseBar EXCEPT ![e] = "free"]
        BY <2>4, <2>10 DEF PhaseOf
      <3> QED
        BY <2>1, <3>1 DEF Once!Resolve, Once!Move, Once!Next
    <2> QED
      BY <2>5, <2>6, <2>7, <2>8, <2>9, <2>10 DEF Moves
  <1> QED
    BY <1>2, <1>3, <1>4 DEF OneRowMoves

(* The ledger keeps the abstract promise about each effect: one owner,     *)
(* dispatch only by it, nothing new while an outcome is unclear, and never *)
(* again once it has happened.                                             *)
THEOREM LedgerIsOnce == EffectSpec => ImplementsConsequenceOnce
  <1>1. EffectInit => Once!Init
    BY DEF EffectInit, Once!Init, phaseBar, Owned, Live, Attempts
  <1>2. EffectTypeOK /\ OneLiveOwner /\ [EffectNext]_vars => [Once!Next]_phaseBar
    BY RowStep, OnceStep
  <1> QED
    BY <1>1, <1>2, OwnerInv, PTL DEF EffectSpec, Once!Spec, ImplementsConsequenceOnce
=============================================================================
