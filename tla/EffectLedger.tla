---------------------------- MODULE EffectLedger ----------------------------
(***************************************************************************)
(* Durable ownership of consequential effects (effects.py), kept in the    *)
(* same database and the same transactions as the budget that pays for     *)
(* them.  The module adds table effect_reservations and the append-only    *)
(* effect_events to AuthorityStore, and the rule that the legacy commit    *)
(* and release may not touch the money of an effect.                       *)
(*                                                                         *)
(* A row is keyed by its attempt id (action_id is UNIQUE; the generated    *)
(* reservation_id is in one-to-one correspondence with it).  A call whose  *)
(* reference, principal or action hash does not match the stored row is    *)
(* refused and is no step, so those arguments are left out.                *)
(***************************************************************************)
EXTENDS AuthorityStore, Sequences

CONSTANT MaxEvents   \* bound on the events of one attempt

VARIABLES
    effectRows,   \* table effect_reservations: row, or None
    effectEvents  \* table effect_events: the states an attempt has been given

effectVars == <<effectRows, effectEvents>>
vars == <<storeVars, effectVars>>

EffectStates == {"RESERVED", "DISPATCHING", "COMMITTED", "NOT_EXECUTED", "AMBIGUOUS"}

EffectRow == [effect : EffectIds, grant : GrantIds, reserved : Charges, state : EffectStates]

ASSUME EffectAssumption == None \notin EffectRow /\ None \notin Int /\ MaxEvents \in Nat

EffectTypeOK ==
    /\ TypeOK
    /\ effectRows \in [ActionIds -> EffectRow \cup {None}]
    /\ effectEvents \in [ActionIds -> Seq(EffectStates)]

EffectInit ==
    /\ Init
    /\ effectRows = [a \in ActionIds |-> None]
    /\ effectEvents = [a \in ActionIds |-> <<>>]

-----------------------------------------------------------------------------
Attempts == {a \in ActionIds : effectRows[a] # None}
Live(a) == a \in Attempts /\ effectRows[a].state # "NOT_EXECUTED"
OwnedInFlight(effect) ==   \* variant: an unclear outcome blocks nobody
    \E a \in Attempts : effectRows[a].effect = effect
                      /\ effectRows[a].state \in {"RESERVED", "DISPATCHING", "COMMITTED"}

Owned(effect) == \E a \in ActionIds : Live(a) /\ effectRows[a].effect = effect

Record(a, state) == effectEvents' = [effectEvents EXCEPT ![a] = Append(@, state)]

(* An exhausted grant still backs what it has already paid for.            *)
EffectGrant(g) ==
    /\ LineageSound(g, {"ACTIVE", "EXHAUSTED"})
    /\ Auth(g).signed
    /\ Auth(g).expires > now

ReserveEffect(g, a, effect, amount) ==
    /\ ~Owned(effect)
    /\ a \notin Attempts
    /\ EffectGrant(g)
    /\ Reserve(g, a, amount, effect, now)
    /\ effectRows' = [effectRows EXCEPT ![a] =
          [effect |-> effect, grant |-> g, reserved |-> amount, state |-> "RESERVED"]]
    /\ Record(a, "RESERVED")

(* The one transition that lets a caller dispatch: the reservation must    *)
(* still be unclaimed and its authority live at this moment, and the chain *)
(* that was charged must be the chain that authorises it now.              *)
ClaimEffect(a) ==
    /\ a \in Attempts
    /\ effectRows[a].state = "RESERVED"
    /\ EffectGrant(effectRows[a].grant)
    /\ \A o \in Lineage(effectRows[a].grant) : PermitsEffect(o, effectRows[a].effect)
    /\ owners[a] = Lineage(effectRows[a].grant)
    /\ \A o \in owners[a] : overrun[o] = 0
    /\ effectRows' = [effectRows EXCEPT ![a].state = "DISPATCHING"]
    /\ Record(a, "DISPATCHING")
    /\ UNCHANGED storeVars

(* Which reports a reservation in the given state admits.  The states      *)
(* COMMITTED and NOT_EXECUTED are final: identical evidence is answered    *)
(* from the row and different evidence is refused.                         *)
MayReportUnclaimed(state, outcome, reconciliation) ==   \* variant: no claim needed
    /\ state \in {"RESERVED", "DISPATCHING", "AMBIGUOUS"}
    /\ state = "AMBIGUOUS" /\ outcome # "AMBIGUOUS" => reconciliation

MayReport(state, outcome, reconciliation) ==
    /\ state \in {"RESERVED", "DISPATCHING", "AMBIGUOUS"}
    /\ state = "AMBIGUOUS" /\ outcome # "AMBIGUOUS" => reconciliation
    /\ state = "RESERVED" => outcome = "NOT_EXECUTED"

(* Variant: an unclear outcome gives the money back.                       *)
RefundUnlessCommitted(a, row, outcome, cost) ==
    CASE outcome = "COMMITTED" ->
           Commit(row.grant, a, IF cost = None THEN row.reserved ELSE cost, row.reserved)
      [] outcome = "NOT_EXECUTED" -> Release(row.grant, a, row.reserved)
      [] outcome = "AMBIGUOUS" -> /\ SettleOwners(row.grant, a, row.reserved)
                                  /\ UNCHANGED <<rateEvents, owners, now, opening>>

(* cost is None when the caller reports none: a commit then charges the    *)
(* whole reservation.  An unclear outcome keeps everything.                *)
SettleMoney(a, row, outcome, cost) ==
    CASE outcome = "COMMITTED" ->
           Commit(row.grant, a, IF cost = None THEN row.reserved ELSE cost, row.reserved)
      [] outcome = "NOT_EXECUTED" -> Release(row.grant, a, row.reserved)
      [] outcome = "AMBIGUOUS" -> UNCHANGED storeVars

(* expected is the event sequence the reconciler reviewed, or None;        *)
(* sequences are compared per attempt.                                     *)
SettleEffect(a, outcome, cost, reconciliation, expected) ==
    /\ a \in Attempts
    /\ Len(effectEvents[a]) < MaxEvents
    /\ cost # None => cost >= 0
    /\ outcome = "NOT_EXECUTED" => cost \in {None, 0}
    /\ outcome = "AMBIGUOUS" => cost = None
    /\ expected # None => reconciliation /\ expected = Len(effectEvents[a])
    /\ MayReport(effectRows[a].state, outcome, reconciliation)
    /\ SettleMoney(a, effectRows[a], outcome, cost)
    /\ effectRows' = [effectRows EXCEPT ![a].state = outcome]
    /\ Record(a, outcome)

(* Effect-backed money moves only with its effect.                         *)
AnyReservation(a) == TRUE   \* variant: effect rows are not consulted

RequireLegacyReservation(a) == a \notin Attempts

LegacyCommit(g, a, cost, claimed) ==
    /\ RequireLegacyReservation(a)
    /\ Commit(g, a, cost, claimed)
    /\ UNCHANGED effectVars

LegacyRelease(g, a, claimed) ==
    /\ RequireLegacyReservation(a)
    /\ Release(g, a, claimed)
    /\ UNCHANGED effectVars

(* Operations that leave the effect tables alone.                          *)
StoreStep ==
    /\ \/ Tick
       \/ \E g \in GrantIds : PutGrant(g) \/ Revoke(g) \/ Expire(g)
       \/ \E g \in GrantIds, a \in ActionIds, amount \in Amounts, ts \in 0..now :
             Reserve(g, a, amount, None, ts)
    /\ UNCHANGED effectVars

Outcomes == {"COMMITTED", "NOT_EXECUTED", "AMBIGUOUS"}
Costs == {c \in Amounts : c >= 0} \cup {None}

EffectNext ==
    \/ StoreStep
    \/ \E g \in GrantIds, a \in ActionIds, cost, claimed \in Amounts :
          LegacyCommit(g, a, cost, claimed)
    \/ \E g \in GrantIds, a \in ActionIds, claimed \in Amounts :
          LegacyRelease(g, a, claimed)
    \/ \E g \in GrantIds, a \in ActionIds, effect \in EffectIds, amount \in Amounts :
          ReserveEffect(g, a, effect, amount)
    \/ \E a \in ActionIds : ClaimEffect(a)
    \/ \E a \in ActionIds, outcome \in Outcomes, cost \in Costs,
          reconciliation \in BOOLEAN, expected \in 1..MaxEvents \cup {None} :
          SettleEffect(a, outcome, cost, reconciliation, expected)

EffectSpec == EffectInit /\ [][EffectNext]_vars

-----------------------------------------------------------------------------
(* Properties. *)

(* At most one attempt at an effect is reserved, in flight, committed or   *)
(* unresolved, whichever grants paid for the attempts (effects.py:98).     *)
OneLiveOwner ==
    \A a, b \in ActionIds :
        Live(a) /\ Live(b) /\ effectRows[a].effect = effectRows[b].effect => a = b

(* The two tables never part: an unsettled or ambiguous effect still holds *)
(* its whole reservation, a committed one has paid, and neither a legacy   *)
(* commit nor a legacy release ever took the money away.                   *)
EffectHoldsBudget ==
    \A a \in ActionIds : Live(a) =>
        /\ a \in Held
        /\ rateEvents[a].grant = effectRows[a].grant
        /\ rateEvents[a].reserved = effectRows[a].reserved
        /\ rateEvents[a].committed <=> effectRows[a].state = "COMMITTED"

(* The refinement of ConsequenceOnce: an effect is in the phase of its one *)
(* live attempt.                                                           *)
PhaseOf(state) ==
    CASE state = "RESERVED" -> "owned"
      [] state = "DISPATCHING" -> "inflight"
      [] state = "AMBIGUOUS" -> "unresolved"
      [] state = "COMMITTED" -> "done"

Owner(e) == CHOOSE a \in ActionIds : Live(a) /\ effectRows[a].effect = e

phaseBar ==
    [e \in EffectIds |->
        IF Owned(e) THEN PhaseOf(effectRows[Owner(e)].state) ELSE "free"]

Once == INSTANCE ConsequenceOnce WITH phase <- phaseBar

(* The ledger implements the abstract promise about each effect.           *)
ImplementsConsequenceOnce == Once!Spec

(* The ledger is an authority store: every step of it, effect steps        *)
(* included, is a legacy operation of the store or leaves it unchanged.    *)
ImplementsAuthorityStore == Spec
=============================================================================
