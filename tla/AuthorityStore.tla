--------------------------- MODULE AuthorityStore ---------------------------
(***************************************************************************)
(* The authority store of actenon-permit: the SQLite database that keeps   *)
(* every grant, its remaining budget and the reservations made against it  *)
(* (state.py and the delegated-budget mixin of delegated_budget.py).       *)
(*                                                                         *)
(* Every public operation of SQLiteStore runs inside one BEGIN IMMEDIATE   *)
(* transaction, under the connection's lock, and commits or rolls back as  *)
(* a whole, so each is one action here.  A refused operation rolls back    *)
(* and is no step.  Callers are unconstrained: any caller may reserve,     *)
(* commit or release any attempt with any amount in any order, which is    *)
(* what threads, processes and retries sharing one database file can do.   *)
(*                                                                         *)
(* Amounts are the integer units of budget.py (billionths of a currency    *)
(* unit), so the arithmetic is exact.                                      *)
(***************************************************************************)
EXTENDS Integers, FiniteSets

CONSTANTS
    GrantIds,    \* ids of rows of table grants
    ActionIds,   \* attempt ids (Action.action_id), the key of rate_events
    EffectIds,   \* identities of consequential effects
    None,        \* SQL NULL, Python None, or an absent row
    Offered,     \* Offered[g]: the grant rows a trusted caller may import as g
    Amounts,     \* the amounts callers pass, in units; may be negative
    MaxOwners,   \* longest delegation chain a charge may walk (64 in the code)
    MaxTime      \* bound on the clock

Statuses == {"ACTIVE", "EXHAUSTED", "EXPIRED", "REVOKED"}

(* What a grant's signature covers, plus whether it verifies.  approved is *)
(* None for scope authority, else the finite set of approved effects.      *)
Authority ==
    [parent : GrantIds \cup {None}, depth : Nat, agent : STRING, signed : BOOLEAN,
     currency : STRING, limit : Nat, expires : Nat, allow : SUBSET STRING,
     deny : SUBSET STRING, rules : SUBSET STRING, rateMax : Nat, ratePer : Nat,
     approved : (SUBSET EffectIds) \cup {None}]

(* An amount that is not negative, the only kind that can be reserved.     *)
Charges == {n \in Amounts : n >= 0}

GrantRow == [auth : Authority, status : Statuses, remaining : Nat]

RateEvent ==
    [grant : GrantIds, ts : Nat, reserved : Charges, committed : BOOLEAN, actual : Nat]

ASSUME StoreAssumption ==
    /\ None \notin GrantRow \cup RateEvent \cup GrantIds
    /\ Offered \in [GrantIds -> SUBSET GrantRow]
    /\ Amounts \subseteq Int
    /\ MaxOwners \in Nat \ {0}
    /\ MaxTime \in Nat

VARIABLES
    grants,      \* table grants: row, or None
    overrun,     \* table budget_overruns: debt, 0 when there is no row
    rateEvents,  \* table rate_events: row, or None
    owners,      \* table reservation_budget_owners: the charged grants of an attempt
    now,         \* the wall clock
    opening      \* history: the remaining budget a grant was imported with

storeVars == <<grants, overrun, rateEvents, owners, now, opening>>

TypeOK ==
    /\ grants \in [GrantIds -> GrantRow \cup {None}]
    /\ overrun \in [GrantIds -> Nat]
    /\ rateEvents \in [ActionIds -> RateEvent \cup {None}]
    /\ owners \in [ActionIds -> SUBSET GrantIds]
    /\ now \in Nat
    /\ opening \in [GrantIds -> Nat]

Init ==
    /\ grants = [g \in GrantIds |-> None]
    /\ overrun = [g \in GrantIds |-> 0]
    /\ rateEvents = [a \in ActionIds |-> None]
    /\ owners = [a \in ActionIds |-> {}]
    /\ now = 0
    /\ opening = [g \in GrantIds |-> 0]

-----------------------------------------------------------------------------
(* Arithmetic and lookups. *)

Unclamped(n) == n   \* variant: a balance is stored as computed

PosPart(n) == IF n > 0 THEN n ELSE 0

Stored == {g \in GrantIds : grants[g] # None}
Held == {a \in ActionIds : rateEvents[a] # None}

Auth(g) == grants[g].auth
PermitsEffect(g, effect) == Auth(g).approved # None => effect \in Auth(g).approved

-----------------------------------------------------------------------------
(* The delegation lineage: the grant itself, its parent, and so on up to a *)
(* root.  The walk gives up after MaxOwners links, which is also how it    *)
(* notices a cycle: a sound walk has run off the root by then.             *)

Walk(g) ==
    LET up[n \in 0..MaxOwners] ==
            IF n = 0 THEN g
            ELSE IF up[n-1] \in Stored THEN Auth(up[n-1]).parent ELSE None
    IN  up

Lineage(g) == {Walk(g)[n] : n \in 0..MaxOwners} \ {None}

(* A delegated grant may only narrow its parent, in every dimension.       *)
Narrows(child, parent) ==
    /\ child.currency = parent.currency
    /\ child.limit <= parent.limit
    /\ child.expires <= parent.expires
    /\ child.depth = parent.depth + 1
    /\ child.allow \subseteq parent.allow
    /\ child.allow = {} => parent.allow = {}
    /\ parent.deny \subseteq child.deny
    /\ parent.rules \subseteq child.rules
    /\ parent.rateMax > 0 => child.rateMax \in 1..parent.rateMax
    /\ child.ratePer >= parent.ratePer
    /\ parent.approved # None =>
          child.approved # None /\ child.approved \subseteq parent.approved

(* Variant: delegated grants are not compared with their parents.          *)
LineageUnnarrowed(g, statuses) ==
    /\ g \in Stored
    /\ Walk(g)[MaxOwners] = None
    /\ Lineage(g) \subseteq Stored
    /\ \A o \in Lineage(g) : grants[o].status \in statuses /\ Auth(o).expires > now

(* Variant: only the grant itself must be live.                            *)
LineageOfLiveLeaf(g, statuses) ==
    /\ g \in Stored
    /\ Walk(g)[MaxOwners] = None
    /\ Lineage(g) \subseteq Stored
    /\ grants[g].status \in statuses

(* _budget_lineage(live=True) returns instead of raising StateError.       *)
LineageSound(g, statuses) ==
    /\ g \in Stored
    /\ Walk(g)[MaxOwners] = None
    /\ Lineage(g) \subseteq Stored
    /\ \A o \in Lineage(g) :
          /\ grants[o].status \in statuses
          /\ Auth(o).expires > now
          /\ Auth(o).parent = None => Auth(o).depth = 0
          /\ Lineage(g) # {g} => Auth(o).signed
          /\ Auth(o).parent # None => Narrows(Auth(o), Auth(Auth(o).parent))

-----------------------------------------------------------------------------
(* Importing a grant.  An id's authority never changes once it is stored:  *)
(* a second import is a no-op, except that a verified signature may be     *)
(* attached to a stored unsigned body.                                     *)

InsertGrant(g, row) ==
    /\ grants[g] = None
    /\ row.remaining <= row.auth.limit
    /\ grants' = [grants EXCEPT ![g] = row]
    /\ opening' = [opening EXCEPT ![g] = row.remaining]
    /\ UNCHANGED <<overrun, rateEvents, owners, now>>

AttachSignature(g, row) ==
    /\ g \in Stored
    /\ ~Auth(g).signed
    /\ row.auth = [Auth(g) EXCEPT !.signed = TRUE]
    /\ grants' = [grants EXCEPT ![g].auth.signed = TRUE]
    /\ UNCHANGED <<overrun, rateEvents, owners, now, opening>>

PutGrant(g) ==
    \E row \in Offered[g] : InsertGrant(g, row) \/ AttachSignature(g, row)

(* set_status overwrites unconditionally.  The program only ever passes it *)
(* REVOKED (control plane, CLI) and, once it has seen the clock pass the   *)
(* expiry of a grant, EXPIRED (PDP.decide).                                *)
SetStatus(g, status) ==
    /\ g \in Stored
    /\ grants' = [grants EXCEPT ![g].status = status]
    /\ UNCHANGED <<overrun, rateEvents, owners, now, opening>>

Revoke(g) == SetStatus(g, "REVOKED")

Expire(g) == g \in Stored /\ now > Auth(g).expires /\ SetStatus(g, "EXPIRED")

-----------------------------------------------------------------------------
(* Reserving: all owners of the lineage are debited, or none.              *)

(* A budget that runs out exhausts an active grant, and a refund wakes an  *)
(* exhausted one.  No other status is touched.                             *)
StatusByBalance(status, remaining) ==   \* variant: a refund revives any grant
    IF remaining > 0 THEN "ACTIVE" ELSE "EXHAUSTED"

SettledStatus(status, remaining) ==
    IF status = "EXHAUSTED" /\ remaining > 0 THEN "ACTIVE"
    ELSE IF status = "ACTIVE" /\ remaining <= 0 THEN "EXHAUSTED"
    ELSE status

RateHits(g, since) == {a \in Held : g \in owners[a] /\ rateEvents[a].ts >= since}

UpToRateLimit(g, ts) ==   \* variant: off by one
    Auth(g).rateMax > 0 =>
        Cardinality(RateHits(g, ts - Auth(g).ratePer)) <= Auth(g).rateMax

UnderRateLimit(g, ts) ==
    Auth(g).rateMax > 0 =>
        Cardinality(RateHits(g, ts - Auth(g).ratePer)) < Auth(g).rateMax

MayChargeUnfunded(g, amount, effect, ts) ==   \* variant: the balance is not checked
    /\ PermitsEffect(g, effect)
    /\ overrun[g] = 0
    /\ UnderRateLimit(g, ts)

MayCharge(g, amount, effect, ts) ==
    /\ PermitsEffect(g, effect)
    /\ Auth(g).approved # None => Auth(g).signed
    /\ overrun[g] = 0
    /\ grants[g].remaining >= amount
    /\ UnderRateLimit(g, ts)

(* A reservation of nothing leaves statuses alone.                         *)
Debit(row, amount) ==
    [row EXCEPT !.remaining = @ - amount,
                !.status = IF amount > 0 THEN SettledStatus(@, row.remaining - amount)
                                         ELSE @]

(* _reserve_in_transaction, the body of reserve (effect is None) and of    *)
(* reserve_effect.  reserve reads its timestamp before it waits for the    *)
(* lock, so the stamp may be arbitrarily stale; reserve_effect reads it    *)
(* inside the transaction.  The PDP passes the leaf's own rate limit, so   *)
(* the check of the caller's limit adds nothing to UnderRateLimit.         *)
Reserve(g, a, amount, effect, ts) ==
    /\ amount >= 0
    /\ effect # None => ts = now
    /\ a \notin Held
    /\ LineageSound(g, {"ACTIVE"})
    /\ \A o \in Lineage(g) : MayCharge(o, amount, effect, ts)
    /\ rateEvents' = [rateEvents EXCEPT ![a] =
          [grant |-> g, ts |-> ts, reserved |-> amount, committed |-> FALSE, actual |-> 0]]
    /\ owners' = [owners EXCEPT ![a] = Lineage(g)]
    /\ grants' = [o \in GrantIds |->
          IF o \in Lineage(g) THEN Debit(grants[o], amount) ELSE grants[o]]
    /\ UNCHANGED <<overrun, now, opening>>

-----------------------------------------------------------------------------
(* Settling: the owners recorded at reservation time are the ones that are *)
(* refunded or charged, whatever has become of the lineage since.          *)

BalanceNoDebt(g, adjustment) ==   \* variant: a refund forgives the debt
    grants[g].remaining + adjustment

Balance(g, adjustment) == grants[g].remaining - overrun[g] + adjustment

(* A provider overrun is kept as debt, and refunds pay the debt first.     *)
SettleOwners(g, a, adjustment) ==
    /\ g \in owners[a]
    /\ owners[a] \subseteq Stored
    /\ grants' = [o \in GrantIds |->
          IF o \in owners[a]
          THEN [grants[o] EXCEPT
                  !.remaining = PosPart(Balance(o, adjustment)),
                  !.status = SettledStatus(@, PosPart(Balance(o, adjustment)))]
          ELSE grants[o]]
    /\ overrun' = [o \in GrantIds |->
          IF o \in owners[a] THEN PosPart(-Balance(o, adjustment)) ELSE overrun[o]]

(* The caller's claim matches the stored reservation (_reservation).       *)
Reservation(g, a, claimed) ==
    /\ g \in Stored
    /\ a \in Held
    /\ rateEvents[a].grant = g
    /\ rateEvents[a].reserved = claimed

(* A negative cost settles at zero.  Replaying an identical commit only    *)
(* reads; replaying it with a different cost is refused.                   *)
Commit(g, a, cost, claimed) ==
    /\ Reservation(g, a, claimed)
    /\ ~rateEvents[a].committed
    /\ SettleOwners(g, a, claimed - PosPart(cost))
    /\ rateEvents' = [rateEvents EXCEPT ![a].committed = TRUE,
                                        ![a].actual = PosPart(cost)]
    /\ UNCHANGED <<owners, now, opening>>

(* Variant: a committed reservation can still be refunded.                 *)
ReleaseAnyway(g, a, claimed) ==
    /\ Reservation(g, a, claimed)
    /\ SettleOwners(g, a, claimed)
    /\ rateEvents' = [rateEvents EXCEPT ![a] = None]
    /\ owners' = [owners EXCEPT ![a] = {}]
    /\ UNCHANGED <<now, opening>>

(* Established non-execution: the hold and its rate hit disappear, and the *)
(* attempt id is free again.                                               *)
Release(g, a, claimed) ==
    /\ Reservation(g, a, claimed)
    /\ ~rateEvents[a].committed
    /\ SettleOwners(g, a, claimed)
    /\ rateEvents' = [rateEvents EXCEPT ![a] = None]
    /\ owners' = [owners EXCEPT ![a] = {}]
    /\ UNCHANGED <<now, opening>>

-----------------------------------------------------------------------------
Tick ==
    /\ now < MaxTime
    /\ now' = now + 1
    /\ UNCHANGED <<grants, overrun, rateEvents, owners, opening>>

Next ==
    \/ Tick
    \/ \E g \in GrantIds : PutGrant(g) \/ Revoke(g) \/ Expire(g)
    \/ \E g \in GrantIds, a \in ActionIds, amount \in Amounts,
          effect \in EffectIds \cup {None}, ts \in 0..now :
             Reserve(g, a, amount, effect, ts)
    \/ \E g \in GrantIds, a \in ActionIds, claimed \in Amounts : Release(g, a, claimed)
    \/ \E g \in GrantIds, a \in ActionIds, cost, claimed \in Amounts :
          Commit(g, a, cost, claimed)

Spec == Init /\ [][Next]_storeVars

-----------------------------------------------------------------------------
(* Properties. *)

ChargedTo(g) == {a \in Held : g \in owners[a]}

(* What an attempt costs its owners now, and how much of that the provider *)
(* took beyond what had been reserved.                                     *)
Cost ==
    [a \in Held |-> IF rateEvents[a].committed THEN rateEvents[a].actual
                                               ELSE rateEvents[a].reserved]
Excess == [a \in Held |-> PosPart(Cost[a] - rateEvents[a].reserved)]

(* One element for each unit of money, so that sums of amounts are         *)
(* cardinalities.                                                          *)
UnitsOf(attempts, amount) == UNION {{a} \X (1..amount[a]) : a \in attempts}

ChargedUnits(g) == UnitsOf(ChargedTo(g), Cost)
ExcessUnits(g) == UnitsOf(ChargedTo(g), Excess)

(* Money is conserved, in every grant of every delegation chain: what is   *)
(* left, less the recorded debt, is what the grant was imported with less  *)
(* everything it still holds or has paid, directly or for a descendant.    *)
(* No order of reservations, settlements, replays, refunds and overruns by *)
(* siblings loses or mints a unit.                                         *)
BudgetConservation ==
    \A g \in Stored :
        grants[g].remaining - overrun[g] + Cardinality(ChargedUnits(g)) = opening[g]

(* Delegation creates no money (delegated_budget.py:3): all descendants    *)
(* together can make a grant pay more than its signed limit only by as     *)
(* much as providers charged beyond what had been reserved.                *)
NoOverspend ==
    \A g \in Stored :
        Cardinality(ChargedUnits(g)) <= Auth(g).limit + Cardinality(ExcessUnits(g))

(* No window of a grant's rate limit ever contains more attempts, its own  *)
(* and its descendants', than the limit allows (the owner's rate cannot be *)
(* bypassed through siblings, state.py:407).                               *)
RateCeiling ==
    \A g \in Stored, t \in 0..now :
        Auth(g).rateMax > 0 =>
            Cardinality({a \in ChargedTo(g) :
                rateEvents[a].ts \in t..(t + Auth(g).ratePer)}) <= Auth(g).rateMax

(* Every hold is charged to a complete chain of ever narrower authority:   *)
(* its own grant, every ancestor, and nothing else, however grants were    *)
(* imported and settlements interleaved.                                   *)
ChargedLineageClosed ==
    \A a \in Held :
        /\ rateEvents[a].grant \in owners[a]
        /\ \A o \in owners[a] :
              /\ o \in Stored
              /\ IF Auth(o).parent = None THEN Auth(o).depth = 0
                 ELSE /\ Auth(o).parent \in owners[a]
                      /\ Narrows(Auth(o), Auth(Auth(o).parent))
              /\ o # rateEvents[a].grant =>
                    \E child \in owners[a] : Auth(child).parent = o

(* Refunds never revive authority (docs/evidence/effect-ledger/README.md): *)
(* a revoked or expired grant is never active or exhausted again.          *)
DeadStaysDead ==
    [][\A g \in Stored : grants[g].status \in {"REVOKED", "EXPIRED"} =>
          grants'[g].status \in {"REVOKED", "EXPIRED"}]_storeVars

(* A reservation is settled once.  A committed row is final, and an open   *)
(* one keeps its amount and its charged owners until it is settled.        *)
SettledOnce ==
    [][\A a \in Held :
          \/ UNCHANGED <<rateEvents[a], owners[a]>>
          \/ /\ ~rateEvents[a].committed
             /\ \/ rateEvents'[a] = None
                \/ /\ rateEvents'[a] = 
                         [rateEvents[a] EXCEPT !.committed = TRUE, !.actual = rateEvents'[a].actual]
                   /\ owners'[a] = owners[a]]_storeVars

(* The state diagram of SPEC.md:174-186 makes revoked, expired and         *)
(* exhausted terminal for v0: none of them becomes active again.  The      *)
(* store wakes an exhausted grant when a refund restores its balance.      *)
TerminalStatuses ==
    [][\A g \in Stored : grants[g].status # "ACTIVE" =>
          grants'[g].status # "ACTIVE"]_storeVars
=============================================================================
