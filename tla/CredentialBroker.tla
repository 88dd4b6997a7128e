-------------------------- MODULE CredentialBroker --------------------------
(***************************************************************************)
(* Brokered execution through a provider adapter: the broker               *)
(* (Broker.execute_via_adapter, broker.py), the coordinator that turns its *)
(* outcome into an execution state (execution_modes.py), and the           *)
(* credential providers (credentials.py), over the authority store.        *)
(*                                                                         *)
(* An attempt is identified by the action id it reserves budget under.     *)
(* What the decision and the edge check in detail is module Gateway; here  *)
(* they pass or refuse, and what matters is the money they leave behind.   *)
(*                                                                         *)
(* A credential object is named after the attempt that had it made.  The   *)
(* token-exchange provider keeps the object it last made and hands the     *)
(* same object out again; the other providers make a new one every time.   *)
(***************************************************************************)
EXTENDS AuthorityStore

CONSTANTS
    Tokens,      \* grants whose bearer token an agent holds
    CacheLife    \* how long a token is handed out again (0.9 of its life)

VARIABLES
    attempts,    \* the attempt of each action id, or None
    live,        \* Broker._live_credentials: the objects handed to adapters
    secrets,     \* the credential objects that still hold a value
    cache        \* OIDCShortLivedProvider._cache: object and age, or None

credVars == <<live, secrets, cache>>
brokerVars == <<storeVars, attempts, credVars>>

(* BrokeredExecutionState: the coordinator's answers.                      *)
Results == {"succeeded", "failed", "refused", "outcome_unknown"}
AttemptEnded == Results \cup {"denied", "crashed", "lost"}
AttemptPlaces ==
    {"reserve", "edge", "cleared", "ready", "resolved", "sent", "settle"} \cup AttemptEnded

Attempt ==
    [pc : AttemptPlaces, grant : GrantIds, cost : Charges,
     since : Nat,                       \* when the decision began
     allowed : BOOLEAN,                 \* the decision is ALLOW
     cred : ActionIds \cup {None},      \* the credential object in hand
     fault : BOOLEAN,                   \* history: an error kept the hold
     landed : BOOLEAN]                  \* history: the provider has acted

CachedToken == [cred : ActionIds, at : Nat]

ASSUME BrokerAssumption ==
    /\ None \notin Attempt \cup CachedToken \cup ActionIds
    /\ Tokens \subseteq GrantIds
    /\ CacheLife \in Nat

BrokerTypeOK ==
    /\ TypeOK
    /\ attempts \in [ActionIds -> Attempt \cup {None}]
    /\ live \subseteq ActionIds
    /\ secrets \subseteq ActionIds
    /\ cache \in CachedToken \cup {None}

BrokerInit ==
    /\ Init
    /\ attempts = [a \in ActionIds |-> None]
    /\ live = {}
    /\ secrets = {}
    /\ cache = None

-----------------------------------------------------------------------------
Made == {a \in ActionIds : attempts[a] # None}
Reached(a, pc) == a \in Made /\ attempts[a].pc = pc
Pending(a) == a \in Made /\ attempts[a].pc \notin AttemptEnded

(* An attempt moves on; when it ends it forgets its local variables.       *)
Shifted(t, pc) ==
    IF pc \in AttemptEnded
    THEN [t EXCEPT !.pc = pc, !.since = 0, !.allowed = TRUE, !.cred = None]
    ELSE [t EXCEPT !.pc = pc]

Shift(a, pc) == attempts' = [attempts EXCEPT ![a] = Shifted(@, pc)]
ShiftFaulty(a, pc) ==
    attempts' = [attempts EXCEPT ![a] = [Shifted(@, pc) EXCEPT !.fault = TRUE]]

(* "if action.est_cost:" gives a hold of money back; an error of the       *)
(* release is dropped and the hold stays.                                  *)
ForgetHold(a, pc) == Shift(a, pc) /\ UNCHANGED storeVars   \* variant: no release

ReturnHold(a, pc) ==
    \/ /\ attempts[a].cost > 0
       /\ Release(attempts[a].grant, a, attempts[a].cost)
       /\ Shift(a, pc)
    \/ /\ attempts[a].cost > 0
       /\ ShiftFaulty(a, pc)
       /\ UNCHANGED storeVars
    \/ /\ attempts[a].cost = 0
       /\ Shift(a, pc)
       /\ UNCHANGED storeVars

-----------------------------------------------------------------------------
(* Decision and edge. *)

BeginAttempt(a, g, cost) ==
    /\ attempts[a] = None
    /\ g \in Stored
    /\ attempts' = [attempts EXCEPT ![a] =
          [pc |-> "reserve", grant |-> g, cost |-> cost, since |-> now, allowed |-> TRUE,
           cred |-> None, fault |-> FALSE, landed |-> FALSE]]

DecideHold(a) ==
    /\ Reached(a, "reserve")
    /\ \E ts \in attempts[a].since..now :
          Reserve(attempts[a].grant, a, attempts[a].cost, None, ts)
    /\ Shift(a, "edge")
    /\ UNCHANGED credVars

(* The cost is invalid, or the decision refuses before anything is held.   *)
DecideDeny(a) ==
    /\ Reached(a, "reserve")
    /\ Shift(a, "denied")
    /\ UNCHANGED <<storeVars, credVars>>

(* The proof or the ledger entry cannot be made: DENY, and the hold stays. *)
ProofFails(a) ==
    /\ Reached(a, "edge")
    /\ ShiftFaulty(a, "denied")
    /\ UNCHANGED <<storeVars, credVars>>

ProofPasses(a) ==
    /\ Reached(a, "edge")
    /\ Shift(a, "cleared")
    /\ UNCHANGED <<storeVars, credVars>>

ProofRefused(a) ==
    /\ Reached(a, "edge")
    /\ ReturnHold(a, "denied")
    /\ UNCHANGED credVars

-----------------------------------------------------------------------------
(* The coordinator calls the broker. *)

Coordinate(a) ==
    /\ Reached(a, "cleared")
    /\ Shift(a, "ready")
    /\ UNCHANGED <<storeVars, credVars>>

(* Without an ALLOW: refused, and nothing is handed back.                  *)
RefuseUnallowed(a) ==
    /\ Reached(a, "ready")
    /\ ~attempts[a].allowed
    /\ Shift(a, "refused")
    /\ UNCHANGED <<storeVars, credVars>>

(* The adapter does not support the action, or no credential is resolved,  *)
(* or it is for development only in production, and destroyed at once.     *)
RefuseEarly(a) ==
    /\ Reached(a, "ready")
    /\ attempts[a].allowed
    /\ ReturnHold(a, "refused")
    /\ UNCHANGED credVars

(* An experimental adapter in production has no refusal rule of its own,   *)
(* so it counts as a failure at the provider and keeps the hold.           *)
RefuseExperimental(a) ==
    /\ Reached(a, "ready")
    /\ attempts[a].allowed
    /\ Shift(a, "failed")
    /\ UNCHANGED <<storeVars, credVars>>

TakeCredential(a, c) ==
    /\ attempts' = [attempts EXCEPT ![a] = [@ EXCEPT !.pc = "resolved", !.cred = c]]
    /\ live' = live \cup {c}
    /\ UNCHANGED storeVars

ResolveNew(a) ==
    /\ Reached(a, "ready")
    /\ attempts[a].allowed
    /\ TakeCredential(a, a)
    /\ secrets' = secrets \cup {a}
    /\ UNCHANGED cache

CacheFresh == cache # None /\ now < cache.at + CacheLife

(* The token-exchange provider: the cached object while it is young, even  *)
(* when its value is gone.                                                 *)
ResolveCached(a) ==
    /\ Reached(a, "ready")
    /\ attempts[a].allowed
    /\ CacheFresh
    /\ TakeCredential(a, cache.cred)
    /\ UNCHANGED <<secrets, cache>>

ResolveExchanged(a) ==
    /\ Reached(a, "ready")
    /\ attempts[a].allowed
    /\ ~CacheFresh
    /\ TakeCredential(a, a)
    /\ secrets' = secrets \cup {a}
    /\ cache' = [cred |-> a, at |-> now]

-----------------------------------------------------------------------------
(* adapter.execute, and the finally clause that destroys the credential:   *)
(* whoever pops the object from the live map blanks its value.             *)

DestroyReference(c) ==   \* variant: the reference is dropped, the value kept
    live' = live \ {c} /\ UNCHANGED <<secrets, cache>>

DestroyCredential(c) ==
    /\ live' = live \ {c}
    /\ secrets' = IF c \in live THEN secrets \ {c} ELSE secrets
    /\ UNCHANGED cache

(* Unknown action or invalid parameters, found before anything is sent.    *)
AdapterRejects(a) ==
    /\ Reached(a, "resolved")
    /\ ReturnHold(a, "refused")
    /\ DestroyCredential(attempts[a].cred)

(* The request leaves with the value the object has now.  A request        *)
(* without a secret cannot act.                                            *)
AdapterSends(a) ==
    /\ Reached(a, "resolved")
    /\ \E landed \in BOOLEAN :
          /\ landed => attempts[a].cred \in secrets
          /\ attempts' = [attempts EXCEPT ![a] = [@ EXCEPT !.pc = "sent", !.landed = landed]]
    /\ UNCHANGED <<storeVars, credVars>>

AdapterAnswers(a) ==
    /\ Reached(a, "sent")
    /\ Shift(a, "settle")
    /\ DestroyCredential(attempts[a].cred)
    /\ UNCHANGED storeVars

RaisedAfterSend == {"failed", "outcome_unknown"}

(* Variant: an error of the provider is a refusal.                         *)
AdapterErrorRefunded(a) ==
    /\ Reached(a, "sent")
    /\ ReturnHold(a, "refused")
    /\ DestroyCredential(attempts[a].cred)

(* Timeouts, partial or contradictory answers, retryable errors and        *)
(* crashes are unknown outcomes, other errors failures.  All keep the hold.*)
AdapterRaises(a) ==
    /\ Reached(a, "sent")
    /\ \E result \in RaisedAfterSend : Shift(a, result)
    /\ DestroyCredential(attempts[a].cred)
    /\ UNCHANGED storeVars

(* Whatever the adapter answers counts as success, whether or not its ok   *)
(* flag is set.  The cost is the one it names, or the reservation.         *)
SettleAttempt(a) ==
    /\ Reached(a, "settle")
    /\ \E actual \in Charges : Commit(attempts[a].grant, a, actual, attempts[a].cost)
    /\ Shift(a, "succeeded")
    /\ UNCHANGED credVars

(* The commit raises an error that the coordinator does not know.          *)
SettleCrashes(a) ==
    /\ Reached(a, "settle")
    /\ Shift(a, "crashed")
    /\ UNCHANGED <<storeVars, credVars>>

BrokerStep(a) ==
    \/ DecideHold(a) \/ DecideDeny(a)
    \/ ProofFails(a) \/ ProofPasses(a) \/ ProofRefused(a)
    \/ RefuseUnallowed(a) \/ RefuseEarly(a) \/ RefuseExperimental(a)
    \/ ResolveNew(a) \/ ResolveCached(a) \/ ResolveExchanged(a)
    \/ AdapterRejects(a) \/ AdapterSends(a) \/ AdapterAnswers(a) \/ AdapterRaises(a)
    \/ SettleAttempt(a) \/ SettleCrashes(a)

(* The process dies: what it held in memory is gone.                       *)
BrokerRestart ==
    /\ attempts' = [a \in ActionIds |->
          IF Pending(a) THEN Shifted(attempts[a], "lost") ELSE attempts[a]]
    /\ live' = {}
    /\ secrets' = {}
    /\ cache' = None
    /\ UNCHANGED storeVars

-----------------------------------------------------------------------------
(* Properties. *)

InHand == {attempts[a].cred : a \in {b \in Made : attempts[b].pc \in {"resolved", "sent"}}}

(* Money is never given back for a request that the provider may have      *)
(* acted on, whatever the adapter raised and whoever else runs             *)
(* (execution_modes.py:150).                                               *)
SideEffectsFunded == \A a \in Made : attempts[a].landed => a \in Held

(* A refused or denied attempt never reached the provider, and its money   *)
(* is back unless an error on the way kept it (execution_modes.py:147).    *)
RefusedIsFree ==
    \A a \in Made : attempts[a].pc \in {"refused", "denied"} =>
        /\ ~attempts[a].landed
        /\ attempts[a].cost > 0 /\ ~attempts[a].fault => a \notin Held

(* A credential value lives for one call (broker.py:188): every object     *)
(* that holds one, or that the broker tracks, is in the hand of an attempt *)
(* in progress, also when attempts share a cached object.                  *)
SecretsDestroyed == secrets \cup live \subseteq InHand

(* purge_cache drops all cached tokens and is used by the broker on        *)
(* credential destruction (credentials.py:297): a token that is still      *)
(* handed out has a value.                                                 *)
PurgedOnDestruction == CacheFresh => cache.cred \in secrets
=============================================================================
