---------------------------- MODULE ControlPlane ----------------------------
(***************************************************************************)
(* The control plane (control.py): the in-memory approval store and the    *)
(* handlers that approve, deny and revoke.  FastAPI runs these handlers in *)
(* a thread pool, so each handler is a sequence of actions, one for each   *)
(* call it makes on the approval store or the authority store, and any     *)
(* other activity may come in between.                                     *)
(*                                                                         *)
(* The module has no next-state relation of its own: the program runs it   *)
(* together with the gateway (module Gateway).                             *)
(***************************************************************************)
EXTENDS AuthorityStore

VARIABLES
    pending,     \* ApprovalStore._pending: the grant of a waiting action, or None
    decisions,   \* ApprovalStore._decisions: the verdict on an action, or None
    judging,     \* approve and deny handlers between their check and resolve
    revoking,    \* revoke handlers at work, one for each grant at most, or None
    consented    \* history: actions that a person has approved

cpVars == <<pending, decisions, judging, revoking, consented>>

Verdicts == {"approved", "denied"}

(* A revoke handler: the grants it found below its own, those it still has *)
(* to mark, and the waiting actions it still has to deny.                  *)
RevokeHandler ==
    [step : {"list", "cascade", "deny"}, family : SUBSET GrantIds,
     todo : SUBSET GrantIds, waiters : SUBSET ActionIds]

ASSUME ControlAssumption == None \notin Verdicts \cup RevokeHandler

ControlTypeOK ==
    /\ pending \in [ActionIds -> GrantIds \cup {None}]
    /\ decisions \in [ActionIds -> Verdicts \cup {None}]
    /\ judging \subseteq ActionIds \X Verdicts
    /\ revoking \in [GrantIds -> RevokeHandler \cup {None}]
    /\ consented \subseteq ActionIds

ControlInit ==
    /\ pending = [a \in ActionIds |-> None]
    /\ decisions = [a \in ActionIds |-> None]
    /\ judging = {}
    /\ revoking = [g \in GrantIds |-> None]
    /\ consented = {}

-----------------------------------------------------------------------------
(* The approval store. *)

GetStatus(a) ==
    IF decisions[a] # None THEN decisions[a]
    ELSE IF pending[a] # None THEN "pending" ELSE None

CreatePending(a, g) ==
    /\ pending' = [pending EXCEPT ![a] = g]
    /\ UNCHANGED <<decisions, judging, revoking, consented>>

(* resolve overwrites whatever was decided before.                         *)
Resolve(a, verdict) ==
    /\ pending' = [pending EXCEPT ![a] = None]
    /\ decisions' = [decisions EXCEPT ![a] = verdict]
    /\ consented' = IF verdict = "approved" THEN consented \cup {a} ELSE consented

-----------------------------------------------------------------------------
(* POST /approvals/{id}/approve and /deny: check, then resolve. *)

CheckApprove(a) ==
    /\ GetStatus(a) = "pending"
    /\ judging' = judging \cup {<<a, "approved">>}
    /\ UNCHANGED <<storeVars, pending, decisions, revoking, consented>>

CheckDeny(a) ==
    /\ GetStatus(a) \in {"pending", None}
    /\ judging' = judging \cup {<<a, "denied">>}
    /\ UNCHANGED <<storeVars, pending, decisions, revoking, consented>>

Judge(a, verdict) ==
    /\ <<a, verdict>> \in judging
    /\ Resolve(a, verdict)
    /\ judging' = judging \ {<<a, verdict>>}
    /\ UNCHANGED <<storeVars, revoking>>

-----------------------------------------------------------------------------
(* POST /grants/{id}/revoke: mark the grant, list all grants, mark every   *)
(* descendant that the list shows active, deny the actions waiting on any  *)
(* of them.                                                                *)

RevokeBegin(g) ==
    /\ revoking[g] = None
    /\ Revoke(g)
    /\ revoking' = [revoking EXCEPT ![g] =
          [step |-> "list", family |-> {}, todo |-> {}, waiters |-> {}]]
    /\ UNCHANGED <<pending, decisions, judging, consented>>

(* Every stored grant with g in its delegation chain, g included.          *)
Family(g) == {o \in Stored : g \in Lineage(o)}

RevokeList(g) ==
    /\ revoking[g] # None
    /\ revoking[g].step = "list"
    /\ revoking' = [revoking EXCEPT ![g] =
          [@ EXCEPT !.step = "cascade", !.family = Family(g),
                    !.todo = {o \in Family(g) \ {g} : grants[o].status = "ACTIVE"}]]
    /\ UNCHANGED <<storeVars, pending, decisions, judging, consented>>

RevokeChild(g, o) ==
    /\ revoking[g] # None
    /\ o \in revoking[g].todo
    /\ Revoke(o)
    /\ revoking' = [revoking EXCEPT ![g].todo = @ \ {o}]
    /\ UNCHANGED <<pending, decisions, judging, consented>>

RevokeWaiters(g) ==
    /\ revoking[g] # None
    /\ revoking[g].step = "cascade"
    /\ revoking[g].todo = {}
    /\ revoking' = [revoking EXCEPT ![g] =
          [@ EXCEPT !.step = "deny",
                    !.waiters = {a \in ActionIds : pending[a] \in revoking[g].family}]]
    /\ UNCHANGED <<storeVars, pending, decisions, judging, consented>>

RevokeWaiter(g, a) ==
    /\ revoking[g] # None
    /\ a \in revoking[g].waiters
    /\ Resolve(a, "denied")
    /\ revoking' = [revoking EXCEPT ![g].waiters = @ \ {a}]
    /\ UNCHANGED <<storeVars, judging>>

RevokeEnd(g) ==
    /\ revoking[g] # None
    /\ revoking[g].step = "deny"
    /\ revoking[g].waiters = {}
    /\ revoking' = [revoking EXCEPT ![g] = None]
    /\ UNCHANGED <<storeVars, pending, decisions, judging, consented>>

RevokeStep(g) ==
    \/ RevokeList(g) \/ RevokeWaiters(g) \/ RevokeEnd(g)
    \/ \E o \in GrantIds : RevokeChild(g, o)
    \/ \E a \in ActionIds : RevokeWaiter(g, a)

(* A restart of the process loses the approval store and every handler.    *)
ControlRestart ==
    /\ pending' = [a \in ActionIds |-> None]
    /\ decisions' = [a \in ActionIds |-> None]
    /\ judging' = {}
    /\ revoking' = [g \in GrantIds |-> None]
    /\ UNCHANGED consented
=============================================================================
