------------------------------ MODULE Gateway ------------------------------
(***************************************************************************)
(* Gateway.call_tool (gateway.py), from the grant token to the answer:     *)
(* the policy decision point (pdp.py), the approval gate (enforce.py), the *)
(* proof and its verification at the edge (kernel_bridge.py,               *)
(* revocation.py), the broker and the real call (broker.py), over the      *)
(* authority store and next to the control plane.                          *)
(*                                                                         *)
(* Calls run concurrently.  A call is identified by the action id that the *)
(* gateway draws for it, and moves through the places (pc) at which        *)
(* another call, a person, the clock or a crash can come in between.  Any  *)
(* store operation may also fail with an error (a lock timeout, a full     *)
(* disk), which rolls it back.                                             *)
(***************************************************************************)
EXTENDS ControlPlane

CONSTANTS
    Requests,    \* what agents ask for: action type, params['amount'], est_cost
    Thresholds,  \* approval rules with a threshold: rule -> its type and amount
    Tokens,      \* grants whose bearer token an agent holds
    Revocable,   \* grants an operator revokes
    ProofTTL     \* life of a proof (PCCB_TTL_SECONDS)

VARIABLE calls   \* the call of each action id, or None

callVars == <<storeVars, cpVars, calls>>

Request == [kind : STRING, asked : Int \cup {None}, cost : Charges]

Places ==
    {"screen", "reserve", "rules", "mint", "gate", "poll", "reload", "edge", "walk",
     "dispatch", "called", "denied", "unknown", "allowed", "lost"}
Ended == {"denied", "unknown", "allowed", "lost"}

Call ==
    [pc : Places, grant : GrantIds, request : Request,
     seen : Statuses,                  \* the grant's status when last loaded
     ts : Nat,                         \* Action.ts: the start of the proof window
     cleared : BOOLEAN,                \* ctx["approved_action_id"] is this action
     at : GrantIds \cup {None},        \* the grant the edge looks at next
     since : Nat,                      \* the time at which the edge began to look
     fault : BOOLEAN,                  \* history: an error kept the hold
     barred : BOOLEAN,                 \* history: revoked before the call began
     doomed : BOOLEAN,                 \* history: not live when the edge began
     landed : BOOLEAN]                 \* history: the provider has acted

ASSUME GatewayAssumption ==
    /\ Requests \subseteq Request
    /\ None \notin Call
    /\ ProofTTL \in Nat
    /\ Tokens \subseteq GrantIds
    /\ Revocable \subseteq GrantIds

GatewayTypeOK == TypeOK /\ ControlTypeOK /\ calls \in [ActionIds -> Call \cup {None}]

GatewayInit == Init /\ ControlInit /\ calls = [a \in ActionIds |-> None]

-----------------------------------------------------------------------------
Begun == {a \in ActionIds : calls[a] # None}
At(a, pc) == a \in Begun /\ calls[a].pc = pc
Running(a) == a \in Begun /\ calls[a].pc \notin Ended

Become(a, call) == calls' = [calls EXCEPT ![a] = call]
(* The call moves on; when it ends it forgets its local variables.         *)
Moved(c, pc) ==
    IF pc \in Ended
    THEN [c EXCEPT !.pc = pc, !.seen = "ACTIVE", !.ts = 0, !.cleared = FALSE,
                   !.at = None, !.since = 0]
    ELSE [c EXCEPT !.pc = pc]

Goto(a, pc) == Become(a, Moved(calls[a], pc))
Fault(a, pc) == Become(a, [Moved(calls[a], pc) EXCEPT !.fault = TRUE])
Land(a, pc, landed) == Become(a, [Moved(calls[a], pc) EXCEPT !.landed = landed])
Quietly(a, pc) == Goto(a, pc) /\ UNCHANGED <<storeVars, cpVars>>

Dead(g) == grants[g].status \in {"REVOKED", "EXPIRED"}

(* An invalid token, or one whose grant is unsigned or not in the store,   *)
(* is answered with DENY at once; otherwise the live row is loaded.  What  *)
(* the decision reads of it later and can have changed is its status.      *)
CallTool(a, g, request) ==
    /\ calls[a] = None
    /\ g \in Stored
    /\ Auth(g).signed
    /\ Become(a,
         [pc |-> "screen", grant |-> g, request |-> request, seen |-> grants[g].status,
          ts |-> now, cleared |-> FALSE, at |-> None, since |-> 0, fault |-> FALSE,
          barred |-> \E o \in Lineage(g) \cap Stored : grants[o].status = "REVOKED",
          doomed |-> FALSE, landed |-> FALSE])
    /\ UNCHANGED <<storeVars, cpVars>>

-----------------------------------------------------------------------------
(* PDP.decide on the loaded grant.  Each refusal is DENY. *)

RuleMatches(rule, request) ==
    IF rule \in DOMAIN Thresholds
    THEN /\ request.kind = Thresholds[rule].kind
         /\ (IF request.asked = None THEN request.cost ELSE request.asked)
               > Thresholds[rule].above
    ELSE request.kind = rule

NeedsApproval(a) ==
    \E rule \in Auth(calls[a].grant).rules : RuleMatches(rule, calls[a].request)

(* Scopes, with the refusal to mint a proof from an empty allow list.      *)
InScope(auth, kind) == kind \in auth.allow /\ kind \notin auth.deny

(* Status, expiry, scopes, the finite-effect rule, and the rate pre-check, *)
(* which reads the live counters.                                          *)
ScreenPass(a) ==
    /\ At(a, "screen")
    /\ calls[a].seen = "ACTIVE"
    /\ LET g == calls[a].grant IN
          /\ Auth(g).approved = None
          /\ now <= Auth(g).expires
          /\ InScope(Auth(g), calls[a].request.kind)
          /\ UnderRateLimit(g, now)
    /\ Quietly(a, "reserve")

(* A grant found expired is marked so; an error of the marking is dropped. *)
ScreenExpired(a) ==
    /\ At(a, "screen")
    /\ calls[a].seen = "ACTIVE"
    /\ Auth(calls[a].grant).approved = None
    /\ now > Auth(calls[a].grant).expires
    /\ SetStatus(calls[a].grant, "EXPIRED")
    /\ Goto(a, "denied")
    /\ UNCHANGED cpVars

(* Any check may fail, or the engine raise: fail closed.                   *)
ScreenDeny(a) == At(a, "screen") /\ Quietly(a, "denied")

CallReserve(a) ==
    /\ At(a, "reserve")
    /\ \E ts \in calls[a].ts..now :
          Reserve(calls[a].grant, a, calls[a].request.cost, None, ts)
    /\ Goto(a, "rules")
    /\ UNCHANGED cpVars

(* The store refuses or raises: nothing is held.                           *)
CallNotReserved(a) == At(a, "reserve") /\ Quietly(a, "denied")

KeepHold(a, pc) == Quietly(a, pc)   \* variant: the release is forgotten

(* Variant: the money goes back and the reservation stays.                 *)
GiveBackMoneyOnly(a, pc) ==
    /\ SettleOwners(calls[a].grant, a, calls[a].request.cost)
    /\ Goto(a, pc)
    /\ UNCHANGED <<rateEvents, owners, now, opening, cpVars>>

(* Give the hold back; an error is dropped and the hold stays.             *)
GiveBack(a, pc) ==
    /\ \/ /\ Release(calls[a].grant, a, calls[a].request.cost)
          /\ Goto(a, pc)
       \/ /\ Fault(a, pc)
          /\ UNCHANGED storeVars
    /\ UNCHANGED cpVars

(* "if action.est_cost:" gives back a hold of money only.                  *)
Refund(a, pc) ==
    IF calls[a].request.cost > 0 THEN GiveBack(a, pc) ELSE Quietly(a, pc)

RulesPass(a) ==
    /\ At(a, "rules")
    /\ calls[a].cleared \/ ~NeedsApproval(a)
    /\ Quietly(a, "mint")

(* A waiting action must not hold money: its reservation is given back.    *)
RulesWait(a) ==
    /\ At(a, "rules")
    /\ ~calls[a].cleared
    /\ NeedsApproval(a)
    /\ GiveBack(a, "gate")

(* The ledger cannot be written: DENY, with whatever is held still held.   *)
(* Before "mint" and before "gate" the decision is appended.               *)
AppendFails(a) ==
    /\ At(a, "mint") \/ At(a, "gate")
    /\ Fault(a, "denied")
    /\ UNCHANGED <<storeVars, cpVars>>

-----------------------------------------------------------------------------
(* The proof.  Its window opens at Action.ts, lasts ProofTTL and never     *)
(* exceeds the grant.                                                      *)
WindowOpen(a) == now <= Auth(calls[a].grant).expires /\ now <= calls[a].ts + ProofTTL

Mint(a) ==
    /\ At(a, "mint")
    /\ WindowOpen(a)
    /\ Quietly(a, "edge")

(* Minting fails, for whatever reason: DENY, and the hold stays.           *)
MintFails(a) ==
    /\ At(a, "mint")
    /\ Fault(a, "denied")
    /\ UNCHANGED <<storeVars, cpVars>>

-----------------------------------------------------------------------------
(* BlockingApprovalGate.request polls until a verdict or its deadline. *)

Gate(a) ==
    /\ At(a, "gate")
    /\ CreatePending(a, calls[a].grant)
    /\ Goto(a, "poll")
    /\ UNCHANGED storeVars

(* Variant: silence counts as consent.                                     *)
PollUndecided(a) ==
    /\ At(a, "poll")
    /\ GetStatus(a) # "denied"
    /\ Quietly(a, "reload")

PollApproved(a) ==
    /\ At(a, "poll")
    /\ GetStatus(a) = "approved"
    /\ Quietly(a, "reload")

PollDenied(a) == At(a, "poll") /\ GetStatus(a) = "denied" /\ Quietly(a, "denied")

NoDeadline(a) == FALSE   \* variant: the gate waits for ever

(* The deadline passes; the pending entry stays where it is.               *)
PollTimeout(a) == At(a, "poll") /\ Quietly(a, "denied")

(* The decision is run again on a fresh snapshot, with a fresh timestamp.  *)
Reload(a) ==
    /\ At(a, "reload")
    /\ Become(a, [calls[a] EXCEPT
          !.pc = "screen", !.ts = now, !.cleared = TRUE,
          !.seen = grants[calls[a].grant].status])
    /\ UNCHANGED <<storeVars, cpVars>>

-----------------------------------------------------------------------------
(* The edge verifies the proof, then consults revocation for the grant and *)
(* each ancestor, one read of the store at a time.                         *)

EdgeBegin(a) ==
    /\ At(a, "edge")
    /\ WindowOpen(a)
    /\ Become(a, [calls[a] EXCEPT
          !.pc = "walk", !.at = calls[a].grant, !.since = now,
          !.doomed = \E o \in Lineage(calls[a].grant) \cap Stored :
                        Dead(o) \/ Auth(o).expires <= now])
    /\ UNCHANGED <<storeVars, cpVars>>

NoAncestor(g) == None   \* variant: only the grant itself is looked up

NextAncestor(g) == Auth(g).parent

EdgeLook(a) ==
    /\ At(a, "walk")
    /\ LET g == calls[a].at IN
          /\ g \in Stored
          /\ ~Dead(g)
          /\ Auth(g).expires > calls[a].since
          /\ Become(a, [calls[a] EXCEPT
                !.at = NextAncestor(g),
                !.pc = IF NextAncestor(g) = None THEN "dispatch" ELSE "walk"])
    /\ UNCHANGED <<storeVars, cpVars>>

(* Any failed check or error refuses, and money is given back.             *)
EdgeRefuse(a) == (At(a, "edge") \/ At(a, "walk")) /\ Refund(a, "denied")

-----------------------------------------------------------------------------
(* The real call. *)

CredentialMissing(a) == At(a, "dispatch") /\ Refund(a, "denied")

RealCall(a) ==
    /\ At(a, "dispatch")
    /\ Land(a, "called", TRUE)
    /\ UNCHANGED <<storeVars, cpVars>>

(* Variant: a call that raised is refunded.                                *)
RealCallRaisesRefunded(a) ==
    /\ At(a, "dispatch")
    /\ \E landed \in BOOLEAN : Land(a, "unknown", landed)
    /\ Release(calls[a].grant, a, calls[a].request.cost)
    /\ UNCHANGED cpVars

(* It raised after dispatch began, so it may have landed: the hold stays.  *)
RealCallRaises(a) ==
    /\ At(a, "dispatch")
    /\ \E landed \in BOOLEAN : Land(a, "unknown", landed)
    /\ UNCHANGED <<storeVars, cpVars>>

(* The provider names the actual cost; without one it is the reservation.  *)
Settle(a) ==
    /\ At(a, "called")
    /\ \E actual \in Charges : Commit(calls[a].grant, a, actual, calls[a].request.cost)
    /\ Goto(a, "allowed")
    /\ UNCHANGED cpVars

(* The reported cost is invalid or the commit raises.                      *)
SettleFails(a) == At(a, "called") /\ Quietly(a, "unknown")

CallStep(a) ==
    \/ ScreenPass(a) \/ ScreenExpired(a) \/ ScreenDeny(a)
    \/ CallReserve(a) \/ CallNotReserved(a)
    \/ RulesPass(a) \/ RulesWait(a) \/ AppendFails(a)
    \/ Mint(a) \/ MintFails(a)
    \/ Gate(a) \/ PollApproved(a) \/ PollDenied(a) \/ PollTimeout(a) \/ Reload(a)
    \/ EdgeBegin(a) \/ EdgeLook(a) \/ EdgeRefuse(a)
    \/ CredentialMissing(a) \/ RealCall(a) \/ RealCallRaises(a)
    \/ Settle(a) \/ SettleFails(a)

-----------------------------------------------------------------------------
(* The process dies: calls, handlers and the approval store are gone, the  *)
(* database is as it was.                                                  *)
Restart ==
    /\ ControlRestart
    /\ calls' = [a \in ActionIds |->
          IF Running(a) THEN Moved(calls[a], "lost") ELSE calls[a]]
    /\ UNCHANGED storeVars

(* An action id becomes known to people as a pending entry; a verdict on   *)
(* an id that is not pending is read by nobody and is left out.            *)
Control ==
    /\ \/ \E a \in ActionIds : pending[a] # None /\ (CheckApprove(a) \/ CheckDeny(a))
       \/ \E a \in ActionIds, verdict \in Verdicts : Judge(a, verdict)
       \/ \E g \in Revocable : RevokeBegin(g)
       \/ \E g \in Revocable : RevokeStep(g)
    /\ UNCHANGED calls

Environment ==
    /\ Tick \/ \E g \in GrantIds : PutGrant(g)
    /\ UNCHANGED <<cpVars, calls>>

GatewayNext ==
    \/ Environment
    \/ Control
    \/ Restart
    \/ \E a \in ActionIds, g \in Tokens, request \in Requests : CallTool(a, g, request)
    \/ \E a \in ActionIds : CallStep(a)

GatewaySpec == GatewayInit /\ [][GatewayNext]_callVars

(* Every thread of the gateway is scheduled, the approval gate has a       *)
(* deadline, and the real call returns or raises.                          *)
FairGatewaySpec == GatewaySpec /\ \A a \in ActionIds : WF_callVars(CallStep(a))

-----------------------------------------------------------------------------
(* Properties. *)

(* What the provider did, or may have done, is never refunded: once the    *)
(* real call has landed, its money is held or paid, through errors, lost   *)
(* answers, restarts and every other call (gateway.py:968).                *)
LandedIsPaidFor == \A a \in Begun : calls[a].landed => a \in Held

(* A rule of the grant that asks for a person is honoured: no such action  *)
(* reaches the provider unless a person approved that very action.         *)
HumanConsent ==
    \A a \in Begun :
        calls[a].landed /\ NeedsApproval(a) => a \in consented

(* A revoked grant is the kill switch (SPEC.md:188): a call that begins    *)
(* after its grant or an ancestor was revoked never holds any money, so it *)
(* is never allowed.                                                       *)
KillSwitch == \A a \in Begun : calls[a].barred => a \notin Held

(* The edge stops what the decision could not know: no action lands whose  *)
(* grant or ancestor was dead or expired when the edge began its checks,   *)
(* although the checks read the store one grant at a time.                 *)
EdgeStopsDead == \A a \in Begun : calls[a].landed => ~calls[a].doomed

(* A refusal costs nothing: once a call is denied, its money is back,      *)
(* unless an error on the way kept it.                                     *)
DenialIsFree ==
    \A a \in Begun :
        At(a, "denied") /\ calls[a].request.cost > 0 /\ ~calls[a].fault => a \notin Held

(* An action waits for a person without holding budget (pdp.py:505).       *)
WaitsWithoutHold ==
    \A a \in Begun : calls[a].pc \in {"gate", "poll"} /\ ~calls[a].fault => a \notin Held

(* The gateway uses the store only through its operations.                 *)
GatewayUsesStore == Spec

(* Every call is answered, or lost with the process.                       *)
CallsEnd == \A a \in ActionIds : Running(a) ~> ~Running(a)

(* SPEC.md:422: when the real call raises, the reservation is released.    *)
ExceptionRefunds ==
    \A a \in Begun : At(a, "unknown") /\ ~calls[a].fault => a \notin Held

(* A revoke handler revokes every grant attenuated from the revoked one,   *)
(* transitively (control.py:340): when it has finished, none is active.    *)
CascadeComplete ==
    [][\A g \in GrantIds : RevokeEnd(g) =>
          \A o \in revoking[g].family : grants[o].status # "ACTIVE"]_callVars
=============================================================================
