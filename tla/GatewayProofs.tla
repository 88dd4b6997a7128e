--------------------------- MODULE GatewayProofs ---------------------------
(***************************************************************************)
(* Theorems about Gateway, for every set of calls, people and operators:   *)
(* it uses the store as it must, a call holds and pays what its place says, *)
(* each call is a ConsequenceOnce of its own, and consent and revocation   *)
(* are honoured.                                                           *)
(***************************************************************************)
EXTENDS Gateway, AuthorityStoreProofs

-----------------------------------------------------------------------------
(* Types. *)

LEMMA CallOf ==
  ASSUME GatewayTypeOK, NEW a \in Begun
  PROVE  a \in ActionIds /\ calls[a] \in Call
  BY DEF GatewayTypeOK, Begun

LEMMA MovedType ==
  ASSUME NEW c \in Call, NEW pc \in Places
  PROVE  /\ Moved(c, pc) \in Call
         /\ Moved(c, pc).pc = pc
         /\ Moved(c, pc).grant = c.grant
         /\ Moved(c, pc).request = c.request
         /\ Moved(c, pc).fault = c.fault
         /\ Moved(c, pc).landed = c.landed
         /\ Moved(c, pc).barred = c.barred
         /\ Moved(c, pc).doomed = c.doomed
         /\ Moved(c, pc).cleared \in {c.cleared, FALSE}
  <1> DEFINE ended == [c EXCEPT !.pc = pc, !.seen = "ACTIVE", !.ts = 0, !.cleared = FALSE,
                                !.at = None, !.since = 0]
             going == [c EXCEPT !.pc = pc]
  <1>1. ended \in Call /\ going \in Call
    BY DEF Call, Statuses
  <1>2. /\ ended.pc = pc /\ ended.grant = c.grant /\ ended.request = c.request
        /\ ended.fault = c.fault /\ ended.landed = c.landed /\ ended.barred = c.barred
        /\ ended.doomed = c.doomed /\ ended.cleared = FALSE
    BY DEF Call
  <1>3. /\ going.pc = pc /\ going.grant = c.grant /\ going.request = c.request
        /\ going.fault = c.fault /\ going.landed = c.landed /\ going.barred = c.barred
        /\ going.doomed = c.doomed /\ going.cleared = c.cleared
    BY DEF Call
  <1>4. Moved(c, pc) = IF pc \in Ended THEN ended ELSE going
    BY DEF Moved
  <1> HIDE DEF ended, going
  <1> QED
    BY <1>1, <1>2, <1>3, <1>4

(* The step of a call rewrites its own row and keeps what it began with.   *)
Own(a) ==
    /\ calls' \in [ActionIds -> Call \cup {None}]
    /\ calls'[a] \in Call
    /\ calls'[a].grant = calls[a].grant
    /\ calls'[a].request = calls[a].request
    /\ calls'[a].barred = calls[a].barred
    /\ \A b \in ActionIds : b # a => calls'[b] = calls[b]

LEMMA BecomeType ==
  ASSUME GatewayTypeOK, NEW a \in ActionIds, NEW call \in Call, Become(a, call)
  PROVE  /\ calls' \in [ActionIds -> Call \cup {None}]
         /\ calls'[a] = call
         /\ \A b \in ActionIds : b # a => calls'[b] = calls[b]
  BY DEF GatewayTypeOK, Become

LEMMA Going ==
  ASSUME GatewayTypeOK, NEW a \in Begun, NEW pc \in Places, Goto(a, pc)
  PROVE  /\ Own(a)
         /\ calls'[a].pc = pc
         /\ calls'[a].fault = calls[a].fault
         /\ calls'[a].landed = calls[a].landed
         /\ calls'[a].doomed = calls[a].doomed
         /\ calls'[a].cleared \in {calls[a].cleared, FALSE}
  <1>1. calls[a] \in Call /\ a \in ActionIds
    BY CallOf
  <1> DEFINE m == Moved(calls[a], pc)
  <1>2. /\ m \in Call /\ m.pc = pc /\ m.cleared \in {calls[a].cleared, FALSE}
        /\ m.grant = calls[a].grant /\ m.request = calls[a].request
        /\ m.barred = calls[a].barred /\ m.doomed = calls[a].doomed
        /\ m.fault = calls[a].fault /\ m.landed = calls[a].landed
    BY <1>1, MovedType
  <1>3. Become(a, m)
    BY DEF Goto
  <1> HIDE DEF m
  <1>4. calls'[a] = m
    BY <1>1, <1>2, <1>3, BecomeType
  <1> QED
    BY <1>1, <1>2, <1>3, <1>4, BecomeType DEF Own

LEMMA Faulting ==
  ASSUME GatewayTypeOK, NEW a \in Begun, NEW pc \in Places, Fault(a, pc)
  PROVE  /\ Own(a)
         /\ calls'[a].pc = pc
         /\ calls'[a].fault
         /\ calls'[a].landed = calls[a].landed
         /\ calls'[a].doomed = calls[a].doomed
         /\ calls'[a].cleared \in {calls[a].cleared, FALSE}
  <1> DEFINE m == Moved(calls[a], pc)
             f == [m EXCEPT !.fault = TRUE]
  <1>1. calls[a] \in Call /\ a \in ActionIds
    BY CallOf
  <1>2. /\ m \in Call /\ m.pc = pc /\ m.cleared \in {calls[a].cleared, FALSE}
        /\ m.grant = calls[a].grant /\ m.request = calls[a].request
        /\ m.barred = calls[a].barred /\ m.doomed = calls[a].doomed
        /\ m.landed = calls[a].landed
    BY <1>1, MovedType
  <1>3. Become(a, f)
    BY DEF Fault
  <1> HIDE DEF m
  <1>4. /\ f \in Call /\ f.pc = m.pc /\ f.cleared = m.cleared /\ f.fault = TRUE
        /\ f.grant = m.grant /\ f.request = m.request /\ f.landed = m.landed
        /\ f.barred = m.barred /\ f.doomed = m.doomed
    BY <1>2 DEF Call
  <1> HIDE DEF f
  <1>5. calls'[a] = f
    BY <1>1, <1>3, <1>4, BecomeType
  <1> QED
    BY <1>1, <1>2, <1>3, <1>4, <1>5, BecomeType DEF Own

LEMMA Landing ==
  ASSUME GatewayTypeOK, NEW a \in Begun, NEW pc \in Places, NEW landed \in BOOLEAN,
         Land(a, pc, landed)
  PROVE  /\ Own(a)
         /\ calls'[a].pc = pc
         /\ calls'[a].fault = calls[a].fault
         /\ calls'[a].landed = landed
         /\ calls'[a].doomed = calls[a].doomed
         /\ calls'[a].cleared \in {calls[a].cleared, FALSE}
  <1> DEFINE m == Moved(calls[a], pc)
             l == [m EXCEPT !.landed = landed]
  <1>1. calls[a] \in Call /\ a \in ActionIds
    BY CallOf
  <1>2. /\ m \in Call /\ m.pc = pc /\ m.cleared \in {calls[a].cleared, FALSE}
        /\ m.grant = calls[a].grant /\ m.request = calls[a].request
        /\ m.barred = calls[a].barred /\ m.doomed = calls[a].doomed
        /\ m.fault = calls[a].fault
    BY <1>1, MovedType
  <1>3. Become(a, l)
    BY DEF Land
  <1> HIDE DEF m
  <1>4. /\ l \in Call /\ l.pc = m.pc /\ l.cleared = m.cleared /\ l.fault = m.fault
        /\ l.grant = m.grant /\ l.request = m.request /\ l.landed = landed
        /\ l.barred = m.barred /\ l.doomed = m.doomed
    BY <1>2 DEF Call
  <1> HIDE DEF l
  <1>5. calls'[a] = l
    BY <1>1, <1>3, <1>4, BecomeType
  <1> QED
    BY <1>1, <1>2, <1>3, <1>4, <1>5, BecomeType DEF Own

LEMMA StepOfBegun ==
  ASSUME NEW a \in ActionIds, CallStep(a)
  PROVE  a \in Begun
  BY DEF CallStep, ScreenPass, ScreenExpired, ScreenDeny, CallReserve, CallNotReserved,
         RulesPass, RulesWait, AppendFails, Mint, MintFails, Gate, PollApproved,
         PollDenied, PollTimeout, Reload, EdgeBegin, EdgeLook, EdgeRefuse,
         CredentialMissing, RealCall, RealCallRaises, Settle, SettleFails, At

(* The grant of a call is in the store for good.                           *)
GrantLoaded == \A a \in Begun : calls[a].grant \in Stored

(* Every step of a call is a step of the store, or leaves it alone, and    *)
(* leaves the control plane alone or only asks for an approval.            *)
LEMMA CallStepTyped ==
  ASSUME GatewayTypeOK, GrantLoaded, NEW a \in ActionIds, CallStep(a)
  PROVE  Own(a) /\ ControlTypeOK' /\ [Next]_storeVars
  <1>1. a \in Begun
    BY StepOfBegun
  <1>2. calls[a] \in Call
    BY <1>1, CallOf
  <1>3. calls[a].grant \in GrantIds /\ calls[a].request.cost \in Charges /\ calls[a].ts \in Nat
    BY <1>2 DEF Call, Request
  <1>4. Charges \subseteq Amounts
    BY DEF Charges
  <1> DEFINE Goal == Own(a) /\ ControlTypeOK' /\ [Next]_storeVars
  <1>5. ASSUME NEW pc \in Places, Quietly(a, pc)
        PROVE  Goal
    BY <1>1, <1>5, Going DEF Quietly, cpVars, ControlTypeOK, GatewayTypeOK
  <1>6. ASSUME NEW pc \in Places, GiveBack(a, pc)
        PROVE  Goal
    <2>1. Own(a)
      BY <1>1, <1>6, Going, Faulting DEF GiveBack
    <2>2. ControlTypeOK'
      BY <1>6 DEF GiveBack, cpVars, ControlTypeOK, GatewayTypeOK
    <2>3. [Next]_storeVars
      BY <1>3, <1>4, <1>6 DEF GiveBack, Next
    <2> QED
      BY <2>1, <2>2, <2>3
  <1>7. ASSUME NEW pc \in Places, Refund(a, pc)
        PROVE  Goal
    BY <1>5, <1>6, <1>7 DEF Refund
  <1>8. CASE ScreenPass(a) \/ ScreenDeny(a) \/ CallNotReserved(a) \/ RulesPass(a)
             \/ Mint(a) \/ PollApproved(a) \/ PollDenied(a) \/ PollTimeout(a)
             \/ SettleFails(a)
    <2>1. \E pc \in Places : Quietly(a, pc)
      BY <1>8 DEF ScreenPass, ScreenDeny, CallNotReserved, RulesPass, Mint, PollApproved,
                  PollDenied, PollTimeout, SettleFails, Places
    <2> QED
      BY <1>5, <2>1
  <1>9. CASE RulesWait(a) \/ EdgeRefuse(a) \/ CredentialMissing(a)
    <2>1. \E pc \in Places : GiveBack(a, pc) \/ Refund(a, pc)
      BY <1>9 DEF RulesWait, EdgeRefuse, CredentialMissing, Places
    <2> QED
      BY <1>6, <1>7, <2>1
  <1>10. CASE AppendFails(a) \/ MintFails(a)
    <2>1. Fault(a, "denied") /\ UNCHANGED <<storeVars, cpVars>>
      BY <1>10 DEF AppendFails, MintFails
    <2> QED
      BY <1>1, <2>1, Faulting DEF cpVars, ControlTypeOK, GatewayTypeOK, Places
  <1>11. CASE ScreenExpired(a)
    <2>1. Own(a)
      BY <1>1, <1>11, Going DEF ScreenExpired, Places
    <2>2. Expire(calls[a].grant)
      BY <1>11 DEF ScreenExpired, Expire, SetStatus
    <2> QED
      BY <1>3, <1>11, <2>1, <2>2
      DEF ScreenExpired, Next, cpVars, ControlTypeOK, GatewayTypeOK
  <1>12. CASE CallReserve(a)
    <2>1. Own(a)
      BY <1>1, <1>12, Going DEF CallReserve, Places
    <2>2. PICK ts \in calls[a].ts..now :
             Reserve(calls[a].grant, a, calls[a].request.cost, None, ts)
      BY <1>12 DEF CallReserve
    <2>3. ts \in 0..now
      BY <1>3 DEF GatewayTypeOK, TypeOK
    <2>4. Next
      BY <1>3, <1>4, <2>2, <2>3 DEF Next
    <2> QED
      BY <1>12, <2>1, <2>4 DEF CallReserve, cpVars, ControlTypeOK, GatewayTypeOK
  <1>13. CASE Gate(a)
    <2>1. Own(a)
      BY <1>1, <1>13, Going DEF Gate, Places
    <2> QED
      BY <1>3, <1>13, <2>1 DEF Gate, CreatePending, ControlTypeOK, GatewayTypeOK
  <1>14. ASSUME NEW call \in Call, Become(a, call), call.grant = calls[a].grant,
                call.request = calls[a].request, call.barred = calls[a].barred,
                UNCHANGED <<storeVars, cpVars>>
         PROVE  Goal
    BY <1>14, BecomeType DEF Own, cpVars, ControlTypeOK, GatewayTypeOK
  <1>15. CASE Reload(a)
    <2> DEFINE call == [calls[a] EXCEPT
                  !.pc = "screen", !.ts = now, !.cleared = TRUE,
                  !.seen = grants[calls[a].grant].status]
    <2>1. grants[calls[a].grant].status \in Statuses
      BY <1>1 DEF GrantLoaded, Stored, GatewayTypeOK, TypeOK, GrantRow
    <2>2. call \in Call /\ call.grant = calls[a].grant /\ call.request = calls[a].request
          /\ call.barred = calls[a].barred
      BY <1>2, <2>1 DEF Call, Places, GatewayTypeOK, TypeOK
    <2> QED
      BY <1>14, <1>15, <2>2 DEF Reload
  <1>16. CASE EdgeBegin(a)
    <2> DEFINE doomed == \E o \in Lineage(calls[a].grant) \cap Stored : Dead(o) \/ Auth(o).expires <= now
               call == [calls[a] EXCEPT !.pc = "walk", !.at = calls[a].grant,
                                        !.since = now, !.doomed = doomed]
    <2>1. Become(a, call) /\ UNCHANGED <<storeVars, cpVars>>
      BY <1>16 DEF EdgeBegin
    <2>2. doomed \in BOOLEAN
      OBVIOUS
    <2> HIDE DEF doomed
    <2>3. call \in Call /\ call.grant = calls[a].grant /\ call.request = calls[a].request
          /\ call.barred = calls[a].barred
      BY <1>2, <1>3, <2>2 DEF Call, Places, GatewayTypeOK, TypeOK
    <2> QED
      BY <1>14, <2>1, <2>3
  <1>17. CASE EdgeLook(a)
    <2> DEFINE g == calls[a].at
               pc == IF NextAncestor(g) = None THEN "dispatch" ELSE "walk"
               call == [calls[a] EXCEPT !.at = NextAncestor(g), !.pc = pc]
    <2>1. Become(a, call) /\ UNCHANGED <<storeVars, cpVars>> /\ g \in Stored
      BY <1>17 DEF EdgeLook
    <2>2. NextAncestor(g) \in GrantIds \cup {None}
      BY <2>1 DEF Stored, GatewayTypeOK, TypeOK, GrantRow, Authority, NextAncestor, Auth
    <2>3. pc \in Places
      BY DEF Places
    <2> HIDE DEF pc
    <2>4. call \in Call /\ call.grant = calls[a].grant /\ call.request = calls[a].request
          /\ call.barred = calls[a].barred
      BY <1>2, <2>2, <2>3 DEF Call
    <2> QED
      BY <1>14, <2>1, <2>4
  <1>18. CASE RealCall(a) \/ RealCallRaises(a)
    BY <1>1, <1>18, Landing DEF RealCall, RealCallRaises, Places, cpVars, ControlTypeOK,
                                GatewayTypeOK
  <1>19. CASE Settle(a)
    <2>1. Own(a)
      BY <1>1, <1>19, Going DEF Settle, Places
    <2>2. Next
      BY <1>3, <1>4, <1>19 DEF Settle, Next
    <2> QED
      BY <1>19, <2>1, <2>2 DEF Settle, cpVars, ControlTypeOK, GatewayTypeOK
  <1> QED
    BY <1>8, <1>9, <1>10, <1>11, <1>12, <1>13, <1>15, <1>16, <1>17, <1>18, <1>19 DEF CallStep

LEMMA ControlTyped ==
  ASSUME GatewayTypeOK, Control
  PROVE  ControlTypeOK' /\ [Next]_storeVars
  <1> USE DEF ControlTypeOK, Verdicts
  <1>0. ControlTypeOK
    BY DEF GatewayTypeOK
  <1>1. ASSUME NEW a \in ActionIds, CheckApprove(a) \/ CheckDeny(a)
        PROVE  ControlTypeOK' /\ UNCHANGED storeVars
    BY <1>0, <1>1 DEF CheckApprove, CheckDeny
  <1>2. ASSUME NEW a \in ActionIds, NEW verdict \in Verdicts, Resolve(a, verdict)
        PROVE  /\ pending' \in [ActionIds -> GrantIds \cup {None}]
               /\ decisions' \in [ActionIds -> Verdicts \cup {None}]
               /\ consented' \subseteq ActionIds
    BY <1>0, <1>2 DEF Resolve
  <1>3. ASSUME NEW a \in ActionIds, NEW verdict \in Verdicts, Judge(a, verdict)
        PROVE  ControlTypeOK' /\ UNCHANGED storeVars
    BY <1>0, <1>2, <1>3 DEF Judge
  <1>4. ASSUME NEW g \in GrantIds, RevokeBegin(g)
        PROVE  ControlTypeOK' /\ Next
    <2>1. Next
      BY <1>4 DEF RevokeBegin, Next
    <2>2. [step |-> "list", family |-> {}, todo |-> {}, waiters |-> {}] \in RevokeHandler
      BY DEF RevokeHandler
    <2> QED
      BY <1>0, <1>4, <2>1, <2>2 DEF RevokeBegin
  <1>5. ASSUME NEW g \in GrantIds, RevokeStep(g)
        PROVE  ControlTypeOK' /\ [Next]_storeVars
    <2>1. revoking[g] \in RevokeHandler
      BY <1>0, <1>5 DEF RevokeStep, RevokeList, RevokeWaiters, RevokeEnd, RevokeChild,
                        RevokeWaiter
    <2>2. Stored \subseteq GrantIds
      BY DEF Stored
    <2>3. CASE RevokeList(g)
      <3> DEFINE h == [revoking[g] EXCEPT !.step = "cascade", !.family = Family(g),
                    !.todo = {o \in Family(g) \ {g} : grants[o].status = "ACTIVE"}]
      <3>1. Family(g) \subseteq GrantIds
        BY <2>2 DEF Family
      <3>2. h \in RevokeHandler
        BY <2>1, <3>1 DEF RevokeHandler
      <3>3. revoking' = [revoking EXCEPT ![g] = h]
        BY <1>0, <2>3 DEF RevokeList
      <3> HIDE DEF h
      <3> QED
        BY <1>0, <2>3, <3>2, <3>3 DEF RevokeList
    <2>4. CASE RevokeWaiters(g)
      <3> DEFINE h == [revoking[g] EXCEPT !.step = "deny",
                    !.waiters = {a \in ActionIds : pending[a] \in revoking[g].family}]
      <3>1. h \in RevokeHandler
        BY <2>1 DEF RevokeHandler
      <3>2. revoking' = [revoking EXCEPT ![g] = h]
        BY <1>0, <2>4 DEF RevokeWaiters
      <3> HIDE DEF h
      <3> QED
        BY <1>0, <2>4, <3>1, <3>2 DEF RevokeWaiters
    <2>5. CASE RevokeEnd(g)
      BY <1>0, <2>5 DEF RevokeEnd
    <2>6. ASSUME NEW o \in GrantIds, RevokeChild(g, o)
          PROVE  ControlTypeOK' /\ Next
      <3> DEFINE h == [revoking[g] EXCEPT !.todo = revoking[g].todo \ {o}]
      <3>1. h \in RevokeHandler
        BY <2>1 DEF RevokeHandler
      <3>2. revoking' = [revoking EXCEPT ![g] = h]
        BY <1>0, <2>6 DEF RevokeChild
      <3>3. Next
        BY <2>6 DEF RevokeChild, Next
      <3> HIDE DEF h
      <3> QED
        BY <1>0, <2>6, <3>1, <3>2, <3>3 DEF RevokeChild
    <2>7. ASSUME NEW a \in ActionIds, RevokeWaiter(g, a)
          PROVE  ControlTypeOK' /\ UNCHANGED storeVars
      <3> DEFINE h == [revoking[g] EXCEPT !.waiters = revoking[g].waiters \ {a}]
      <3>1. h \in RevokeHandler
        BY <2>1 DEF RevokeHandler
      <3>2. revoking' = [revoking EXCEPT ![g] = h]
        BY <1>0, <2>7 DEF RevokeWaiter
      <3> HIDE DEF h
      <3> QED
        BY <1>0, <1>2, <2>7, <3>1, <3>2 DEF RevokeWaiter
    <2> QED
      BY <1>5, <2>3, <2>4, <2>5, <2>6, <2>7 DEF RevokeStep
  <1>6. Revocable \subseteq GrantIds
    BY GatewayAssumption
  <1> QED
    BY <1>1, <1>3, <1>4, <1>5, <1>6 DEF Control

(* Every step keeps the types, and does to the store what the store may.   *)
LEMMA CallsTyped ==
  ASSUME GatewayTypeOK, GrantLoaded, GatewayNext
  PROVE  calls' \in [ActionIds -> Call \cup {None}] /\ ControlTypeOK' /\ [Next]_storeVars
  <1>1. CASE Environment
    <2>1. Next
      BY <1>1 DEF Environment, Next
    <2> QED
      BY <1>1, <2>1 DEF Environment, cpVars, GatewayTypeOK, ControlTypeOK
  <1>2. CASE Control
    BY <1>2, ControlTyped DEF Control, GatewayTypeOK
  <1>3. CASE Restart
    <2>1. ASSUME NEW a \in ActionIds
          PROVE  calls'[a] \in Call \cup {None}
      <3>1. calls'[a] = IF Running(a) THEN Moved(calls[a], "lost") ELSE calls[a]
        BY <1>3 DEF Restart
      <3>2. ASSUME Running(a) PROVE Moved(calls[a], "lost") \in Call
        <4>1. calls[a] \in Call /\ "lost" \in Places
          BY <3>2, CallOf DEF Running, Places
        <4> QED
          BY <4>1, MovedType
      <3> QED
        BY <3>1, <3>2 DEF GatewayTypeOK
    <2>2. calls' \in [ActionIds -> Call \cup {None}]
      BY <1>3, <2>1 DEF Restart
    <2> QED
      BY <1>3, <2>2 DEF Restart, ControlRestart, ControlTypeOK, GatewayTypeOK
  <1>4. ASSUME NEW a \in ActionIds, NEW g \in Tokens, NEW request \in Requests,
               CallTool(a, g, request)
        PROVE  calls' \in [ActionIds -> Call \cup {None}] /\ ControlTypeOK'
               /\ UNCHANGED storeVars
    <2> DEFINE barred == \E o \in Lineage(g) \cap Stored : grants[o].status = "REVOKED"
               call ==
                 [pc |-> "screen", grant |-> g, request |-> request, seen |-> grants[g].status,
                  ts |-> now, cleared |-> FALSE, at |-> None, since |-> 0, fault |-> FALSE,
                  barred |-> barred, doomed |-> FALSE, landed |-> FALSE]
    <2>1. Become(a, call) /\ UNCHANGED <<storeVars, cpVars>> /\ g \in Stored
      BY <1>4 DEF CallTool
    <2>2. barred \in BOOLEAN
      OBVIOUS
    <2>3. grants[g].status \in Statuses /\ now \in Nat /\ g \in GrantIds
      BY <2>1 DEF GatewayTypeOK, TypeOK, Stored, GrantRow
    <2>4. request \in Request
      BY GatewayAssumption
    <2> HIDE DEF barred
    <2>5. call \in Call
      BY <2>2, <2>3, <2>4 DEF Call, Places
    <2> HIDE DEF call
    <2> QED
      BY <2>1, <2>5, BecomeType DEF cpVars, ControlTypeOK, GatewayTypeOK
  <1>5. ASSUME NEW a \in ActionIds, CallStep(a)
        PROVE  calls' \in [ActionIds -> Call \cup {None}] /\ ControlTypeOK'
               /\ [Next]_storeVars
    BY <1>5, CallStepTyped DEF Own
  <1> QED
    BY <1>1, <1>2, <1>3, <1>4, <1>5 DEF GatewayNext

(* What a step does to one call: nothing, its own step, its beginning, or  *)
(* its loss in a restart.                                                  *)
Untouched(a) == calls'[a] = calls[a]
Begins(a) == \E g \in Tokens, request \in Requests : CallTool(a, g, request)
IsLost(a) == Restart /\ Running(a) /\ calls'[a] = Moved(calls[a], "lost")

LEMMA OneCall ==
  ASSUME GatewayTypeOK, GrantLoaded, [GatewayNext]_callVars, NEW a \in ActionIds
  PROVE  Untouched(a) \/ CallStep(a) \/ Begins(a) \/ IsLost(a)
  <1>1. CASE UNCHANGED callVars
    BY <1>1 DEF callVars, Untouched
  <1>2. CASE Environment \/ Control
    BY <1>2 DEF Environment, Control, Untouched
  <1>3. CASE Restart
    BY <1>3 DEF Restart, Untouched, IsLost
  <1>4. ASSUME NEW b \in ActionIds, NEW g \in Tokens, NEW request \in Requests,
               CallTool(b, g, request)
        PROVE  Untouched(a) \/ Begins(a)
    <2>1. CASE a = b
      BY <1>4, <2>1 DEF Begins
    <2>2. CASE a # b
      BY <1>4, <2>2 DEF CallTool, Become, Untouched, GatewayTypeOK
    <2> QED
      BY <2>1, <2>2
  <1>5. ASSUME NEW b \in ActionIds, CallStep(b)
        PROVE  Untouched(a) \/ CallStep(a)
    <2>1. Own(b)
      BY <1>5, CallStepTyped
    <2> QED
      BY <1>5, <2>1 DEF Own, Untouched
  <1> QED
    BY <1>1, <1>2, <1>3, <1>4, <1>5 DEF GatewayNext

(* A grant with a dead ancestor, or dead itself.                           *)
Withdrawn(g) == \E o \in Lineage(g) \cap Stored : Dead(o)

LEMMA BeginsAs ==
  ASSUME GatewayTypeOK, NEW a \in ActionIds, Begins(a)
  PROVE  /\ calls[a] = None
         /\ calls'[a] \in Call
         /\ calls'[a].grant \in Stored
         /\ calls'[a].pc = "screen"
         /\ ~calls'[a].cleared /\ ~calls'[a].fault /\ ~calls'[a].landed /\ ~calls'[a].doomed
         /\ calls'[a].barred => Withdrawn(calls'[a].grant)
         /\ UNCHANGED <<storeVars, cpVars>>
  <1>1. PICK g \in Tokens, request \in Requests : CallTool(a, g, request)
    BY DEF Begins
  <1> DEFINE barred == \E o \in Lineage(g) \cap Stored : grants[o].status = "REVOKED"
             call ==
               [pc |-> "screen", grant |-> g, request |-> request, seen |-> grants[g].status,
                ts |-> now, cleared |-> FALSE, at |-> None, since |-> 0, fault |-> FALSE,
                barred |-> barred, doomed |-> FALSE, landed |-> FALSE]
  <1>2. /\ calls[a] = None /\ Become(a, call) /\ g \in Stored
        /\ UNCHANGED <<storeVars, cpVars>>
    BY <1>1 DEF CallTool
  <1>3. barred \in BOOLEAN
    OBVIOUS
  <1>4. /\ grants[g].status \in Statuses /\ now \in Nat /\ g \in GrantIds
        /\ request \in Request
    BY <1>2, GatewayAssumption DEF GatewayTypeOK, TypeOK, Stored, GrantRow
  <1> HIDE DEF barred
  <1>5. call \in Call
    BY <1>3, <1>4 DEF Call, Places
  <1>6. /\ call.grant = g /\ call.pc = "screen"
        /\ ~call.cleared /\ ~call.fault /\ ~call.landed /\ ~call.doomed
        /\ call.barred = barred
    OBVIOUS
  <1>8. barred => Withdrawn(g)
    BY DEF Withdrawn, Dead, barred
  <1> HIDE DEF call
  <1>7. calls'[a] = call
    BY <1>2, <1>5, BecomeType
  <1> QED
    BY <1>2, <1>5, <1>6, <1>7, <1>8

LEMMA LostAs ==
  ASSUME GatewayTypeOK, NEW a \in ActionIds, IsLost(a)
  PROVE  /\ a \in Begun
         /\ calls'[a] \in Call
         /\ calls'[a].grant = calls[a].grant
         /\ calls'[a].request = calls[a].request
         /\ calls'[a].pc = "lost"
         /\ calls'[a].barred = calls[a].barred
         /\ calls'[a].landed = calls[a].landed
         /\ calls'[a].doomed = calls[a].doomed
         /\ calls'[a].cleared \in {calls[a].cleared, FALSE}
         /\ UNCHANGED <<storeVars, consented>>
  <1>1. a \in Begun /\ calls'[a] = Moved(calls[a], "lost") /\ Restart
    BY DEF IsLost, Running
  <1>2. calls[a] \in Call /\ "lost" \in Places
    BY <1>1, CallOf DEF Places
  <1>3. UNCHANGED <<storeVars, consented>>
    BY <1>1 DEF Restart, ControlRestart
  <1>4. PICK c \in Call, pc \in Places : c = calls[a] /\ pc = "lost"
    BY <1>2
  <1>5. /\ Moved(c, pc) \in Call /\ Moved(c, pc).pc = pc
        /\ Moved(c, pc).grant = c.grant /\ Moved(c, pc).request = c.request
        /\ Moved(c, pc).landed = c.landed /\ Moved(c, pc).barred = c.barred
        /\ Moved(c, pc).doomed = c.doomed /\ Moved(c, pc).cleared \in {c.cleared, FALSE}
    BY MovedType
  <1> QED
    BY <1>1, <1>3, <1>4, <1>5

LEMMA LoadedStep ==
  ASSUME GatewayTypeOK, GrantLoaded, [GatewayNext]_callVars, [Next]_storeVars
  PROVE  GrantLoaded'
  <1>1. ASSUME NEW o \in Stored PROVE o \in Stored'
    <2>1. CASE Next
      BY <2>1, StoredGrantStep DEF GatewayTypeOK
    <2>2. CASE UNCHANGED storeVars
      BY <1>1, <2>2 DEF storeVars, Stored
    <2> QED
      BY <2>1, <2>2
  <1>2. ASSUME NEW a \in ActionIds, calls'[a] # None
        PROVE  calls'[a].grant \in Stored'
    <2>1. CASE Untouched(a)
      BY <1>1, <1>2, <2>1 DEF Untouched, GrantLoaded, Begun
    <2>2. CASE CallStep(a)
      <3>1. Own(a) /\ a \in Begun
        BY <2>2, CallStepTyped, StepOfBegun
      <3> QED
        BY <1>1, <3>1 DEF Own, GrantLoaded
    <2>3. CASE Begins(a)
      BY <1>1, <2>3, BeginsAs
    <2>4. CASE IsLost(a)
      BY <1>1, <2>4, LostAs DEF GrantLoaded
    <2> QED
      BY <2>1, <2>2, <2>3, <2>4, OneCall
  <1> QED
    BY <1>2 DEF GrantLoaded, Begun

LEMMA GatewayStep ==
  ASSUME GatewayTypeOK, GrantLoaded, [GatewayNext]_callVars
  PROVE  GatewayTypeOK' /\ GrantLoaded' /\ [Next]_storeVars
  <1>1. /\ calls' \in [ActionIds -> Call \cup {None}] /\ ControlTypeOK'
        /\ [Next]_storeVars
    <2>1. CASE GatewayNext
      BY <2>1, CallsTyped
    <2>2. CASE UNCHANGED callVars
      BY <2>2 DEF callVars, cpVars, ControlTypeOK, GatewayTypeOK
    <2> QED
      BY <2>1, <2>2
  <1>2. TypeOK'
    <2>1. CASE Next
      BY <2>1, NextTyped DEF GatewayTypeOK
    <2>2. CASE UNCHANGED storeVars
      BY <2>2 DEF storeVars, TypeOK, GatewayTypeOK
    <2> QED
      BY <1>1, <2>1, <2>2
  <1> QED
    BY <1>1, <1>2, LoadedStep DEF GatewayTypeOK

LEMMA GatewayStart == GatewayInit => GatewayTypeOK /\ GrantLoaded
  <1> SUFFICES ASSUME GatewayInit
               PROVE  GatewayTypeOK /\ GrantLoaded
    OBVIOUS
  <1>1. TypeOK
    BY DEF GatewayInit, Init, TypeOK
  <1> QED
    BY <1>1 DEF GatewayInit, ControlInit, ControlTypeOK, GatewayTypeOK, GrantLoaded, Begun

(* Every call, approval and handler is well formed in every reachable      *)
(* state, and the grant of a call stays in the store.                      *)
THEOREM GatewayTypeCorrect == GatewaySpec => [](GatewayTypeOK /\ GrantLoaded)
  <1>1. GatewayTypeOK /\ GrantLoaded /\ [GatewayNext]_callVars
           => (GatewayTypeOK /\ GrantLoaded)'
    BY GatewayStep
  <1> QED
    BY <1>1, GatewayStart, PTL DEF GatewaySpec

(* The gateway, its calls, people, operators and crashes use the store     *)
(* only as AuthorityStore allows, so all that is proved of the store holds *)
(* under them.                                                             *)
THEOREM GatewayIsStore == GatewaySpec => GatewayUsesStore
  <1>1. GatewayInit => Init
    BY DEF GatewayInit
  <1>2. GatewayTypeOK /\ GrantLoaded /\ [GatewayNext]_callVars => [Next]_storeVars
    BY GatewayStep
  <1> QED
    BY <1>1, <1>2, GatewayTypeCorrect, PTL DEF GatewaySpec, GatewayUsesStore, Spec

(* What is proved of the store, of the gateway.                            *)
COROLLARY GatewayMoney ==
  GatewaySpec => /\ [](BudgetConservation /\ NoOverspend /\ RateCeiling)
                 /\ [](ChargedLineageClosed /\ ChargesNoWider /\ SubtreeWithinLimit)
                 /\ DeadStaysDead /\ SettledOnce /\ NothingChargedToLapsed
                 /\ Escrow!Spec
  BY GatewayIsStore, StoreIsSafe, PTL DEF GatewayUsesStore

-----------------------------------------------------------------------------
(* Holds.  What a call holds follows from where it is. *)

Holding == {"rules", "mint", "edge", "walk", "dispatch", "called"}
Empty == {"screen", "reserve", "gate", "poll", "reload"}

HoldLaw(a) ==
    /\ calls[a] = None => a \notin Held
    /\ a \in Begun =>
         /\ calls[a].pc \in Holding => a \in Held
         /\ calls[a].pc = "called" => calls[a].landed
         /\ calls[a].landed =>
              a \in Held /\ calls[a].pc \in {"called", "allowed", "unknown", "lost"}
         /\ calls[a].pc \in Empty /\ ~calls[a].fault => a \notin Held
         /\ calls[a].pc = "denied" /\ calls[a].request.cost > 0 /\ ~calls[a].fault =>
              a \notin Held

HoldInv == \A a \in ActionIds : HoldLaw(a)

(* A step of a call touches no other reservation than its own, and how its *)
(* own fares depends on where it goes.                                     *)
LEMMA GiveBackHolds ==
  ASSUME GatewayTypeOK, NEW a \in Begun, NEW pc \in Places, GiveBack(a, pc)
  PROVE  /\ Own(a)
         /\ calls'[a].pc = pc
         /\ calls'[a].landed = calls[a].landed
         /\ calls'[a].doomed = calls[a].doomed
         /\ calls'[a].cleared \in {calls[a].cleared, FALSE}
         /\ \/ Held' = Held \ {a} /\ calls'[a].fault = calls[a].fault
            \/ Held' = Held /\ calls'[a].fault
  <1>1. /\ calls[a] \in Call /\ a \in ActionIds
        /\ calls[a].grant \in GrantIds /\ calls[a].request.cost \in Amounts
    BY CallOf DEF Call, Request, Charges
  <1>2. CASE Release(calls[a].grant, a, calls[a].request.cost) /\ Goto(a, pc)
    BY <1>1, <1>2, Going, ReleaseFrees DEF GatewayTypeOK
  <1>3. CASE Fault(a, pc) /\ UNCHANGED storeVars
    <2>1. Held' = Held
      BY <1>3 DEF storeVars, Held
    <2> QED
      BY <1>3, <2>1, Faulting
  <1> QED
    BY <1>2, <1>3 DEF GiveBack

(* The steps that rewrite more of a call than its place.                   *)
LEMMA Rewriting ==
  ASSUME GatewayTypeOK, GrantLoaded, NEW a \in ActionIds,
         Reload(a) \/ EdgeBegin(a) \/ EdgeLook(a)
  PROVE  /\ calls'[a].fault = calls[a].fault
         /\ calls'[a].landed = calls[a].landed
         /\ UNCHANGED <<storeVars, cpVars>>
         /\ Reload(a) => calls[a].pc = "reload" /\ calls'[a].pc = "screen"
         /\ ~Reload(a) =>
               /\ calls'[a].cleared = calls[a].cleared
               /\ calls[a].pc \in {"edge", "walk"} /\ calls'[a].pc \in {"walk", "dispatch"}
  <1>0. calls[a] \in Call
    BY CallOf DEF Reload, EdgeBegin, EdgeLook, At
  <1>1. CASE Reload(a)
    BY <1>0, <1>1 DEF Reload, At, Become, Call, GatewayTypeOK
  <1>2. CASE EdgeBegin(a)
    <2> DEFINE doomed == \E o \in Lineage(calls[a].grant) \cap Stored : Dead(o) \/ Auth(o).expires <= now
    <2>1. calls'[a] = [calls[a] EXCEPT !.pc = "walk", !.at = calls[a].grant,
                                       !.since = now, !.doomed = doomed]
      BY <1>2 DEF EdgeBegin, Become, GatewayTypeOK
    <2> HIDE DEF doomed
    <2>2. ~Reload(a)
      BY <1>2 DEF EdgeBegin, Reload, At
    <2> QED
      BY <1>0, <1>2, <2>1, <2>2 DEF EdgeBegin, At, Call
  <1>3. CASE EdgeLook(a)
    <2> DEFINE next == NextAncestor(calls[a].at)
               pc == IF next = None THEN "dispatch" ELSE "walk"
    <2>1. calls'[a] = [calls[a] EXCEPT !.at = next, !.pc = pc]
      BY <1>3 DEF EdgeLook, Become, GatewayTypeOK
    <2>2. pc \in {"walk", "dispatch"}
      OBVIOUS
    <2> HIDE DEF next, pc
    <2>3. ~Reload(a)
      BY <1>3 DEF EdgeLook, Reload, At
    <2> QED
      BY <1>0, <1>3, <2>1, <2>2, <2>3 DEF EdgeLook, At, Call
  <1> QED
    BY <1>1, <1>2, <1>3

LEMMA HoldStep ==
  ASSUME GatewayTypeOK, GrantLoaded, HoldInv, NEW a \in ActionIds, CallStep(a)
  PROVE  HoldLaw(a)' /\ Held' \ {a} = Held \ {a}
  <1> DEFINE Goal == HoldLaw(a)' /\ Held' \ {a} = Held \ {a}
  <1> USE DEF Holding, Empty, Places
  <1>0. a \in Begun /\ calls[a] \in Call /\ HoldLaw(a) /\ calls[a] # None
    BY StepOfBegun, CallOf DEF HoldInv, Begun
  <1>1. /\ calls[a].grant \in GrantIds /\ calls[a].request.cost \in Amounts
        /\ calls[a].request.cost >= 0 /\ calls[a].ts \in Nat /\ Charges \subseteq Amounts
        /\ calls[a].landed \in BOOLEAN /\ calls[a].fault \in BOOLEAN
    BY <1>0 DEF Call, Request, Charges
  <1>2. Own(a)
    BY CallStepTyped
  <1>3. calls'[a] # None /\ calls'[a] \in Call
        /\ calls'[a].request.cost = calls[a].request.cost
    BY <1>2, GatewayAssumption DEF Own
  <1>4. ASSUME NEW pc \in Places, Quietly(a, pc)
        PROVE  /\ calls'[a].pc = pc /\ calls'[a].fault = calls[a].fault
               /\ calls'[a].landed = calls[a].landed
               /\ Held' = Held
    BY <1>0, <1>4, Going DEF Quietly, storeVars, Held
  <1>5. CASE ScreenPass(a) \/ ScreenDeny(a)
    BY <1>0, <1>1, <1>3, <1>4, <1>5 DEF ScreenPass, ScreenDeny, At, HoldLaw, Begun
  <1>6. CASE CallNotReserved(a)
    BY <1>0, <1>1, <1>3, <1>4, <1>6 DEF CallNotReserved, At, HoldLaw, Begun
  <1>7. CASE RulesPass(a) \/ Mint(a)
    BY <1>0, <1>1, <1>3, <1>4, <1>7 DEF RulesPass, Mint, At, HoldLaw, Begun
  <1>8. CASE PollApproved(a) \/ PollDenied(a) \/ PollTimeout(a)
    BY <1>0, <1>1, <1>3, <1>4, <1>8 DEF PollApproved, PollDenied, PollTimeout, At, HoldLaw, Begun
  <1>9. CASE SettleFails(a)
    BY <1>0, <1>1, <1>3, <1>4, <1>9 DEF SettleFails, At, HoldLaw, Begun
  <1>10. ASSUME Held' = Held, calls'[a].pc = "denied", calls'[a].fault,
                calls'[a].landed = calls[a].landed, calls[a].pc \in {"mint", "gate"}
         PROVE  Goal
    BY <1>0, <1>1, <1>3, <1>10 DEF HoldLaw, Begun
  <1>11. CASE AppendFails(a) \/ MintFails(a)
    <2>1. /\ Fault(a, "denied") /\ UNCHANGED storeVars
          /\ calls[a].pc \in {"mint", "gate"}
      BY <1>11 DEF AppendFails, MintFails, At
    <2>2. Held' = Held
      BY <2>1 DEF storeVars, Held
    <2> QED
      BY <1>0, <1>10, <2>1, <2>2, Faulting
  <1>12. ASSUME NEW pc \in {"gate", "denied"}, GiveBack(a, pc), ~calls[a].landed
         PROVE  Goal
    <2>1. a \in Held => calls'[a].fault \/ a \notin Held'
      BY <1>0, <1>12, GiveBackHolds
    <2> QED
      BY <1>0, <1>1, <1>3, <1>12, <2>1, GiveBackHolds DEF HoldLaw, Begun
  <1>13. CASE RulesWait(a)
    <2>1. GiveBack(a, "gate") /\ ~calls[a].landed
      BY <1>0, <1>13 DEF RulesWait, At, HoldLaw
    <2> QED
      BY <1>12, <2>1
  <1>14. CASE EdgeRefuse(a) \/ CredentialMissing(a)
    <2>1. Refund(a, "denied") /\ ~calls[a].landed
      BY <1>0, <1>14 DEF EdgeRefuse, CredentialMissing, At, HoldLaw
    <2>2. CASE calls[a].request.cost > 0
      BY <1>12, <2>1, <2>2 DEF Refund
    <2>3. CASE ~(calls[a].request.cost > 0)
      <3>1. Quietly(a, "denied")
        BY <2>1, <2>3 DEF Refund
      <3> QED
        BY <1>0, <1>1, <1>3, <1>4, <2>1, <2>3, <3>1 DEF HoldLaw, Begun
    <2> QED
      BY <2>2, <2>3
  <1>15. CASE ScreenExpired(a) \/ Gate(a)
    <2>1. PICK pc \in {"denied", "poll"} : Goto(a, pc)
      BY <1>15 DEF ScreenExpired, Gate
    <2>2. Held' = Held /\ calls[a].pc \in {"screen", "gate"}
      BY <1>15 DEF ScreenExpired, Gate, SetStatus, Held, storeVars, At
    <2> QED
      BY <1>0, <1>1, <1>3, <2>1, <2>2, Going DEF HoldLaw, Begun
  <1>16. CASE CallReserve(a)
    <2>1. PICK ts \in calls[a].ts..now :
             Reserve(calls[a].grant, a, calls[a].request.cost, None, ts)
      BY <1>16 DEF CallReserve
    <2>2. ts \in Nat
      BY <1>1 DEF GatewayTypeOK, TypeOK
    <2>3. Held' = Held \cup {a}
      BY <1>1, <2>1, <2>2, ReserveHolds DEF GatewayTypeOK
    <2>4. Goto(a, "rules") /\ calls[a].pc = "reserve"
      BY <1>16 DEF CallReserve, At
    <2> QED
      BY <1>0, <1>1, <1>3, <2>3, <2>4, Going DEF HoldLaw, Begun
  <1>17. CASE Reload(a) \/ EdgeBegin(a) \/ EdgeLook(a)
    <2>1. Held' = Held
      BY <1>17, Rewriting DEF storeVars, Held
    <2> QED
      BY <1>0, <1>1, <1>3, <1>17, <2>1, Rewriting DEF HoldLaw, Begun
  <1>18. CASE RealCall(a) \/ RealCallRaises(a)
    <2>1. PICK pc \in {"called", "unknown"}, landed \in BOOLEAN :
             Land(a, pc, landed) /\ (pc = "called" => landed)
      BY <1>18 DEF RealCall, RealCallRaises
    <2>2. Held' = Held /\ calls[a].pc = "dispatch"
      BY <1>18 DEF RealCall, RealCallRaises, Held, storeVars, At
    <2> QED
      BY <1>0, <1>1, <1>3, <2>1, <2>2, Landing DEF HoldLaw, Begun
  <1>19. CASE Settle(a)
    <2>1. PICK actual \in Charges :
             Commit(calls[a].grant, a, actual, calls[a].request.cost)
      BY <1>19 DEF Settle
    <2>2. Held' = Held
      BY <1>1, <2>1, CommitHolds DEF GatewayTypeOK
    <2>3. Goto(a, "allowed") /\ calls[a].pc = "called"
      BY <1>19 DEF Settle, At
    <2> QED
      BY <1>0, <1>1, <1>3, <2>2, <2>3, Going DEF HoldLaw, Begun
  <1> QED
    BY <1>5, <1>6, <1>7, <1>8, <1>9, <1>11, <1>13, <1>14, <1>15, <1>16, <1>17, <1>18, <1>19
    DEF CallStep

(* Only the step of a call changes whether it holds.                       *)
LEMMA HeldByOwnStep ==
  ASSUME GatewayTypeOK, GrantLoaded, HoldInv, [GatewayNext]_callVars, NEW a \in ActionIds,
         ~CallStep(a)
  PROVE  a \in Held' <=> a \in Held
  <1>1. ASSUME UNCHANGED rateEvents
        PROVE  a \in Held' <=> a \in Held
    BY <1>1 DEF Held
  <1>2. CASE Environment
    BY <1>1, <1>2 DEF Environment, Tick, PutGrant, InsertGrant, AttachSignature
  <1>3. CASE Control
    <2>1. UNCHANGED rateEvents
      BY <1>3 DEF Control, CheckApprove, CheckDeny, Judge, RevokeBegin, RevokeStep,
                  RevokeList, RevokeWaiters, RevokeEnd, RevokeChild, RevokeWaiter, Revoke,
                  SetStatus, storeVars
    <2> QED
      BY <1>1, <2>1
  <1>4. CASE Restart \/ UNCHANGED callVars
    BY <1>1, <1>4 DEF Restart, callVars, storeVars
  <1>5. CASE \E b \in ActionIds, g \in Tokens, request \in Requests : CallTool(b, g, request)
    BY <1>1, <1>5 DEF CallTool, storeVars
  <1>6. ASSUME NEW b \in ActionIds, CallStep(b)
        PROVE  a \in Held' <=> a \in Held
    BY <1>6, HoldStep
  <1> QED
    BY <1>2, <1>3, <1>4, <1>5, <1>6 DEF GatewayNext

LEMMA HoldInvStep ==
  ASSUME GatewayTypeOK, GrantLoaded, HoldInv, [GatewayNext]_callVars
  PROVE  HoldInv'
  <1> SUFFICES ASSUME NEW a \in ActionIds
               PROVE  HoldLaw(a)'
    BY DEF HoldInv
  <1>1. HoldLaw(a)
    BY DEF HoldInv
  <1>2. CASE CallStep(a)
    BY <1>2, HoldStep
  <1>3. CASE ~CallStep(a) /\ Untouched(a)
    BY <1>1, <1>3, HeldByOwnStep DEF Untouched, HoldLaw, Begun
  <1>4. CASE ~CallStep(a) /\ Begins(a)
    BY <1>1, <1>4, HeldByOwnStep, BeginsAs, GatewayAssumption
    DEF HoldLaw, Begun, Holding, Empty
  <1>5. CASE ~CallStep(a) /\ IsLost(a)
    BY <1>1, <1>5, HeldByOwnStep, LostAs, GatewayAssumption
    DEF HoldLaw, Begun, Holding, Empty
  <1> QED
    BY <1>2, <1>3, <1>4, <1>5, OneCall

LEMMA HoldSafe == GatewaySpec => []HoldInv
  <1>1. GatewayInit => HoldInv
    BY DEF GatewayInit, Init, HoldInv, HoldLaw, Begun, Held
  <1>2. GatewayTypeOK /\ GrantLoaded /\ HoldInv /\ [GatewayNext]_callVars => HoldInv'
    BY HoldInvStep
  <1> QED
    BY <1>1, <1>2, GatewayTypeCorrect, PTL DEF GatewaySpec

(* What a provider did is held or paid, through every error and restart.   *)
THEOREM NoRefundAfterLanding == GatewaySpec => []LandedIsPaidFor
  <1>1. HoldInv => LandedIsPaidFor
    BY DEF HoldInv, HoldLaw, LandedIsPaidFor, Begun
  <1> QED
    BY <1>1, HoldSafe, PTL

(* A denied call has its money back unless an error kept it.               *)
THEOREM RefusalsAreFree == GatewaySpec => []DenialIsFree
  <1>1. HoldInv => DenialIsFree
    BY DEF HoldInv, HoldLaw, DenialIsFree, Begun, At
  <1> QED
    BY <1>1, HoldSafe, PTL

(* A call that waits for a person holds nothing unless an error kept it.   *)
THEOREM WaitersHoldNothing == GatewaySpec => []WaitsWithoutHold
  <1>1. HoldInv => WaitsWithoutHold
    BY DEF HoldInv, HoldLaw, WaitsWithoutHold, Begun, Empty
  <1> QED
    BY <1>1, HoldSafe, PTL

-----------------------------------------------------------------------------
(* A call is a consequence of its own: the hold owns it, the real call is  *)
(* its dispatch, and the commit is its end.  An answer that never came     *)
(* leaves it in flight for good.                                           *)

CallPhase(a) ==
    CASE a \notin Begun -> "free"
      [] a \in Begun /\ calls[a].pc = "allowed" -> "done"
      [] a \in Begun /\ calls[a].pc # "allowed"
            /\ (calls[a].landed \/ calls[a].pc \in {"called", "unknown"}) -> "inflight"
      [] OTHER -> IF a \in Held THEN "owned" ELSE "free"

callBar == [a \in ActionIds |-> CallPhase(a)]

CallOnce == INSTANCE ConsequenceOnce WITH EffectIds <- ActionIds, phase <- callBar

PhaseMoves ==
    {<<"free", "owned">>, <<"owned", "free">>, <<"owned", "inflight">>, <<"inflight", "done">>}

(* The phase of a call that is not yet at the provider.                    *)
LEMMA EarlyPhase ==
  ASSUME NEW a \in Begun, ~calls[a].landed,
         calls[a].pc \notin {"called", "unknown", "allowed"}
  PROVE  CallPhase(a) = IF a \in Held THEN "owned" ELSE "free"
  BY DEF CallPhase

LEMMA CallPhaseStep ==
  ASSUME GatewayTypeOK, GrantLoaded, HoldInv, NEW a \in ActionIds, CallStep(a)
  PROVE  CallPhase(a)' = CallPhase(a) \/ <<CallPhase(a), CallPhase(a)'>> \in PhaseMoves
  <1> DEFINE Goal == CallPhase(a)' = CallPhase(a) \/ <<CallPhase(a), CallPhase(a)'>> \in PhaseMoves
             Late == {"called", "unknown", "allowed"}
  <1> USE DEF Holding, Empty, Places
  <1>0. a \in Begun /\ calls[a] \in Call /\ HoldLaw(a) /\ HoldLaw(a)' /\ calls[a] # None
    BY StepOfBegun, CallOf, HoldStep DEF HoldInv, Begun
  <1>1. /\ calls[a].grant \in GrantIds /\ calls[a].request.cost \in Amounts
        /\ calls[a].request.cost >= 0 /\ calls[a].ts \in Nat /\ Charges \subseteq Amounts
        /\ calls[a].landed \in BOOLEAN
    BY <1>0 DEF Call, Request, Charges
  <1>2. a \in Begun'
    <2>1. calls'[a] \in Call
      BY CallStepTyped DEF Own
    <2> QED
      BY <2>1, GatewayAssumption DEF Begun
  (* Before the provider, whatever happens to the hold is its phase.       *)
  <1>3. ASSUME ~calls[a].landed, calls[a].pc \notin Late,
               ~calls'[a].landed, calls'[a].pc \notin Late
        PROVE  Goal
    <2>1. CallPhase(a) = IF a \in Held THEN "owned" ELSE "free"
      BY <1>0, <1>3, EarlyPhase
    <2>2. CallPhase(a)' = IF a \in Held' THEN "owned" ELSE "free"
      BY <1>2, <1>3 DEF CallPhase
    <2> QED
      BY <2>1, <2>2 DEF PhaseMoves
  <1>4. ASSUME NEW pc \in Places \ Late, Quietly(a, pc) \/ Goto(a, pc) \/ Fault(a, pc),
               calls[a].pc \notin Late, ~calls[a].landed
        PROVE  Goal
    <2>1. calls'[a].pc = pc /\ calls'[a].landed = calls[a].landed
      BY <1>0, <1>4, Going, Faulting DEF Quietly
    <2> QED
      BY <1>3, <1>4, <2>1
  <1>5. calls[a].pc \notin Late => ~calls[a].landed \/ calls[a].pc = "lost"
    BY <1>0 DEF HoldLaw
  <1>6. CASE \/ ScreenPass(a) \/ ScreenExpired(a) \/ ScreenDeny(a) \/ CallNotReserved(a)
             \/ RulesPass(a) \/ AppendFails(a) \/ Mint(a) \/ MintFails(a) \/ Gate(a)
             \/ PollApproved(a) \/ PollDenied(a) \/ PollTimeout(a) \/ CallReserve(a)
    <2>1. calls[a].pc \notin Late \cup {"lost"}
      BY <1>6 DEF ScreenPass, ScreenExpired, ScreenDeny, CallNotReserved, RulesPass, AppendFails,
                  Mint, MintFails, Gate, PollApproved, PollDenied, PollTimeout, CallReserve, At
    <2>2. \E pc \in Places \ Late : Quietly(a, pc) \/ Goto(a, pc) \/ Fault(a, pc)
      BY <1>6 DEF ScreenPass, ScreenExpired, ScreenDeny, CallNotReserved, RulesPass, AppendFails,
                  Mint, MintFails, Gate, PollApproved, PollDenied, PollTimeout, CallReserve
    <2> QED
      BY <1>4, <1>5, <2>1, <2>2
  <1>7. CASE RulesWait(a) \/ EdgeRefuse(a) \/ CredentialMissing(a)
    <2>1. calls[a].pc \notin Late \cup {"lost"}
      BY <1>7 DEF RulesWait, EdgeRefuse, CredentialMissing, At
    <2>2. PICK pc \in {"gate", "denied"} : GiveBack(a, pc) \/ Quietly(a, pc)
      BY <1>7 DEF RulesWait, EdgeRefuse, CredentialMissing, Refund
    <2>3. Quietly(a, pc) \/ Goto(a, pc) \/ Fault(a, pc)
      BY <2>2 DEF GiveBack
    <2> QED
      BY <1>4, <1>5, <2>1, <2>3
  <1>8. CASE Reload(a) \/ EdgeBegin(a) \/ EdgeLook(a)
    <2>1. /\ calls'[a].landed = calls[a].landed
          /\ calls[a].pc \notin Late \cup {"lost"} /\ calls'[a].pc \notin Late
      BY <1>8, Rewriting
    <2> QED
      BY <1>3, <1>5, <2>1
  <1>9. CASE RealCall(a) \/ RealCallRaises(a)
    <2>1. PICK pc \in {"called", "unknown"}, landed \in BOOLEAN : Land(a, pc, landed)
      BY <1>9 DEF RealCall, RealCallRaises
    <2>2. calls[a].pc = "dispatch" /\ calls'[a].pc \in {"called", "unknown"}
      BY <1>0, <1>9, <2>1, Landing DEF RealCall, RealCallRaises, At
    <2>3. a \in Held /\ ~calls[a].landed
      BY <1>0, <2>2 DEF HoldLaw
    <2>4. CallPhase(a) = "owned" /\ CallPhase(a)' = "inflight"
      BY <1>0, <1>2, <2>2, <2>3 DEF CallPhase
    <2> QED
      BY <2>4 DEF PhaseMoves
  <1>10. CASE Settle(a) \/ SettleFails(a)
    <2>1. PICK pc \in {"allowed", "unknown"} : Goto(a, pc)
      BY <1>10 DEF Settle, SettleFails, Quietly
    <2>2. calls[a].pc = "called" /\ calls'[a].pc = pc
      BY <1>0, <1>10, <2>1, Going DEF Settle, SettleFails, At
    <2>3. CallPhase(a) = "inflight" /\ CallPhase(a)' \in {"inflight", "done"}
      BY <1>0, <1>2, <2>2 DEF CallPhase
    <2> QED
      BY <2>3 DEF PhaseMoves
  <1> QED
    BY <1>6, <1>7, <1>8, <1>9, <1>10 DEF CallStep

(* Nothing but its own steps changes the phase of a call: not its          *)
(* beginning, its loss in a restart, or anybody else's step.               *)
LEMMA CallPhaseKept ==
  ASSUME GatewayTypeOK, GrantLoaded, HoldInv, [GatewayNext]_callVars, NEW a \in ActionIds,
         ~CallStep(a)
  PROVE  CallPhase(a)' = CallPhase(a)
  <1>1. a \in Held' <=> a \in Held
    BY HeldByOwnStep
  <1>2. HoldLaw(a)
    BY DEF HoldInv
  <1>3. CASE Untouched(a)
    BY <1>1, <1>3 DEF Untouched, CallPhase, Begun
  <1>4. CASE Begins(a)
    BY <1>1, <1>2, <1>4, BeginsAs, GatewayAssumption DEF CallPhase, HoldLaw, Begun
  <1>5. CASE IsLost(a)
    <2>1. /\ a \in Begun /\ calls[a].pc \notin {"allowed", "unknown"}
          /\ calls[a].pc = "called" => calls[a].landed
      BY <1>2, <1>5 DEF IsLost, Running, Ended, HoldLaw
    <2>2. /\ a \in Begun' /\ calls'[a].pc = "lost"
          /\ calls'[a].landed = calls[a].landed
      BY <1>5, LostAs, GatewayAssumption DEF Begun
    <2> QED
      BY <1>1, <2>1, <2>2 DEF CallPhase
  <1> QED
    BY <1>3, <1>4, <1>5, OneCall

LEMMA CallOnceStep ==
  ASSUME GatewayTypeOK, GrantLoaded, HoldInv, [GatewayNext]_callVars
  PROVE  [CallOnce!Next]_callBar
  <1>1. CASE \E a \in ActionIds : CallStep(a)
    <2>1. PICK a \in ActionIds : CallStep(a)
      BY <1>1
    <2>2. ASSUME NEW b \in ActionIds \ {a}
          PROVE  CallPhase(b)' = CallPhase(b)
      <3>1. calls'[b] = calls[b]
        BY <2>1, CallStepTyped DEF Own
      <3>2. b \in Held' <=> b \in Held
        BY <2>1, HoldStep
      <3> QED
        BY <3>1, <3>2 DEF CallPhase, Begun
    <2>3. PICK to : to = CallPhase(a)'
      OBVIOUS
    <2>4. callBar' = [callBar EXCEPT ![a] = to] /\ callBar[a] = CallPhase(a)
      BY <2>2, <2>3 DEF callBar
    <2>5. CASE to = CallPhase(a)
      BY <2>4, <2>5 DEF callBar
    <2>6. CASE <<CallPhase(a), to>> \in PhaseMoves
      BY <2>4, <2>6
      DEF PhaseMoves, CallOnce!Next, CallOnce!Own, CallOnce!Abandon, CallOnce!Dispatch,
          CallOnce!Resolve, CallOnce!Move
    <2> QED
      BY <2>1, <2>3, <2>5, <2>6, CallPhaseStep
  <1>2. CASE \A a \in ActionIds : ~CallStep(a)
    BY <1>2, CallPhaseKept DEF callBar
  <1> QED
    BY <1>1, <1>2

(* The gateway keeps the promise of ConsequenceOnce for every call: the    *)
(* provider is called at most once, only under a hold, what it did or may  *)
(* have done is never given back or tried again, and an allowed call is    *)
(* final, through errors, restarts and all other calls (gateway.py).       *)
THEOREM CallsAreOnce == GatewaySpec => CallOnce!Spec
  <1>1. GatewayInit => CallOnce!Init
    BY DEF GatewayInit, CallOnce!Init, callBar, CallPhase, Begun
  <1>2. GatewayTypeOK /\ GrantLoaded /\ HoldInv /\ [GatewayNext]_callVars
           => [CallOnce!Next]_callBar
    BY CallOnceStep
  <1> QED
    BY <1>1, <1>2, GatewayTypeCorrect, HoldSafe, PTL DEF GatewaySpec, CallOnce!Spec

-----------------------------------------------------------------------------
(* Settling.  What is held in the name of a call is what the call will ask *)
(* the store to settle, and it is paid exactly when the call is allowed.   *)

Match(a) ==
    a \in Held =>
      /\ a \in Begun
      /\ rateEvents[a].grant = calls[a].grant
      /\ rateEvents[a].reserved = calls[a].request.cost
      /\ rateEvents[a].committed <=> calls[a].pc = "allowed"

MatchInv == \A a \in ActionIds : Match(a)

LEMMA OwnRow ==
  ASSUME GatewayTypeOK, GrantLoaded, NEW a \in ActionIds, CallStep(a)
  PROVE  /\ calls[a].pc # "allowed"
         /\ \A b \in ActionIds \ {a} : rateEvents'[b] = rateEvents[b]
         /\ \/ a \notin Held'
            \/ rateEvents'[a] = rateEvents[a] /\ calls'[a].pc # "allowed"
            \/ /\ calls'[a].pc = "rules"
               /\ rateEvents'[a].grant = calls[a].grant
               /\ rateEvents'[a].reserved = calls[a].request.cost
               /\ rateEvents'[a].committed = FALSE
            \/ /\ calls'[a].pc = "allowed"
               /\ a \in Held
               /\ rateEvents'[a].grant = rateEvents[a].grant
               /\ rateEvents'[a].reserved = rateEvents[a].reserved
               /\ rateEvents'[a].committed = TRUE
  <1> DEFINE Goal ==
         /\ \A b \in ActionIds \ {a} : rateEvents'[b] = rateEvents[b]
         /\ \/ a \notin Held'
            \/ rateEvents'[a] = rateEvents[a] /\ calls'[a].pc # "allowed"
            \/ /\ calls'[a].pc = "rules"
               /\ rateEvents'[a].grant = calls[a].grant
               /\ rateEvents'[a].reserved = calls[a].request.cost
               /\ rateEvents'[a].committed = FALSE
            \/ /\ calls'[a].pc = "allowed"
               /\ a \in Held
               /\ rateEvents'[a].grant = rateEvents[a].grant
               /\ rateEvents'[a].reserved = rateEvents[a].reserved
               /\ rateEvents'[a].committed = TRUE
             Rows == rateEvents \in [ActionIds -> RateEvent \cup {None}]
  <1>0. a \in Begun /\ calls[a] \in Call /\ Rows
    BY StepOfBegun, CallOf DEF GatewayTypeOK, TypeOK
  <1>1. calls[a].pc # "allowed"
    BY DEF CallStep, ScreenPass, ScreenExpired, ScreenDeny, CallReserve, CallNotReserved,
         RulesPass, RulesWait, AppendFails, Mint, MintFails, Gate, PollApproved,
         PollDenied, PollTimeout, Reload, EdgeBegin, EdgeLook, EdgeRefuse,
         CredentialMissing, RealCall, RealCallRaises, Settle, SettleFails, At
  <1> SUFFICES Goal
    BY <1>1
  <1>2. ASSUME NEW pc \in Places \ {"allowed"}, Goto(a, pc) \/ Fault(a, pc),
               UNCHANGED rateEvents
        PROVE  Goal
    <2>1. calls'[a].pc = pc
      BY <1>0, <1>2, Going, Faulting
    <2> QED
      BY <1>2, <2>1
  <1>3. ASSUME NEW pc \in Places \ {"allowed"}, GiveBack(a, pc)
        PROVE  Goal
    <2>1. CASE Release(calls[a].grant, a, calls[a].request.cost)
      BY <1>0, <2>1 DEF Release, Held
    <2>2. CASE Fault(a, pc) /\ UNCHANGED storeVars
      BY <1>2, <2>2 DEF storeVars
    <2> QED
      BY <1>3, <2>1, <2>2 DEF GiveBack
  <1>4. CASE \/ ScreenPass(a) \/ ScreenExpired(a) \/ ScreenDeny(a) \/ CallNotReserved(a)
             \/ RulesPass(a) \/ AppendFails(a) \/ Mint(a) \/ MintFails(a) \/ Gate(a)
             \/ PollApproved(a) \/ PollDenied(a) \/ PollTimeout(a) \/ SettleFails(a)
    <2>1. \E pc \in Places \ {"allowed"} : Goto(a, pc) \/ Fault(a, pc)
      BY <1>4 DEF ScreenPass, ScreenExpired, ScreenDeny, CallNotReserved, RulesPass, AppendFails,
                  Mint, MintFails, Gate, PollApproved, PollDenied, PollTimeout, SettleFails,
                  Quietly, Places
    <2>2. UNCHANGED rateEvents
      BY <1>4 DEF ScreenPass, ScreenExpired, ScreenDeny, CallNotReserved, RulesPass, AppendFails,
                  Mint, MintFails, Gate, PollApproved, PollDenied, PollTimeout, SettleFails,
                  Quietly, SetStatus, storeVars
    <2> QED
      BY <1>2, <2>1, <2>2
  <1>5. CASE RulesWait(a) \/ EdgeRefuse(a) \/ CredentialMissing(a)
    <2>1. PICK pc \in {"gate", "denied"} : GiveBack(a, pc) \/ Quietly(a, pc)
      BY <1>5 DEF RulesWait, EdgeRefuse, CredentialMissing, Refund
    <2> QED
      BY <1>2, <1>3, <2>1 DEF Quietly, storeVars, Places
  <1>6. CASE Reload(a) \/ EdgeBegin(a) \/ EdgeLook(a)
    BY <1>6, Rewriting DEF storeVars
  <1>7. CASE RealCall(a) \/ RealCallRaises(a)
    <2>1. PICK pc \in {"called", "unknown"}, landed \in BOOLEAN : Land(a, pc, landed)
      BY <1>7 DEF RealCall, RealCallRaises
    <2>2. calls'[a].pc = pc
      BY <1>0, <2>1, Landing DEF Places
    <2>3. UNCHANGED rateEvents
      BY <1>7 DEF RealCall, RealCallRaises, storeVars
    <2> QED
      BY <2>2, <2>3
  <1>8. CASE CallReserve(a)
    <2>1. PICK ts : rateEvents' = [rateEvents EXCEPT ![a] =
                     [grant |-> calls[a].grant, ts |-> ts, reserved |-> calls[a].request.cost,
                      committed |-> FALSE, actual |-> 0]]
      BY <1>8 DEF CallReserve, Reserve
    <2>2. calls'[a].pc = "rules"
      BY <1>0, <1>8, Going DEF CallReserve, Places
    <2> QED
      BY <1>0, <2>1, <2>2
  <1>9. CASE Settle(a)
    <2>1. PICK actual \in Charges :
             Commit(calls[a].grant, a, actual, calls[a].request.cost)
      BY <1>9 DEF Settle
    <2>2. a \in Held /\ rateEvents[a] \in RateEvent
      BY <1>0, <2>1 DEF Commit, Reservation, Held
    <2>3. /\ rateEvents'[a] = [rateEvents[a] EXCEPT !.committed = TRUE, !.actual = PosPart(actual)]
          /\ \A b \in ActionIds \ {a} : rateEvents'[b] = rateEvents[b]
      BY <1>0, <2>1 DEF Commit
    <2>4. /\ rateEvents'[a].grant = rateEvents[a].grant
          /\ rateEvents'[a].reserved = rateEvents[a].reserved
          /\ rateEvents'[a].committed = TRUE
      BY <2>2, <2>3 DEF RateEvent
    <2>5. calls'[a].pc = "allowed"
      BY <1>0, <1>9, Going DEF Settle, Places
    <2> QED
      BY <2>2, <2>3, <2>4, <2>5
  <1> QED
    BY <1>4, <1>5, <1>6, <1>7, <1>8, <1>9 DEF CallStep

(* Nothing but its own steps touches the reservation of a call.            *)
LEMMA RowByOwnStep ==
  ASSUME GatewayTypeOK, GrantLoaded, [GatewayNext]_callVars, NEW a \in ActionIds,
         ~CallStep(a)
  PROVE  rateEvents'[a] = rateEvents[a]
  <1>1. CASE Environment
    BY <1>1 DEF Environment, Tick, PutGrant, InsertGrant, AttachSignature
  <1>2. CASE Control
    BY <1>2 DEF Control, CheckApprove, CheckDeny, Judge, RevokeBegin, RevokeStep,
                RevokeList, RevokeWaiters, RevokeEnd, RevokeChild, RevokeWaiter, Revoke,
                SetStatus, storeVars
  <1>3. CASE Restart \/ UNCHANGED callVars
    BY <1>3 DEF Restart, callVars, storeVars
  <1>4. CASE \E b \in ActionIds, g \in Tokens, request \in Requests : CallTool(b, g, request)
    BY <1>4 DEF CallTool, storeVars
  <1>5. ASSUME NEW b \in ActionIds, CallStep(b)
        PROVE  rateEvents'[a] = rateEvents[a]
    BY <1>5, OwnRow
  <1> QED
    BY <1>1, <1>2, <1>3, <1>4, <1>5 DEF GatewayNext

LEMMA MatchStep ==
  ASSUME GatewayTypeOK, GrantLoaded, HoldInv, MatchInv, [GatewayNext]_callVars
  PROVE  MatchInv'
  <1> SUFFICES ASSUME NEW a \in ActionIds
               PROVE  Match(a)'
    BY DEF MatchInv
  <1>1. Match(a) /\ HoldLaw(a)
    BY DEF MatchInv, HoldInv
  <1>2. CASE CallStep(a)
    <2>1. Own(a) /\ a \in Begun
      BY <1>2, CallStepTyped, StepOfBegun
    <2>2. /\ a \in Begun'
          /\ calls'[a].grant = calls[a].grant
          /\ calls'[a].request.cost = calls[a].request.cost
      BY <2>1, GatewayAssumption DEF Own, Begun
    <2>3. rateEvents'[a] = rateEvents[a] => (a \in Held' <=> a \in Held)
      BY DEF Held
    <2> QED
      BY <1>1, <1>2, <2>2, <2>3, OwnRow DEF Match
  <1>3. CASE ~CallStep(a)
    <2>1. rateEvents'[a] = rateEvents[a] /\ (a \in Held' <=> a \in Held)
      BY <1>3, RowByOwnStep DEF Held
    <2>2. CASE Untouched(a)
      BY <1>1, <2>1, <2>2 DEF Untouched, Match, Begun
    <2>3. CASE Begins(a)
      BY <1>1, <2>1, <2>3, BeginsAs DEF Match, HoldLaw
    <2>4. CASE IsLost(a)
      BY <1>1, <2>1, <2>4, LostAs, GatewayAssumption
      DEF Match, IsLost, Running, Ended, Begun
    <2> QED
      BY <1>3, <2>2, <2>3, <2>4, OneCall
  <1> QED
    BY <1>2, <1>3

LEMMA MatchSafe == GatewaySpec => []MatchInv
  <1>1. GatewayInit => MatchInv
    BY DEF GatewayInit, Init, MatchInv, Match, Held
  <1>2. GatewayTypeOK /\ GrantLoaded /\ HoldInv /\ MatchInv /\ [GatewayNext]_callVars
           => MatchInv'
    BY MatchStep
  <1> QED
    BY <1>1, <1>2, GatewayTypeCorrect, HoldSafe, PTL DEF GatewaySpec

(* Whatever a call holds the store will settle: the reservation is the     *)
(* call's own, unsettled, charged to its grant, and all who pay are there. *)
(* Only the calls that were answered ALLOW are paid; every other hold is   *)
(* still open.                                                             *)
HoldsCanSettle ==
    /\ \A a \in Begun : calls[a].pc \in Holding =>
          /\ Reservation(calls[a].grant, a, calls[a].request.cost)
          /\ ~rateEvents[a].committed
          /\ calls[a].grant \in owners[a]
          /\ owners[a] \subseteq Stored
    /\ \A a \in Held : rateEvents[a].committed <=> At(a, "allowed")

(* The gateway never asks the store to settle what the store would refuse: *)
(* neither its give-backs nor its commits fail but by an error of the      *)
(* database, whatever was revoked, expired or attenuated meanwhile         *)
(* (gateway.py, state.py).                                                 *)
THEOREM SettlementsAccepted == GatewaySpec => []HoldsCanSettle
  <1>1. HoldInv /\ MatchInv /\ GrantLoaded /\ MoneyInv /\ ChargedLineageClosed
           => HoldsCanSettle
    <2> SUFFICES ASSUME HoldInv, MatchInv, GrantLoaded, ChargesStored, ChargedLineageClosed
                 PROVE  HoldsCanSettle
      BY DEF MoneyInv
    <2>1. ASSUME NEW a \in Begun, calls[a].pc \in Holding
          PROVE  /\ Reservation(calls[a].grant, a, calls[a].request.cost)
                 /\ ~rateEvents[a].committed
                 /\ calls[a].grant \in owners[a]
                 /\ owners[a] \subseteq Stored
      <3>1. a \in ActionIds /\ calls[a].pc # "allowed" /\ calls[a].grant \in Stored
        BY <2>1 DEF Begun, Holding, GrantLoaded
      <3>2. a \in Held /\ Match(a)
        BY <2>1, <3>1 DEF HoldInv, HoldLaw, MatchInv
      <3>3. calls[a].grant \in owners[a] /\ owners[a] \subseteq Stored
        BY <3>2 DEF Match, ChargedLineageClosed, ChargesStored
      <3> QED
        BY <3>1, <3>2, <3>3 DEF Match, Reservation
    <2>2. ASSUME NEW a \in Held
          PROVE  rateEvents[a].committed <=> At(a, "allowed")
      BY <2>2 DEF MatchInv, Match, At, Held
    <2> QED
      BY <2>1, <2>2 DEF HoldsCanSettle
  <1>2. GatewaySpec => [](MoneyInv /\ ChargedLineageClosed)
    BY GatewayIsStore, SpecIsOpen, MoneySafe, ChargesClosed, PTL DEF GatewayUsesStore
  <1> QED
    BY <1>1, <1>2, GatewayTypeCorrect, HoldSafe, MatchSafe, PTL

-----------------------------------------------------------------------------
(* Revocation.  A chain with a dead grant in it stays one, whatever is     *)
(* imported or settled, and the store reserves nothing along it.           *)

LEMMA ChainKept ==
  ASSUME TypeOK, [Next]_storeVars, NEW g, NEW i \in 0..MaxOwners, NEW o \in Stored,
         o = Walk(g)[i]
  PROVE  /\ Walk(g)'[i] = o
         /\ o \in Stored'
         /\ Dead(o) => Dead(o)'
         /\ Auth(o)'.expires = Auth(o).expires
         /\ Auth(o)'.parent = Auth(o).parent
  <1>1. [OpenStep]_storeVars /\ o # None
    BY NextIsOpenStep, StoreAssumption DEF Stored
  <1>2. Walk(g)'[i] = o
    BY <1>1, WalkKept
  <1>3. /\ o \in Stored' /\ Auth(o) \in Authority /\ Auth(o)' \in Authority
        /\ Same(Auth(o), Auth(o)')
    BY <1>1, StoredKept
  <1>4. Auth(o)'.expires = Auth(o).expires /\ Auth(o)'.parent = Auth(o).parent
    BY <1>3, SameFields
  <1>5. grants[o].status \in {"REVOKED", "EXPIRED"} =>
           grants'[o].status \in {"REVOKED", "EXPIRED"}
    <2>1. CASE Next
      BY <2>1, StoredGrantStep
    <2>2. CASE UNCHANGED storeVars
      BY <2>2 DEF storeVars
    <2> QED
      BY <2>1, <2>2
  <1> QED
    BY <1>2, <1>3, <1>4, <1>5 DEF Dead

LEMMA WithdrawnStays ==
  ASSUME TypeOK, [Next]_storeVars, NEW g, Withdrawn(g)
  PROVE  Withdrawn(g)'
  <1>1. PICK i \in 0..MaxOwners, o \in Stored : o = Walk(g)[i] /\ Dead(o)
    BY DEF Withdrawn, Lineage
  <1>2. Walk(g)'[i] = o /\ o \in Stored' /\ Dead(o)'
    BY <1>1, ChainKept
  <1>3. o # None
    BY <1>1, StoreAssumption DEF Stored
  <1> QED
    BY <1>2, <1>3 DEF Withdrawn, Lineage

(* A call comes to hold money in no other way than by its own reservation, *)
(* which asks the store for the whole chain of its grant to be active.     *)
LEMMA OnlyReserveHolds ==
  ASSUME GatewayTypeOK, GrantLoaded, HoldInv, NEW a \in ActionIds, CallStep(a),
         a \notin Held, a \in Held'
  PROVE  LineageSound(calls[a].grant, {"ACTIVE"})
  <1>1. a \in Begun /\ calls[a] \in Call
    BY StepOfBegun, CallOf
  <1>2. calls[a].grant \in GrantIds /\ calls[a].request.cost \in Charges
    BY <1>1 DEF Call, Request
  <1>3. Charges \subseteq Amounts
    BY DEF Charges
  <1>4. ~(UNCHANGED storeVars) /\ Held' # Held
    BY DEF storeVars, Held
  <1>5. ASSUME NEW pc \in Places, GiveBack(a, pc)
        PROVE  FALSE
    BY <1>1, <1>5, GiveBackHolds
  <1>6. ASSUME NEW pc \in Places, Refund(a, pc)
        PROVE  FALSE
    BY <1>4, <1>5, <1>6 DEF Refund, Quietly
  <1>7. CASE RulesWait(a) \/ EdgeRefuse(a) \/ CredentialMissing(a)
    BY <1>5, <1>6, <1>7 DEF RulesWait, EdgeRefuse, CredentialMissing, Places
  <1>8. CASE ScreenPass(a) \/ ScreenDeny(a) \/ CallNotReserved(a) \/ RulesPass(a)
             \/ AppendFails(a) \/ Mint(a) \/ MintFails(a) \/ Gate(a) \/ PollApproved(a)
             \/ PollDenied(a) \/ PollTimeout(a) \/ Reload(a) \/ EdgeBegin(a) \/ EdgeLook(a)
             \/ RealCall(a) \/ RealCallRaises(a) \/ SettleFails(a)
    BY <1>4, <1>8 DEF ScreenPass, ScreenDeny, CallNotReserved, RulesPass, AppendFails, Mint,
                  MintFails, Gate, PollApproved, PollDenied, PollTimeout, Reload, EdgeBegin,
                  EdgeLook, RealCall, RealCallRaises, SettleFails, Quietly
  <1>9. CASE ScreenExpired(a)
    BY <1>4, <1>9 DEF ScreenExpired, SetStatus, Held
  <1>10. CASE Settle(a)
    <2>1. PICK actual \in Charges : Commit(calls[a].grant, a, actual, calls[a].request.cost)
      BY <1>10 DEF Settle
    <2> QED
      BY <1>1, <1>2, <1>3, <1>4, <2>1, CommitHolds DEF GatewayTypeOK
  <1>11. CASE CallReserve(a)
    BY <1>11 DEF CallReserve, Reserve
  <1> QED
    BY <1>7, <1>8, <1>9, <1>10, <1>11 DEF CallStep

LEMMA NotReservable ==
  ASSUME NEW g, Withdrawn(g)
  PROVE  ~LineageSound(g, {"ACTIVE"})
  BY DEF Withdrawn, LineageSound, Dead

BarLaw(a) == calls[a].barred => a \notin Held /\ Withdrawn(calls[a].grant)
BarInv == \A a \in Begun : BarLaw(a)

LEMMA BarStep ==
  ASSUME GatewayTypeOK, GrantLoaded, HoldInv, BarInv, [GatewayNext]_callVars
  PROVE  BarInv'
  <1>1. [Next]_storeVars /\ TypeOK
    BY GatewayStep DEF GatewayTypeOK
  <1>2. ASSUME NEW a \in ActionIds, calls'[a] # None, calls'[a].barred
        PROVE  a \notin Held' /\ (Withdrawn(calls[a].grant))'
    <2>1. PICK g : g = calls'[a].grant
      OBVIOUS
    <2>2. SUFFICES a \notin Held' /\ Withdrawn(g)'
      BY <2>1 DEF Withdrawn, Lineage
    <2>3. CASE a \in Begun /\ g = calls[a].grant /\ calls[a].barred
      <3>1. a \notin Held /\ Withdrawn(calls[a].grant)
        BY <2>3 DEF BarInv, BarLaw
      <3>2. Withdrawn(g)'
        BY <1>1, <2>3, <3>1, WithdrawnStays
      <3>3. CASE CallStep(a)
        BY <1>1, <3>1, <3>2, <3>3, OnlyReserveHolds, NotReservable
      <3>4. CASE ~CallStep(a)
        BY <3>1, <3>2, <3>4, HeldByOwnStep
      <3> QED
        BY <3>3, <3>4
    <2>4. CASE Untouched(a)
      BY <1>2, <2>1, <2>3, <2>4 DEF Untouched, Begun
    <2>5. CASE CallStep(a)
      BY <1>2, <2>1, <2>3, <2>5, StepOfBegun, CallStepTyped DEF Own
    <2>6. CASE IsLost(a)
      BY <1>2, <2>1, <2>3, <2>6, LostAs
    <2>7. CASE Begins(a)
      <3>1. calls[a] = None /\ UNCHANGED storeVars /\ Withdrawn(calls'[a].grant)
        BY <1>2, <2>7, BeginsAs
      <3>2. Withdrawn(g)
        BY <2>1, <3>1
      <3>3. Withdrawn(g)'
        BY <1>1, <3>2, WithdrawnStays
      <3>4. a \notin Held /\ Held' = Held
        BY <3>1 DEF HoldInv, HoldLaw, storeVars, Held
      <3> QED
        BY <3>3, <3>4
    <2> QED
      BY <2>4, <2>5, <2>6, <2>7, OneCall
  <1> QED
    BY <1>2 DEF BarInv, BarLaw, Begun

(* The kill switch works: a call begun after its grant or an ancestor was  *)
(* revoked never holds money, however it interleaves with imports,         *)
(* refunds, approvals and restarts (SPEC.md:188).                          *)
THEOREM RevocationStops == GatewaySpec => []KillSwitch
  <1>1. GatewayInit => BarInv
    BY DEF GatewayInit, BarInv, Begun
  <1>2. GatewayTypeOK /\ GrantLoaded /\ HoldInv /\ BarInv /\ [GatewayNext]_callVars => BarInv'
    BY BarStep
  <1>3. BarInv => KillSwitch
    BY DEF BarInv, BarLaw, KillSwitch
  <1> QED
    BY <1>1, <1>2, <1>3, GatewayTypeCorrect, HoldSafe, PTL DEF GatewaySpec

-----------------------------------------------------------------------------
(* The edge.  While it walks up the chain of a call that was not live when *)
(* it began, what is wrong with the chain is still ahead of it.            *)

RuinAhead(g, at, since) ==
    \E i, j \in 0..MaxOwners, o \in Stored :
        /\ i <= j /\ at = Walk(g)[i] /\ o = Walk(g)[j]
        /\ Dead(o) \/ Auth(o).expires <= since

EdgeLaw(a) ==
    /\ calls[a].pc = "walk" /\ calls[a].doomed =>
          RuinAhead(calls[a].grant, calls[a].at, calls[a].since)
    /\ calls[a].pc \in {"dispatch", "called"} \/ calls[a].landed => ~calls[a].doomed

EdgeInv == \A a \in Begun : EdgeLaw(a)

LEMMA RuinStays ==
  ASSUME TypeOK, [Next]_storeVars, NEW g, NEW at, NEW since, RuinAhead(g, at, since)
  PROVE  RuinAhead(g, at, since)'
  <1>1. PICK i \in 0..MaxOwners, j \in 0..MaxOwners, o \in Stored :
           /\ i <= j /\ at = Walk(g)[i] /\ o = Walk(g)[j]
           /\ Dead(o) \/ Auth(o).expires <= since
    BY DEF RuinAhead
  <1>2. [OpenStep]_storeVars /\ o # None
    BY NextIsOpenStep, StoreAssumption DEF Stored
  <1>3. Walk(g)[i] # None
    BY <1>1, <1>2, WalkEnds
  <1>4. Walk(g)'[i] = at
    BY <1>1, <1>2, <1>3, WalkKept
  <1>5. /\ Walk(g)'[j] = o /\ o \in Stored'
        /\ Dead(o) => Dead(o)'
        /\ Auth(o)'.expires = Auth(o).expires
    BY <1>1, ChainKept
  <1>6. Dead(o)' \/ Auth(o)'.expires <= since
    BY <1>1, <1>5
  <1> QED
    BY <1>1, <1>4, <1>5, <1>6 DEF RuinAhead

LEMMA EdgeBeginAs ==
  ASSUME GatewayTypeOK, NEW a \in ActionIds, EdgeBegin(a)
  PROVE  /\ calls[a].pc = "edge" /\ calls'[a].pc = "walk"
         /\ calls'[a].grant = calls[a].grant
         /\ calls'[a].landed = calls[a].landed
         /\ calls'[a].doomed => RuinAhead(calls'[a].grant, calls'[a].at, calls'[a].since)
         /\ UNCHANGED storeVars
  <1> DEFINE doomed == \E o \in Lineage(calls[a].grant) \cap Stored : Dead(o) \/ Auth(o).expires <= now
  <1>1. /\ calls'[a] = [calls[a] EXCEPT !.pc = "walk", !.at = calls[a].grant,
                                        !.since = now, !.doomed = doomed]
        /\ calls[a].pc = "edge" /\ UNCHANGED storeVars
    BY DEF EdgeBegin, Become, At, GatewayTypeOK
  <1>2. calls[a] \in Call
    BY CallOf DEF EdgeBegin, At
  <1>3. doomed => RuinAhead(calls[a].grant, calls[a].grant, now)
    <2> SUFFICES ASSUME doomed PROVE RuinAhead(calls[a].grant, calls[a].grant, now)
      OBVIOUS
    <2>1. PICK g : g = calls[a].grant
      OBVIOUS
    <2>2. PICK j \in 0..MaxOwners, o \in Stored :
             o = Walk(g)[j] /\ (Dead(o) \/ Auth(o).expires <= now)
      BY <2>1 DEF Lineage
    <2>3. 0 \in 0..MaxOwners /\ 0 <= j /\ Walk(g)[0] = g
      BY WalkIs, StoreAssumption DEF IsWalk
    <2> QED
      BY <2>1, <2>2, <2>3 DEF RuinAhead
  <1> HIDE DEF doomed
  <1>4. /\ calls'[a].pc = "walk" /\ calls'[a].grant = calls[a].grant
        /\ calls'[a].landed = calls[a].landed /\ calls'[a].doomed = doomed
        /\ calls'[a].at = calls[a].grant /\ calls'[a].since = now
    BY <1>1, <1>2 DEF Call
  <1> QED
    BY <1>1, <1>3, <1>4

LEMMA EdgeLookAs ==
  ASSUME GatewayTypeOK, NEW a \in ActionIds, EdgeLook(a)
  PROVE  /\ calls[a].pc = "walk" /\ calls[a].at \in Stored
         /\ ~Dead(calls[a].at) /\ ~(Auth(calls[a].at).expires <= calls[a].since)
         /\ calls'[a].grant = calls[a].grant
         /\ calls'[a].landed = calls[a].landed
         /\ calls'[a].doomed = calls[a].doomed
         /\ calls'[a].since = calls[a].since
         /\ calls'[a].at = Auth(calls[a].at).parent
         /\ calls'[a].pc = IF calls'[a].at = None THEN "dispatch" ELSE "walk"
         /\ UNCHANGED storeVars
  <1> DEFINE next == NextAncestor(calls[a].at)
             pc == IF next = None THEN "dispatch" ELSE "walk"
  <1>1. /\ calls'[a] = [calls[a] EXCEPT !.at = next, !.pc = pc]
        /\ calls[a].pc = "walk" /\ calls[a].at \in Stored /\ ~Dead(calls[a].at)
        /\ Auth(calls[a].at).expires > calls[a].since
        /\ UNCHANGED storeVars
    BY DEF EdgeLook, Become, At, GatewayTypeOK
  <1>2. calls[a] \in Call
    BY CallOf DEF EdgeLook, At
  <1>3. Auth(calls[a].at).expires \in Nat /\ calls[a].since \in Nat
    BY <1>1, <1>2 DEF Call, Stored, GatewayTypeOK, TypeOK, GrantRow, Authority, Auth
  <1>4. next = Auth(calls[a].at).parent /\ (pc = IF next = None THEN "dispatch" ELSE "walk")
    BY DEF NextAncestor
  <1> HIDE DEF next, pc
  <1>5. /\ calls'[a].pc = pc /\ calls'[a].at = next /\ calls'[a].grant = calls[a].grant
        /\ calls'[a].landed = calls[a].landed /\ calls'[a].doomed = calls[a].doomed
        /\ calls'[a].since = calls[a].since
    BY <1>1, <1>2 DEF Call
  <1> QED
    BY <1>1, <1>3, <1>4, <1>5

(* One look up the chain does not pass what is wrong with it.              *)
LEMMA LookAhead ==
  ASSUME NEW g, NEW at \in Stored, NEW since, RuinAhead(g, at, since),
         ~Dead(at), ~(Auth(at).expires <= since)
  PROVE  Auth(at).parent # None /\ RuinAhead(g, Auth(at).parent, since)
  <1>1. PICK i \in 0..MaxOwners, j \in 0..MaxOwners, o \in Stored :
           /\ i <= j /\ at = Walk(g)[i] /\ o = Walk(g)[j]
           /\ Dead(o) \/ Auth(o).expires <= since
    BY DEF RuinAhead
  <1>2. o # at /\ o # None
    BY <1>1, StoreAssumption DEF Stored
  <1>3. i # j /\ MaxOwners \in Nat
    BY <1>1, <1>2, StoreAssumption
  <1>4. i + 1 \in 0..MaxOwners /\ i + 1 <= j /\ i + 1 # 0 /\ (i + 1) - 1 = i
    BY <1>1, <1>3
  <1>5. Walk(g)[i+1] = Auth(at).parent
    <2>1. PICK k \in 0..MaxOwners : k = i + 1
      BY <1>4
    <2>2. k # 0 /\ k - 1 = i
      BY <1>4, <2>1
    <2>3. \A m \in 0..MaxOwners : Walk(g)[m] = IF m = 0 THEN g ELSE Up(Walk(g)[m-1])
      BY WalkIs DEF IsWalk
    <2>4. Walk(g)[k] = Up(at)
      BY <1>1, <2>2, <2>3
    <2> QED
      BY <2>1, <2>4 DEF Up
  <1>6. Walk(g)[i+1] # None
    BY <1>1, <1>2, <1>4, WalkEnds
  <1> QED
    BY <1>1, <1>4, <1>5, <1>6 DEF RuinAhead

LEMMA EdgeStep ==
  ASSUME GatewayTypeOK, GrantLoaded, HoldInv, EdgeInv, NEW a \in ActionIds, CallStep(a)
  PROVE  EdgeLaw(a)'
  <1> USE DEF Places
  <1>0. a \in Begun /\ calls[a] \in Call /\ EdgeLaw(a)
    BY StepOfBegun, CallOf DEF EdgeInv
  <1>1. calls[a].landed => calls[a].pc \in {"called", "allowed", "unknown", "lost"}
    BY <1>0 DEF HoldInv, HoldLaw
  <1>2. ASSUME calls'[a].pc \notin {"walk", "dispatch", "called"},
               calls'[a].landed => calls[a].landed \/ calls[a].pc = "dispatch",
               calls'[a].doomed = calls[a].doomed
        PROVE  EdgeLaw(a)'
    BY <1>0, <1>2 DEF EdgeLaw
  <1>3. ASSUME NEW pc \in Places \ {"walk", "dispatch", "called"},
               Quietly(a, pc) \/ GiveBack(a, pc) \/ Refund(a, pc) \/ Goto(a, pc)
                  \/ Fault(a, pc)
        PROVE  EdgeLaw(a)'
    <2>1. Goto(a, pc) \/ Fault(a, pc)
      BY <1>3 DEF Quietly, GiveBack, Refund
    <2>2. /\ calls'[a].pc = pc /\ calls'[a].landed = calls[a].landed
          /\ calls'[a].doomed = calls[a].doomed
      BY <1>0, <2>1, Going, Faulting
    <2> QED
      BY <1>2, <2>2
  <1>4. CASE ScreenPass(a) \/ ScreenDeny(a) \/ CallNotReserved(a) \/ RulesWait(a)
             \/ PollDenied(a) \/ PollTimeout(a) \/ SettleFails(a) \/ EdgeRefuse(a)
             \/ CredentialMissing(a) \/ ScreenExpired(a) \/ CallReserve(a) \/ Gate(a)
             \/ AppendFails(a) \/ MintFails(a) \/ Settle(a) \/ RulesPass(a) \/ Mint(a)
             \/ PollApproved(a)
    <2>1. \E pc \in Places \ {"walk", "dispatch", "called"} :
             Quietly(a, pc) \/ GiveBack(a, pc) \/ Refund(a, pc) \/ Goto(a, pc)
                  \/ Fault(a, pc)
      BY <1>4 DEF ScreenPass, ScreenDeny, CallNotReserved, RulesWait, PollDenied,
                  PollTimeout, SettleFails, EdgeRefuse, CredentialMissing, ScreenExpired,
                  CallReserve, Gate, AppendFails, MintFails, Settle, RulesPass, Mint,
                  PollApproved
    <2> QED
      BY <1>3, <2>1
  <1>5. CASE Reload(a)
    <2>1. /\ calls'[a].pc = "screen" /\ calls'[a].landed = calls[a].landed
          /\ calls'[a].doomed = calls[a].doomed
      BY <1>0, <1>5 DEF Reload, Become, Call, GatewayTypeOK
    <2> QED
      BY <1>2, <2>1
  <1>6. CASE EdgeBegin(a)
    <2>1. PICK g, at, since :
             g = calls'[a].grant /\ at = calls'[a].at /\ since = calls'[a].since
      OBVIOUS
    <2>2. /\ calls'[a].doomed => RuinAhead(g, at, since)
          /\ calls'[a].pc = "walk" /\ ~calls'[a].landed /\ UNCHANGED storeVars
      BY <1>1, <1>6, <2>1, EdgeBeginAs
    <2>3. calls'[a].doomed => RuinAhead(g, at, since)'
      BY <2>2, RuinStays DEF GatewayTypeOK
    <2> QED
      BY <2>1, <2>2, <2>3 DEF EdgeLaw, RuinAhead
  <1>7. CASE EdgeLook(a)
    <2>1. PICK g, at, since :
             g = calls[a].grant /\ at = calls[a].at /\ since = calls[a].since
      OBVIOUS
    <2>2. PICK next : next = Auth(at).parent
      OBVIOUS
    <2>3. /\ calls[a].pc = "walk" /\ at \in Stored
          /\ ~Dead(at) /\ ~(Auth(at).expires <= since)
          /\ calls'[a].grant = g /\ calls'[a].landed = calls[a].landed
          /\ calls'[a].doomed = calls[a].doomed /\ calls'[a].since = since
          /\ calls'[a].at = next
          /\ calls'[a].pc = IF next = None THEN "dispatch" ELSE "walk"
          /\ UNCHANGED storeVars
      BY <1>7, <2>1, <2>2, EdgeLookAs
    <2>4. ~calls'[a].landed
      BY <1>1, <2>3
    <2>5. ASSUME calls[a].doomed
          PROVE  next # None /\ RuinAhead(g, next, since)'
      <3>1. RuinAhead(g, at, since)
        BY <1>0, <2>1, <2>3, <2>5 DEF EdgeLaw
      <3>2. next # None /\ RuinAhead(g, next, since)
        BY <2>2, <2>3, <3>1, LookAhead
      <3> QED
        BY <2>3, <3>2, RuinStays DEF GatewayTypeOK
    <2> QED
      BY <2>3, <2>4, <2>5 DEF EdgeLaw, RuinAhead
  <1>8. CASE RealCall(a) \/ RealCallRaises(a)
    <2>1. PICK pc \in {"called", "unknown"}, landed \in BOOLEAN : Land(a, pc, landed)
      BY <1>8 DEF RealCall, RealCallRaises
    <2>2. ~calls[a].doomed
      BY <1>0, <1>8 DEF RealCall, RealCallRaises, At, EdgeLaw
    <2>3. calls'[a].pc = pc /\ ~calls'[a].doomed
      BY <1>0, <2>1, <2>2, Landing
    <2> QED
      BY <2>3 DEF EdgeLaw
  <1> QED
    BY <1>4, <1>5, <1>6, <1>7, <1>8 DEF CallStep

LEMMA EdgeInvStep ==
  ASSUME GatewayTypeOK, GrantLoaded, HoldInv, EdgeInv, [GatewayNext]_callVars
  PROVE  EdgeInv'
  <1>1. [Next]_storeVars /\ TypeOK
    BY GatewayStep DEF GatewayTypeOK
  <1>2. ASSUME NEW a \in ActionIds, calls'[a] # None
        PROVE  EdgeLaw(a)'
    <2>1. CASE CallStep(a)
      BY <2>1, EdgeStep
    <2>2. CASE Untouched(a)
      <3>1. a \in Begun /\ EdgeLaw(a) /\ calls'[a] = calls[a]
        BY <1>2, <2>2 DEF Untouched, Begun, EdgeInv
      <3>2. PICK g, at, since :
               g = calls[a].grant /\ at = calls[a].at /\ since = calls[a].since
        OBVIOUS
      <3>3. RuinAhead(g, at, since) => RuinAhead(g, at, since)'
        BY <1>1, RuinStays
      <3> QED
        BY <3>1, <3>2, <3>3 DEF EdgeLaw, RuinAhead
    <2>3. CASE Begins(a)
      BY <2>3, BeginsAs DEF EdgeLaw
    <2>4. CASE IsLost(a)
      BY <2>4, LostAs DEF EdgeInv, EdgeLaw
    <2> QED
      BY <2>1, <2>2, <2>3, <2>4, OneCall
  <1> QED
    BY <1>2 DEF EdgeInv, Begun

(* What was dead or expired when the edge began does not get past it,      *)
(* although it reads the chain one row at a time while other calls,        *)
(* operators and the clock go on (revocation.py:55).                       *)
THEOREM EdgeIsSound == GatewaySpec => []EdgeStopsDead
  <1>1. GatewayInit => EdgeInv
    BY DEF GatewayInit, EdgeInv, Begun
  <1>2. GatewayTypeOK /\ GrantLoaded /\ HoldInv /\ EdgeInv /\ [GatewayNext]_callVars => EdgeInv'
    BY EdgeInvStep
  <1>3. EdgeInv => EdgeStopsDead
    BY DEF EdgeInv, EdgeLaw, EdgeStopsDead
  <1> QED
    BY <1>1, <1>2, <1>3, GatewayTypeCorrect, HoldSafe, PTL DEF GatewaySpec

-----------------------------------------------------------------------------
(* Consent.  Past the rules, a call either needs no approval or has one. *)

ConsentLaw(a) ==
    /\ calls[a].pc = "reload" \/ calls[a].cleared => a \in consented
    /\ calls[a].pc \in {"mint", "edge", "walk", "dispatch", "called"} \/ calls[a].landed =>
          a \in consented \/ ~NeedsApproval(a)

ConsentInv ==
    /\ \A a \in ActionIds : decisions[a] = "approved" => a \in consented
    /\ \A a \in Begun : ConsentLaw(a)

LEMMA CallStepControl ==
  ASSUME NEW a \in ActionIds, CallStep(a)
  PROVE  UNCHANGED <<decisions, consented>>
  <1> DEFINE Goal == UNCHANGED <<decisions, consented>>
  <1>1. ASSUME UNCHANGED cpVars PROVE Goal
    BY <1>1 DEF cpVars
  <1>2. ASSUME NEW pc, Quietly(a, pc) \/ GiveBack(a, pc) \/ Refund(a, pc)
        PROVE  Goal
    BY <1>1, <1>2 DEF Quietly, GiveBack, Refund
  <1>3. CASE ScreenPass(a) \/ ScreenDeny(a) \/ CallNotReserved(a) \/ RulesPass(a)
             \/ Mint(a) \/ PollApproved(a) \/ PollDenied(a) \/ PollTimeout(a)
             \/ SettleFails(a) \/ RulesWait(a) \/ EdgeRefuse(a) \/ CredentialMissing(a)
    <2>1. \E pc \in Places : Quietly(a, pc) \/ GiveBack(a, pc) \/ Refund(a, pc)
      BY <1>3 DEF ScreenPass, ScreenDeny, CallNotReserved, RulesPass, Mint, PollApproved,
                  PollDenied, PollTimeout, SettleFails, RulesWait, EdgeRefuse,
                  CredentialMissing, Places
    <2> QED
      BY <1>2, <2>1
  <1>4. CASE ScreenExpired(a) \/ CallReserve(a) \/ AppendFails(a) \/ MintFails(a)
             \/ Reload(a) \/ EdgeBegin(a) \/ EdgeLook(a) \/ RealCall(a)
             \/ RealCallRaises(a) \/ Settle(a)
    <2>1. UNCHANGED cpVars
      BY <1>4 DEF ScreenExpired, CallReserve, AppendFails, MintFails, Reload, EdgeBegin,
                  EdgeLook, RealCall, RealCallRaises, Settle
    <2> QED
      BY <1>1, <2>1
  <1>5. CASE Gate(a)
    BY <1>5 DEF Gate, CreatePending
  <1> QED
    BY <1>3, <1>4, <1>5 DEF CallStep

LEMMA ConsentGrows ==
  ASSUME GatewayTypeOK, GrantLoaded, [GatewayNext]_callVars
  PROVE  consented \subseteq consented'
  <1>1. CASE Environment \/ Restart \/ UNCHANGED callVars
    BY <1>1 DEF Environment, Restart, ControlRestart, callVars, cpVars
  <1>2. CASE Control
    BY <1>2 DEF Control, CheckApprove, CheckDeny, Judge, RevokeBegin, RevokeStep,
                RevokeList, RevokeWaiters, RevokeEnd, RevokeChild, RevokeWaiter, Resolve
  <1>3. CASE \E b \in ActionIds, g \in Tokens, request \in Requests : CallTool(b, g, request)
    BY <1>3 DEF CallTool, cpVars
  <1>4. ASSUME NEW b \in ActionIds, CallStep(b)
        PROVE  consented \subseteq consented'
    BY <1>4, CallStepControl
  <1> QED
    BY <1>1, <1>2, <1>3, <1>4 DEF GatewayNext

(* A verdict in the approval store was given by a person.                  *)
LEMMA VerdictStep ==
  ASSUME GatewayTypeOK, GrantLoaded, ConsentInv, [GatewayNext]_callVars,
         NEW a \in ActionIds, decisions'[a] = "approved"
  PROVE  a \in consented'
  <1>1. ASSUME UNCHANGED <<decisions, consented>>
        PROVE  a \in consented'
    BY <1>1 DEF ConsentInv
  <1>2. CASE Environment \/ UNCHANGED callVars
    BY <1>1, <1>2 DEF Environment, callVars, cpVars
  <1>3. CASE Restart
    BY <1>3, ControlAssumption DEF Restart, ControlRestart, Verdicts
  <1>4. ASSUME NEW b \in ActionIds, NEW verdict \in Verdicts, Resolve(b, verdict)
        PROVE  a \in consented'
    BY <1>4 DEF Resolve, ConsentInv, GatewayTypeOK, ControlTypeOK
  <1>5. CASE Control
    <2>1. \/ UNCHANGED <<decisions, consented>>
          \/ \E b \in ActionIds, verdict \in Verdicts : Resolve(b, verdict)
      BY <1>5 DEF Control, CheckApprove, CheckDeny, Judge, RevokeBegin, RevokeStep,
                  RevokeList, RevokeWaiters, RevokeEnd, RevokeChild, RevokeWaiter, Verdicts
    <2> QED
      BY <1>1, <1>4, <2>1
  <1>6. CASE \E b \in ActionIds, g \in Tokens, request \in Requests : CallTool(b, g, request)
    BY <1>1, <1>6 DEF CallTool, cpVars
  <1>7. ASSUME NEW b \in ActionIds, CallStep(b)
        PROVE  a \in consented'
    BY <1>1, <1>7, CallStepControl
  <1> QED
    BY <1>2, <1>3, <1>5, <1>6, <1>7 DEF GatewayNext

(* The rules that apply to a call never change.                            *)
LEMMA RulesFixed ==
  ASSUME GatewayTypeOK, GrantLoaded, [Next]_storeVars, NEW a \in Begun,
         calls'[a].grant = calls[a].grant, calls'[a].request = calls[a].request
  PROVE  NeedsApproval(a)' <=> NeedsApproval(a)
  <1> DEFINE g == calls[a].grant
  <1>1. g \in Stored /\ Auth(g) \in Authority
    BY DEF GrantLoaded, Stored, GatewayTypeOK, TypeOK, GrantRow, Auth
  <1>2. grants'[g].auth.rules = Auth(g).rules
    <2>1. CASE Next
      <3>1. Auth(g)' \in {Auth(g), [Auth(g) EXCEPT !.signed = TRUE]}
        BY <1>1, <2>1, StoredGrantStep DEF GatewayTypeOK
      <3>2. grants'[g].auth \in {Auth(g), [Auth(g) EXCEPT !.signed = TRUE]}
        BY <3>1 DEF Auth
      <3> QED
        BY <1>1, <3>2 DEF Authority
    <2>2. CASE UNCHANGED storeVars
      BY <2>2 DEF storeVars, Auth
    <2> QED
      BY <2>1, <2>2
  <1> QED
    BY <1>2 DEF NeedsApproval, RuleMatches, Auth

LEMMA ConsentStep ==
  ASSUME GatewayTypeOK, GrantLoaded, ConsentInv, NEW a \in ActionIds, CallStep(a)
  PROVE  ConsentLaw(a)'
  <1> USE DEF Places
  <1>0. a \in Begun /\ calls[a] \in Call /\ ConsentLaw(a)
    BY StepOfBegun, CallOf DEF ConsentInv
  <1>1. Own(a) /\ [Next]_storeVars
    BY CallStepTyped
  <1>2. /\ consented' = consented
        /\ NeedsApproval(a)' <=> NeedsApproval(a)
    BY <1>0, <1>1, CallStepControl, RulesFixed DEF Own
  <1> DEFINE Passed == a \in consented \/ ~NeedsApproval(a)
  <1>3. ASSUME calls'[a].cleared => calls[a].cleared \/ a \in consented,
               calls'[a].pc = "reload" => a \in consented,
               calls'[a].pc \in {"mint", "edge", "walk", "dispatch", "called"} => Passed,
               calls'[a].landed => calls[a].landed \/ Passed
        PROVE  ConsentLaw(a)'
    BY <1>0, <1>2, <1>3 DEF ConsentLaw
  <1>4. ASSUME NEW pc \in Places \ {"reload", "mint", "edge", "walk", "dispatch", "called"},
               Quietly(a, pc) \/ GiveBack(a, pc) \/ Refund(a, pc) \/ Goto(a, pc)
                  \/ Fault(a, pc)
        PROVE  ConsentLaw(a)'
    <2>1. Goto(a, pc) \/ Fault(a, pc)
      BY <1>4 DEF Quietly, GiveBack, Refund
    <2>2. /\ calls'[a].cleared \in {calls[a].cleared, FALSE}
          /\ calls'[a].pc = pc /\ calls'[a].landed = calls[a].landed
      BY <1>0, <2>1, Going, Faulting
    <2> QED
      BY <1>3, <2>2
  <1>5. CASE ScreenPass(a) \/ ScreenDeny(a) \/ CallNotReserved(a) \/ RulesWait(a)
             \/ PollDenied(a) \/ PollTimeout(a) \/ SettleFails(a) \/ EdgeRefuse(a)
             \/ CredentialMissing(a) \/ ScreenExpired(a) \/ CallReserve(a) \/ Gate(a)
             \/ AppendFails(a) \/ MintFails(a) \/ Settle(a)
    <2>1. \E pc \in Places \ {"reload", "mint", "edge", "walk", "dispatch", "called"} :
             Quietly(a, pc) \/ GiveBack(a, pc) \/ Refund(a, pc) \/ Goto(a, pc)
                  \/ Fault(a, pc)
      BY <1>5 DEF ScreenPass, ScreenDeny, CallNotReserved, RulesWait, PollDenied,
                  PollTimeout, SettleFails, EdgeRefuse, CredentialMissing, ScreenExpired,
                  CallReserve, Gate, AppendFails, MintFails, Settle
    <2> QED
      BY <1>4, <2>1
  <1>6. ASSUME NEW pc \in Places, Quietly(a, pc)
        PROVE  /\ calls'[a].pc = pc /\ calls'[a].landed = calls[a].landed
               /\ calls'[a].cleared \in {calls[a].cleared, FALSE}
    BY <1>0, <1>6, Going DEF Quietly
  <1>7. CASE RulesPass(a)
    <2>1. Quietly(a, "mint") /\ Passed
      BY <1>0, <1>7 DEF RulesPass, ConsentLaw
    <2> QED
      BY <1>3, <1>6, <2>1
  <1>8. CASE Mint(a)
    <2>1. Quietly(a, "edge") /\ Passed
      BY <1>0, <1>8 DEF Mint, At, ConsentLaw
    <2> QED
      BY <1>3, <1>6, <2>1
  <1>9. CASE PollApproved(a)
    <2>1. Quietly(a, "reload") /\ GetStatus(a) = "approved"
      BY <1>9 DEF PollApproved
    <2>2. decisions[a] = "approved"
      BY <2>1, ControlAssumption DEF GetStatus, Verdicts
    <2> QED
      BY <1>3, <1>6, <2>1, <2>2 DEF ConsentInv
  <1>10. CASE Reload(a)
    <2>1. a \in consented
      BY <1>0, <1>10 DEF Reload, At, ConsentLaw
    <2> QED
      BY <1>3, <1>10, <2>1, Rewriting
  <1>11. CASE EdgeBegin(a) \/ EdgeLook(a)
    <2>1. ~Reload(a)
      BY <1>11 DEF Reload, EdgeBegin, EdgeLook, At
    <2>2. Passed
      BY <1>0, <1>11 DEF EdgeBegin, EdgeLook, At, ConsentLaw
    <2> QED
      BY <1>3, <1>11, <2>1, <2>2, Rewriting
  <1>12. CASE RealCall(a) \/ RealCallRaises(a)
    <2>1. PICK pc \in {"called", "unknown"}, landed \in BOOLEAN : Land(a, pc, landed)
      BY <1>12 DEF RealCall, RealCallRaises
    <2>2. Passed
      BY <1>0, <1>12 DEF RealCall, RealCallRaises, At, ConsentLaw
    <2>3. calls'[a].cleared \in {calls[a].cleared, FALSE} /\ calls'[a].pc = pc
      BY <1>0, <2>1, Landing
    <2> QED
      BY <1>3, <2>2, <2>3
  <1> QED
    BY <1>5, <1>7, <1>8, <1>9, <1>10, <1>11, <1>12 DEF CallStep

LEMMA ConsentInvStep ==
  ASSUME GatewayTypeOK, GrantLoaded, ConsentInv, [GatewayNext]_callVars
  PROVE  ConsentInv'
  <1>1. [Next]_storeVars
    BY GatewayStep
  <1>2. ASSUME NEW a \in ActionIds, calls'[a] # None
        PROVE  ConsentLaw(a)'
    <2>1. CASE CallStep(a)
      BY <2>1, ConsentStep
    <2>2. CASE Untouched(a)
      <3>1. a \in Begun /\ ConsentLaw(a)
        BY <1>2, <2>2 DEF Untouched, Begun, ConsentInv
      <3>2. NeedsApproval(a)' <=> NeedsApproval(a)
        BY <1>1, <2>2, <3>1, RulesFixed DEF Untouched
      <3> QED
        BY <2>2, <3>1, <3>2, ConsentGrows DEF Untouched, ConsentLaw
    <2>3. CASE Begins(a)
      BY <2>3, BeginsAs DEF ConsentLaw
    <2>4. CASE IsLost(a)
      <3>1. a \in Begun /\ ConsentLaw(a)
        BY <2>4, LostAs DEF ConsentInv
      <3>2. NeedsApproval(a)' <=> NeedsApproval(a)
        BY <1>1, <2>4, <3>1, LostAs, RulesFixed
      <3> QED
        BY <2>4, <3>1, <3>2, LostAs DEF ConsentLaw
    <2> QED
      BY <2>1, <2>2, <2>3, <2>4, OneCall
  <1> QED
    BY <1>2, VerdictStep DEF ConsentInv, Begun

(* No action that a rule reserves for a person reaches the provider        *)
(* unless a person approved that very action.                              *)
THEOREM ConsentHonoured == GatewaySpec => []HumanConsent
  <1>1. GatewayInit => ConsentInv
    BY ControlAssumption DEF GatewayInit, ControlInit, ConsentInv, Begun, Verdicts
  <1>2. GatewayTypeOK /\ GrantLoaded /\ ConsentInv /\ [GatewayNext]_callVars => ConsentInv'
    BY ConsentInvStep
  <1>3. ConsentInv => HumanConsent
    BY DEF ConsentInv, ConsentLaw, HumanConsent
  <1> QED
    BY <1>1, <1>2, <1>3, GatewayTypeCorrect, PTL DEF GatewaySpec
=============================================================================
