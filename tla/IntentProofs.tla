---------------------------- MODULE IntentProofs ----------------------------
(***************************************************************************)
(* Theorems about CredentialBroker and IntentExecution, for every set of   *)
(* intents, calls and grants, every amount and both intent stores.         *)
(***************************************************************************)
EXTENDS IntentExecution, AuthorityStoreProofs

-----------------------------------------------------------------------------
(* The tables of the lifecycle and of the plans. *)

LEMMA PlanTable ==
  /\ DOMAIN Plans = {"deny", "allow", "approve", "submit", "accepted", "succeeded",
                     "failed", "refused", "outcome_unknown", "cancelled", "expired"}
  /\ Plans["deny"] = <<"evaluating", "denied">>
  /\ Plans["allow"] =
        <<"evaluating", "authorised", "link", "proof_issued", "executing">>
  /\ Plans["approve"] = <<"evaluating", "requires_approval", "authorised", "link",
                          "proof_issued", "executing">>
  /\ Plans["submit"] =
        <<"evaluating", "authorised", "link", "proof_issued", "submitted">>
  /\ Plans["accepted"] = <<"link">>
  /\ \A result \in Results : Plans[result] = <<"link", result>>
  /\ Plans["cancelled"] = <<"cancelled">>
  /\ Plans["expired"] = <<"expired">>
  BY DEF Plans, Results

LEMMA PlanItems ==
  ASSUME NEW plan \in DOMAIN Plans
  PROVE  /\ Len(Plans[plan]) \in 1..6
         /\ \A n \in 1..Len(Plans[plan]) : Plans[plan][n] \in Lifecycle \cup {"link"}
  <1> USE DEF Lifecycle
  <1>1. CASE plan = "deny"
    BY <1>1, PlanTable
  <1>2. CASE plan = "allow"
    BY <1>2, PlanTable
  <1>3. CASE plan = "approve"
    BY <1>3, PlanTable
  <1>4. CASE plan = "submit"
    BY <1>4, PlanTable
  <1>5. CASE plan \in {"accepted", "cancelled", "expired"}
    <2>1. Plans[plan] \in {<<"link">>, <<"cancelled">>, <<"expired">>}
      BY <1>5, PlanTable
    <2> QED
      BY <2>1
  <1>6. CASE plan \in Results
    <2>1. Plans[plan] = <<"link", plan>>
      BY <1>6, PlanTable
    <2>2. plan \in Lifecycle
      BY <1>6 DEF Results
    <2> QED
      BY <2>1, <2>2
  <1>7. plan \in {"deny", "allow", "approve", "submit", "accepted", "cancelled", "expired"}
          \cup Results
    BY PlanTable DEF Results
  <1> QED
    BY <1>1, <1>2, <1>3, <1>4, <1>5, <1>6, <1>7

(* The four plans that carry an intent out begin with a claim of it.       *)
Opening == {"deny", "allow", "approve", "submit"}

LEMMA OpeningPlans ==
  ASSUME NEW plan \in Opening
  PROVE  /\ Plans[plan][1] = "evaluating"
         /\ Len(Plans[plan]) \in Nat /\ Len(Plans[plan]) >= 2
         /\ plan # "deny" => Plans[plan][Len(Plans[plan])] \in {"executing", "submitted"}
  <1>1. CASE plan = "deny"
    BY <1>1, PlanTable
  <1>2. CASE plan = "allow"
    BY <1>2, PlanTable
  <1>3. CASE plan = "approve"
    BY <1>3, PlanTable
  <1>4. CASE plan = "submit"
    BY <1>4, PlanTable
  <1> QED
    BY <1>1, <1>2, <1>3, <1>4 DEF Opening

LEMMA FinishPlans ==
  ASSUME NEW plan \in Results \cup {"accepted"}, NEW n \in 1..Len(Plans[plan])
  PROVE  Plans[plan][n] \in {"link", plan} /\ (plan = "accepted" => Plans[plan][n] = "link")
  BY PlanTable DEF Results

LEMMA LegalMoves ==
  ASSUME NEW from \in Lifecycle, NEW to \in Transitions[from]
  PROVE  /\ to \in Lifecycle \ {"created"}
         /\ to = "evaluating" => from = "created"
         /\ from \notin {"executing", "submitted", "outcome_unknown", "succeeded",
                         "failed", "expired"} \/ to # "cancelled"
         /\ from # "expired"
  BY DEF Transitions, Lifecycle, Results

-----------------------------------------------------------------------------
(* Attempts. *)

(* The grant of an attempt is in the store for good.                       *)
GrantsLoaded == \A a \in Made : attempts[a].grant \in Stored

LEMMA AttemptOf ==
  ASSUME BrokerTypeOK, NEW a \in Made
  PROVE  a \in ActionIds /\ attempts[a] \in Attempt /\ attempts[a] # None
  BY DEF BrokerTypeOK, Made

LEMMA ShiftedType ==
  ASSUME NEW t \in Attempt, NEW pc \in AttemptPlaces
  PROVE  /\ Shifted(t, pc) \in Attempt
         /\ Shifted(t, pc).pc = pc
         /\ Shifted(t, pc).grant = t.grant
         /\ Shifted(t, pc).cost = t.cost
         /\ Shifted(t, pc).fault = t.fault
         /\ Shifted(t, pc).landed = t.landed
         /\ pc \notin AttemptEnded => Shifted(t, pc).allowed = t.allowed
  <1> DEFINE ended == [t EXCEPT !.pc = pc, !.since = 0, !.allowed = TRUE, !.cred = None]
             going == [t EXCEPT !.pc = pc]
  <1>1. ended \in Attempt /\ going \in Attempt
    BY DEF Attempt
  <1>2. Shifted(t, pc) = IF pc \in AttemptEnded THEN ended ELSE going
    BY DEF Shifted
  <1>3. /\ ended.pc = pc /\ ended.grant = t.grant /\ ended.cost = t.cost
        /\ ended.fault = t.fault /\ ended.landed = t.landed
    BY DEF Attempt
  <1>4. /\ going.pc = pc /\ going.grant = t.grant /\ going.cost = t.cost
        /\ going.fault = t.fault /\ going.landed = t.landed /\ going.allowed = t.allowed
    BY DEF Attempt
  <1> HIDE DEF ended, going
  <1> QED
    BY <1>1, <1>2, <1>3, <1>4

(* A step of an attempt rewrites its own row and keeps what it began with. *)
OwnAttempt(a) ==
    /\ attempts' \in [ActionIds -> Attempt \cup {None}]
    /\ attempts'[a] \in Attempt
    /\ attempts'[a].grant = attempts[a].grant
    /\ attempts'[a].cost = attempts[a].cost
    /\ \A b \in ActionIds : b # a => attempts'[b] = attempts[b]

LEMMA Rewritten ==
  ASSUME BrokerTypeOK, NEW a \in ActionIds, NEW t \in Attempt,
         attempts' = [attempts EXCEPT ![a] = t]
  PROVE  /\ attempts' \in [ActionIds -> Attempt \cup {None}]
         /\ attempts'[a] = t
         /\ \A b \in ActionIds : b # a => attempts'[b] = attempts[b]
  BY DEF BrokerTypeOK

LEMMA Shifting ==
  ASSUME BrokerTypeOK, NEW a \in Made, NEW pc \in AttemptPlaces, Shift(a, pc)
  PROVE  /\ OwnAttempt(a)
         /\ attempts'[a].pc = pc
         /\ attempts'[a].fault = attempts[a].fault
         /\ attempts'[a].landed = attempts[a].landed
         /\ pc \notin AttemptEnded => attempts'[a].allowed = attempts[a].allowed
  <1> DEFINE s == Shifted(attempts[a], pc)
  <1>1. attempts[a] \in Attempt /\ a \in ActionIds
    BY AttemptOf
  <1>2. /\ s \in Attempt /\ s.pc = pc
        /\ s.grant = attempts[a].grant /\ s.cost = attempts[a].cost
        /\ s.fault = attempts[a].fault /\ s.landed = attempts[a].landed
        /\ pc \notin AttemptEnded => s.allowed = attempts[a].allowed
    BY <1>1, ShiftedType
  <1>3. attempts' = [attempts EXCEPT ![a] = s]
    BY DEF Shift
  <1> HIDE DEF s
  <1>4. /\ attempts' \in [ActionIds -> Attempt \cup {None}]
        /\ attempts'[a] = s
        /\ \A b \in ActionIds : b # a => attempts'[b] = attempts[b]
    BY <1>1, <1>2, <1>3, Rewritten
  <1> QED
    BY <1>2, <1>4 DEF OwnAttempt

LEMMA ShiftingFaulty ==
  ASSUME BrokerTypeOK, NEW a \in Made, NEW pc \in AttemptPlaces, ShiftFaulty(a, pc)
  PROVE  /\ OwnAttempt(a)
         /\ attempts'[a].pc = pc
         /\ attempts'[a].fault
         /\ attempts'[a].landed = attempts[a].landed
  <1> DEFINE s == Shifted(attempts[a], pc)
             f == [s EXCEPT !.fault = TRUE]
  <1>1. attempts[a] \in Attempt /\ a \in ActionIds
    BY AttemptOf
  <1>2. /\ s \in Attempt /\ s.pc = pc
        /\ s.grant = attempts[a].grant /\ s.cost = attempts[a].cost
        /\ s.landed = attempts[a].landed
    BY <1>1, ShiftedType
  <1>3. attempts' = [attempts EXCEPT ![a] = f]
    BY DEF ShiftFaulty
  <1> HIDE DEF s
  <1>4. /\ f \in Attempt /\ f.pc = s.pc /\ f.fault = TRUE
        /\ f.grant = s.grant /\ f.cost = s.cost /\ f.landed = s.landed
    BY <1>2 DEF Attempt
  <1> HIDE DEF f
  <1>5. /\ attempts' \in [ActionIds -> Attempt \cup {None}]
        /\ attempts'[a] = f
        /\ \A b \in ActionIds : b # a => attempts'[b] = attempts[b]
    BY <1>1, <1>3, <1>4, Rewritten
  <1> QED
    BY <1>2, <1>4, <1>5 DEF OwnAttempt

(* No step of an attempt touches the reservation of another.               *)
OwnEvent(a) == \A b \in ActionIds : b # a => rateEvents'[b] = rateEvents[b]

LEMMA StoreUntouched ==
  ASSUME UNCHANGED storeVars
  PROVE  [Next]_storeVars /\ Held' = Held /\ Stored' = Stored /\ UNCHANGED rateEvents
  BY DEF storeVars, Held, Stored

LEMMA Returning ==
  ASSUME BrokerTypeOK, NEW a \in Made, NEW pc \in AttemptPlaces, ReturnHold(a, pc)
  PROVE  /\ OwnAttempt(a)
         /\ attempts'[a].pc = pc
         /\ attempts'[a].landed = attempts[a].landed
         /\ [Next]_storeVars
         /\ OwnEvent(a)
         /\ Held' = Held \ {a} \/ (Held' = Held /\ (attempts'[a].fault \/ attempts[a].cost = 0))
  <1>1. /\ a \in ActionIds /\ attempts[a].grant \in GrantIds
        /\ attempts[a].cost \in Amounts
    BY AttemptOf DEF Attempt, Charges
  <1>2. CASE Release(attempts[a].grant, a, attempts[a].cost) /\ Shift(a, pc)
    <2>1. Next
      BY <1>1, <1>2 DEF Next
    <2>2. Held' = Held \ {a}
      BY <1>1, <1>2, ReleaseFrees DEF BrokerTypeOK
    <2>3. OwnEvent(a)
      BY <1>2 DEF Release, OwnEvent, BrokerTypeOK, TypeOK
    <2> QED
      BY <1>2, <2>1, <2>2, <2>3, Shifting
  <1>3. CASE ShiftFaulty(a, pc) /\ UNCHANGED storeVars
    BY <1>3, ShiftingFaulty, StoreUntouched DEF OwnEvent
  <1>4. CASE attempts[a].cost = 0 /\ Shift(a, pc) /\ UNCHANGED storeVars
    BY <1>4, Shifting, StoreUntouched DEF OwnEvent
  <1> QED
    BY <1>2, <1>3, <1>4 DEF ReturnHold

LEMMA StepOfMade ==
  ASSUME NEW a, BrokerStep(a)
  PROVE  a \in Made /\ attempts[a].pc \notin AttemptEnded \cup {"cleared"}
  BY DEF BrokerStep, DecideHold, DecideDeny, ProofFails, ProofPasses, ProofRefused,
         RefuseUnallowed, RefuseEarly, RefuseExperimental, ResolveNew,
         ResolveCached, ResolveExchanged, AdapterRejects, AdapterSends, AdapterAnswers,
         AdapterRaises, SettleAttempt, SettleCrashes, Reached, AttemptEnded, Results

CredTypeOK ==
    live \subseteq ActionIds /\ secrets \subseteq ActionIds /\ cache \in CachedToken \cup {None}

(* Where an attempt may go from where it is.                               *)
Moves ==
    {<<"reserve", "edge">>, <<"reserve", "denied">>, <<"edge", "denied">>,
     <<"edge", "cleared">>, <<"cleared", "ready">>, <<"ready", "refused">>, <<"ready", "failed">>,
     <<"ready", "resolved">>, <<"resolved", "refused">>, <<"resolved", "sent">>,
     <<"sent", "settle">>, <<"sent", "failed">>, <<"sent", "outcome_unknown">>,
     <<"settle", "succeeded">>, <<"settle", "crashed">>}

(* What an attempt holds follows from where it is.                         *)
AttemptLaw(a) ==
    /\ attempts[a] = None => a \notin Held
    /\ a \in Made =>
         /\ attempts[a].pc = "reserve" => a \notin Held
         /\ attempts[a].pc \in {"reserve", "edge"} => attempts[a].allowed
         /\ attempts[a].pc \in {"edge", "resolved", "sent", "settle"} => a \in Held
         /\ attempts[a].pc \in {"cleared", "ready"} =>
              IF attempts[a].allowed THEN a \in Held ELSE attempts[a].fault \/ a \notin Held
         /\ attempts[a].pc \in {"denied", "refused"} =>
              attempts[a].fault \/ attempts[a].cost = 0 \/ a \notin Held
         /\ attempts[a].pc = "succeeded" => a \in Held /\ rateEvents[a].committed
         /\ attempts[a].landed =>
              /\ a \in Held
              /\ attempts[a].pc \in {"sent", "settle", "succeeded", "failed",
                                     "outcome_unknown", "crashed", "lost"}

(* A step of the decision, of the edge, of the broker or of the            *)
(* coordinator moves one attempt, uses the store as it may be used, and    *)
(* leaves the attempt with what its new place says.                        *)
GoodStep(a) ==
    /\ OwnAttempt(a)
    /\ OwnEvent(a)
    /\ [Next]_storeVars
    /\ AttemptLaw(a)'
    /\ <<attempts[a].pc, attempts'[a].pc>> \in Moves
    /\ attempts'[a].landed =>
          attempts[a].landed \/ (attempts[a].pc = "resolved" /\ attempts'[a].pc = "sent")

LEMMA DecisionSteps ==
  ASSUME BrokerTypeOK, NEW a \in ActionIds, AttemptLaw(a),
         DecideHold(a) \/ DecideDeny(a) \/ ProofFails(a) \/ ProofPasses(a) \/ ProofRefused(a)
  PROVE  GoodStep(a) /\ UNCHANGED credVars
  <1> USE DEF Moves, AttemptPlaces, AttemptEnded, Results
  <1>0. /\ a \in Made /\ attempts[a] \in Attempt /\ attempts[a] # None
        /\ attempts[a].grant \in GrantIds /\ attempts[a].cost \in Amounts
        /\ attempts[a].since \in Nat
    BY StepOfMade, AttemptOf DEF BrokerStep, Attempt, Charges
  <1>1. ASSUME NEW t, t \in Attempt PROVE t # None
    BY <1>1, BrokerAssumption
  <1>2. CASE DecideHold(a)
    <2>1. PICK ts \in attempts[a].since..now :
             Reserve(attempts[a].grant, a, attempts[a].cost, None, ts)
      BY <1>2 DEF DecideHold
    <2>2. ts \in Nat /\ ts \in 0..now
      BY <1>0 DEF BrokerTypeOK, TypeOK
    <2>3. Next
      BY <1>0, <2>1, <2>2 DEF Next
    <2>4. Held' = Held \cup {a}
      BY <1>0, <2>1, <2>2, ReserveHolds DEF BrokerTypeOK
    <2>5. OwnEvent(a)
      BY <2>1 DEF Reserve, OwnEvent, BrokerTypeOK, TypeOK
    <2>6. Shift(a, "edge") /\ attempts[a].pc = "reserve" /\ UNCHANGED credVars
      BY <1>2 DEF DecideHold, Reached
    <2>7. /\ OwnAttempt(a) /\ attempts'[a].pc = "edge"
          /\ attempts'[a].landed = attempts[a].landed
          /\ attempts'[a].allowed = attempts[a].allowed
      BY <1>0, <2>6, Shifting
    <2>8. ~attempts[a].landed
      BY <1>0, <2>6 DEF AttemptLaw
    <2>9. AttemptLaw(a)'
      BY <1>0, <1>1, <2>4, <2>6, <2>7, <2>8 DEF AttemptLaw, Made, OwnAttempt
    <2> QED
      BY <2>3, <2>5, <2>6, <2>7, <2>9 DEF GoodStep
  <1>3. CASE DecideDeny(a) \/ ProofPasses(a)
    <2>1. PICK pc \in {"denied", "cleared"} :
             /\ Shift(a, pc) /\ UNCHANGED <<storeVars, credVars>>
             /\ <<attempts[a].pc, pc>> \in {<<"reserve", "denied">>, <<"edge", "cleared">>}
      BY <1>3 DEF DecideDeny, ProofPasses, Reached
    <2>2. /\ OwnAttempt(a) /\ attempts'[a].pc = pc
          /\ attempts'[a].landed = attempts[a].landed
          /\ pc = "cleared" => attempts'[a].allowed = attempts[a].allowed
      BY <1>0, <2>1, Shifting
    <2>3. [Next]_storeVars /\ Held' = Held /\ OwnEvent(a)
      BY <2>1, StoreUntouched DEF OwnEvent
    <2>4. AttemptLaw(a)'
      BY <1>0, <1>1, <2>1, <2>2, <2>3 DEF AttemptLaw, Made, OwnAttempt
    <2> QED
      BY <2>1, <2>2, <2>3, <2>4 DEF GoodStep
  <1>4. CASE ProofFails(a)
    <2>1. ShiftFaulty(a, "denied") /\ UNCHANGED <<storeVars, credVars>> /\ attempts[a].pc = "edge"
      BY <1>4 DEF ProofFails, Reached
    <2>2. /\ OwnAttempt(a) /\ attempts'[a].pc = "denied" /\ attempts'[a].fault
          /\ attempts'[a].landed = attempts[a].landed
      BY <1>0, <2>1, ShiftingFaulty
    <2>3. [Next]_storeVars /\ Held' = Held /\ OwnEvent(a)
      BY <2>1, StoreUntouched DEF OwnEvent
    <2>4. AttemptLaw(a)'
      BY <1>0, <1>1, <2>1, <2>2, <2>3 DEF AttemptLaw, Made, OwnAttempt
    <2> QED
      BY <2>1, <2>2, <2>3, <2>4 DEF GoodStep
  <1>5. CASE ProofRefused(a)
    <2>1. ReturnHold(a, "denied") /\ UNCHANGED credVars /\ attempts[a].pc = "edge"
      BY <1>5 DEF ProofRefused, Reached
    <2>2. /\ OwnAttempt(a) /\ attempts'[a].pc = "denied"
          /\ attempts'[a].landed = attempts[a].landed
          /\ [Next]_storeVars /\ OwnEvent(a)
          /\ a \notin Held' \/ attempts'[a].fault \/ attempts[a].cost = 0
      BY <1>0, <2>1, Returning
    <2>3. AttemptLaw(a)'
      BY <1>0, <1>1, <2>1, <2>2 DEF AttemptLaw, Made, OwnAttempt
    <2> QED
      BY <2>1, <2>2, <2>3 DEF GoodStep
  <1> QED
    BY <1>2, <1>3, <1>4, <1>5

LEMMA RefusalSteps ==
  ASSUME BrokerTypeOK, NEW a \in ActionIds, AttemptLaw(a),
         RefuseUnallowed(a) \/ RefuseEarly(a) \/ RefuseExperimental(a)
  PROVE  GoodStep(a) /\ UNCHANGED credVars /\ attempts[a].pc = "ready"
  <1> USE DEF Moves, AttemptPlaces, AttemptEnded, Results
  <1>0. /\ a \in Made /\ attempts[a] \in Attempt /\ attempts[a] # None
    BY StepOfMade, AttemptOf DEF BrokerStep
  <1>1. ASSUME NEW t, t \in Attempt PROVE t # None
    BY <1>1, BrokerAssumption
  <1>2. CASE RefuseUnallowed(a) \/ RefuseExperimental(a)
    <2>1. PICK pc \in {"refused", "failed"} :
             /\ Shift(a, pc) /\ UNCHANGED <<storeVars, credVars>>
             /\ attempts[a].pc = "ready" /\ (pc = "refused" => ~attempts[a].allowed)
      BY <1>2 DEF RefuseUnallowed, RefuseExperimental, Reached
    <2>2. /\ OwnAttempt(a) /\ attempts'[a].pc = pc
          /\ attempts'[a].landed = attempts[a].landed
          /\ attempts'[a].fault = attempts[a].fault
      BY <1>0, <2>1, Shifting
    <2>3. [Next]_storeVars /\ Held' = Held /\ OwnEvent(a)
      BY <2>1, StoreUntouched DEF OwnEvent
    <2>4. AttemptLaw(a)'
      BY <1>0, <1>1, <2>1, <2>2, <2>3 DEF AttemptLaw, Made, OwnAttempt
    <2> QED
      BY <2>1, <2>2, <2>3, <2>4 DEF GoodStep
  <1>3. CASE RefuseEarly(a)
    <2>1. ReturnHold(a, "refused") /\ UNCHANGED credVars /\ attempts[a].pc = "ready"
      BY <1>3 DEF RefuseEarly, Reached
    <2>2. /\ OwnAttempt(a) /\ attempts'[a].pc = "refused"
          /\ attempts'[a].landed = attempts[a].landed
          /\ [Next]_storeVars /\ OwnEvent(a)
          /\ a \notin Held' \/ attempts'[a].fault \/ attempts[a].cost = 0
      BY <1>0, <2>1, Returning
    <2>3. AttemptLaw(a)'
      BY <1>0, <1>1, <2>1, <2>2 DEF AttemptLaw, Made, OwnAttempt
    <2> QED
      BY <2>1, <2>2, <2>3 DEF GoodStep
  <1> QED
    BY <1>2, <1>3

LEMMA ResolveSteps ==
  ASSUME BrokerTypeOK, NEW a \in ActionIds, AttemptLaw(a),
         ResolveNew(a) \/ ResolveCached(a) \/ ResolveExchanged(a)
  PROVE  /\ GoodStep(a)
         /\ attempts'[a].cred \in ActionIds
         /\ attempts'[a].pc = "resolved"
         /\ live' = live \cup {attempts'[a].cred}
         /\ secrets' \in {secrets, secrets \cup {attempts'[a].cred}}
         /\ cache' \in CachedToken \cup {None}
  <1> USE DEF Moves, AttemptPlaces, AttemptEnded, Results
  <1>0. /\ a \in Made /\ attempts[a] \in Attempt /\ attempts[a] # None
    BY StepOfMade, AttemptOf DEF BrokerStep
  <1>1. ASSUME NEW t, t \in Attempt PROVE t # None
    BY <1>1, BrokerAssumption
  <1>2. now \in Nat /\ cache \in CachedToken \cup {None} /\ None \notin CachedToken
    BY BrokerAssumption DEF BrokerTypeOK, TypeOK
  <1>3. \E c \in ActionIds :
          /\ TakeCredential(a, c)
          /\ attempts[a].pc = "ready" /\ attempts[a].allowed
          /\ secrets' \in {secrets, secrets \cup {c}}
          /\ cache' \in CachedToken \cup {None}
    <2>1. CASE ResolveNew(a)
      BY <1>2, <2>1 DEF ResolveNew, Reached
    <2>2. CASE ResolveCached(a)
      <3>1. cache \in CachedToken
        BY <1>2, <2>2 DEF ResolveCached, CacheFresh
      <3> QED
        BY <2>2, <3>1 DEF ResolveCached, Reached, CachedToken
    <2>3. CASE ResolveExchanged(a)
      BY <1>2, <2>3 DEF ResolveExchanged, Reached, CachedToken
    <2> QED
      BY <2>1, <2>2, <2>3
  <1>4. PICK c \in ActionIds :
          /\ TakeCredential(a, c)
          /\ attempts[a].pc = "ready" /\ attempts[a].allowed
          /\ secrets' \in {secrets, secrets \cup {c}}
          /\ cache' \in CachedToken \cup {None}
    BY <1>3
  <1> DEFINE t == [attempts[a] EXCEPT !.pc = "resolved", !.cred = c]
  <1>5. /\ attempts' = [attempts EXCEPT ![a] = t]
        /\ live' = live \cup {c} /\ UNCHANGED storeVars
    BY <1>4 DEF TakeCredential, BrokerTypeOK
  <1>6. /\ t \in Attempt /\ t.pc = "resolved" /\ t.cred = c
        /\ t.grant = attempts[a].grant /\ t.cost = attempts[a].cost
        /\ t.landed = attempts[a].landed
    BY <1>0 DEF Attempt
  <1> HIDE DEF t
  <1>7. attempts'[a] = t /\ OwnAttempt(a)
    BY <1>5, <1>6, Rewritten DEF OwnAttempt
  <1>8. [Next]_storeVars /\ Held' = Held /\ OwnEvent(a)
    BY <1>5, StoreUntouched DEF OwnEvent
  <1>9. AttemptLaw(a)'
    BY <1>0, <1>1, <1>4, <1>6, <1>7, <1>8 DEF AttemptLaw, Made
  <1> QED
    BY <1>0, <1>4, <1>5, <1>6, <1>7, <1>8, <1>9 DEF GoodStep, AttemptLaw

LEMMA AdapterSteps ==
  ASSUME BrokerTypeOK, NEW a \in ActionIds, AttemptLaw(a),
         AdapterRejects(a) \/ AdapterAnswers(a) \/ AdapterRaises(a)
  PROVE  /\ GoodStep(a)
         /\ DestroyCredential(attempts[a].cred)
         /\ attempts[a].pc \in {"resolved", "sent"}
  <1> USE DEF Moves, AttemptPlaces, AttemptEnded, Results
  <1>0. /\ a \in Made /\ attempts[a] \in Attempt /\ attempts[a] # None
    BY StepOfMade, AttemptOf DEF BrokerStep
  <1>1. ASSUME NEW t, t \in Attempt PROVE t # None
    BY <1>1, BrokerAssumption
  <1>2. CASE AdapterRejects(a)
    <2>1. /\ ReturnHold(a, "refused") /\ attempts[a].pc = "resolved"
          /\ DestroyCredential(attempts[a].cred)
      BY <1>2 DEF AdapterRejects, Reached
    <2>2. /\ OwnAttempt(a) /\ attempts'[a].pc = "refused"
          /\ attempts'[a].landed = attempts[a].landed
          /\ [Next]_storeVars /\ OwnEvent(a)
          /\ a \notin Held' \/ attempts'[a].fault \/ attempts[a].cost = 0
      BY <1>0, <2>1, Returning
    <2>3. AttemptLaw(a)'
      BY <1>0, <1>1, <2>1, <2>2 DEF AttemptLaw, Made, OwnAttempt
    <2> QED
      BY <2>1, <2>2, <2>3 DEF GoodStep
  <1>3. CASE AdapterAnswers(a) \/ AdapterRaises(a)
    <2>1. PICK pc \in {"settle", "failed", "outcome_unknown"} :
             /\ Shift(a, pc) /\ UNCHANGED storeVars
             /\ attempts[a].pc = "sent" /\ DestroyCredential(attempts[a].cred)
      BY <1>3 DEF AdapterAnswers, AdapterRaises, RaisedAfterSend, Reached
    <2>2. /\ OwnAttempt(a) /\ attempts'[a].pc = pc
          /\ attempts'[a].landed = attempts[a].landed
      BY <1>0, <2>1, Shifting
    <2>3. [Next]_storeVars /\ Held' = Held /\ OwnEvent(a)
      BY <2>1, StoreUntouched DEF OwnEvent
    <2>4. AttemptLaw(a)'
      BY <1>0, <1>1, <2>1, <2>2, <2>3 DEF AttemptLaw, Made, OwnAttempt
    <2> QED
      BY <2>1, <2>2, <2>3, <2>4 DEF GoodStep
  <1> QED
    BY <1>2, <1>3

LEMMA SendStep ==
  ASSUME BrokerTypeOK, NEW a \in ActionIds, AttemptLaw(a), AdapterSends(a)
  PROVE  /\ GoodStep(a) /\ UNCHANGED credVars
         /\ attempts[a].pc = "resolved" /\ attempts'[a].pc = "sent"
         /\ attempts'[a].cred = attempts[a].cred
  <1> USE DEF Moves, AttemptPlaces, AttemptEnded, Results
  <1>0. /\ a \in Made /\ attempts[a] \in Attempt /\ attempts[a] # None
    BY StepOfMade, AttemptOf DEF BrokerStep
  <1>1. ASSUME NEW t, t \in Attempt PROVE t # None
    BY <1>1, BrokerAssumption
  <1>2. PICK landed \in BOOLEAN :
          attempts' = [attempts EXCEPT ![a] = [@ EXCEPT !.pc = "sent", !.landed = landed]]
    BY DEF AdapterSends
  <1> DEFINE t == [attempts[a] EXCEPT !.pc = "sent", !.landed = landed]
  <1>3. attempts' = [attempts EXCEPT ![a] = t] /\ attempts[a].pc = "resolved"
        /\ UNCHANGED <<storeVars, credVars>>
    BY <1>2 DEF AdapterSends, Reached, BrokerTypeOK
  <1>4. /\ t \in Attempt /\ t.pc = "sent" /\ t.cred = attempts[a].cred
        /\ t.grant = attempts[a].grant /\ t.cost = attempts[a].cost
    BY <1>0 DEF Attempt
  <1> HIDE DEF t
  <1>5. attempts'[a] = t /\ OwnAttempt(a)
    BY <1>3, <1>4, Rewritten DEF OwnAttempt
  <1>6. [Next]_storeVars /\ Held' = Held /\ OwnEvent(a)
    BY <1>3, StoreUntouched DEF OwnEvent
  <1>7. AttemptLaw(a)'
    BY <1>0, <1>1, <1>3, <1>4, <1>5, <1>6 DEF AttemptLaw, Made
  <1> QED
    BY <1>3, <1>4, <1>5, <1>6, <1>7 DEF GoodStep

LEMMA SettleSteps ==
  ASSUME BrokerTypeOK, NEW a \in ActionIds, AttemptLaw(a),
         SettleAttempt(a) \/ SettleCrashes(a)
  PROVE  GoodStep(a) /\ UNCHANGED credVars /\ attempts[a].pc = "settle"
  <1> USE DEF Moves, AttemptPlaces, AttemptEnded, Results
  <1>0. /\ a \in Made /\ attempts[a] \in Attempt /\ attempts[a] # None
        /\ attempts[a].grant \in GrantIds /\ attempts[a].cost \in Amounts
    BY StepOfMade, AttemptOf DEF BrokerStep, Attempt, Charges
  <1>1. ASSUME NEW t, t \in Attempt PROVE t # None
    BY <1>1, BrokerAssumption
  <1>2. CASE SettleAttempt(a)
    <2>1. PICK actual \in Charges :
             Commit(attempts[a].grant, a, actual, attempts[a].cost)
      BY <1>2 DEF SettleAttempt
    <2>2. actual \in Amounts
      BY DEF Charges
    <2>3. Next
      BY <1>0, <2>1, <2>2 DEF Next
    <2>4. Held' = Held
      BY <1>0, <2>1, <2>2, CommitHolds DEF BrokerTypeOK
    <2>5. OwnEvent(a) /\ rateEvents'[a].committed
      <3>1. /\ rateEvents[a] \in RateEvent
            /\ rateEvents' = [rateEvents EXCEPT ![a] =
                  [rateEvents[a] EXCEPT !.committed = TRUE, !.actual = PosPart(actual)]]
        BY <2>1 DEF Commit, Reservation, Held, BrokerTypeOK, TypeOK
      <3> QED
        BY <3>1 DEF OwnEvent, RateEvent, BrokerTypeOK, TypeOK
    <2>6. Shift(a, "succeeded") /\ attempts[a].pc = "settle" /\ UNCHANGED credVars
      BY <1>2 DEF SettleAttempt, Reached
    <2>7. /\ OwnAttempt(a) /\ attempts'[a].pc = "succeeded"
          /\ attempts'[a].landed = attempts[a].landed
      BY <1>0, <2>6, Shifting
    <2>8. AttemptLaw(a)'
      BY <1>0, <1>1, <2>4, <2>5, <2>6, <2>7 DEF AttemptLaw, Made, OwnAttempt
    <2> QED
      BY <2>3, <2>5, <2>6, <2>7, <2>8 DEF GoodStep
  <1>3. CASE SettleCrashes(a)
    <2>1. Shift(a, "crashed") /\ UNCHANGED <<storeVars, credVars>> /\ attempts[a].pc = "settle"
      BY <1>3 DEF SettleCrashes, Reached
    <2>2. /\ OwnAttempt(a) /\ attempts'[a].pc = "crashed"
          /\ attempts'[a].landed = attempts[a].landed
      BY <1>0, <2>1, Shifting
    <2>3. [Next]_storeVars /\ Held' = Held /\ OwnEvent(a)
      BY <2>1, StoreUntouched DEF OwnEvent
    <2>4. AttemptLaw(a)'
      BY <1>0, <1>1, <2>1, <2>2, <2>3 DEF AttemptLaw, Made, OwnAttempt
    <2> QED
      BY <2>1, <2>2, <2>3, <2>4 DEF GoodStep
  <1> QED
    BY <1>2, <1>3

LEMMA CoordinateStep ==
  ASSUME BrokerTypeOK, NEW a \in ActionIds, AttemptLaw(a), Coordinate(a)
  PROVE  /\ GoodStep(a) /\ UNCHANGED credVars /\ a \in Made
         /\ attempts[a].pc = "cleared" /\ attempts'[a].pc = "ready"
  <1> USE DEF Moves, AttemptPlaces, AttemptEnded, Results
  <1>0. /\ a \in Made /\ attempts[a] \in Attempt /\ attempts[a] # None
        /\ attempts[a].pc = "cleared" /\ Shift(a, "ready")
        /\ UNCHANGED <<storeVars, credVars>>
    BY AttemptOf DEF Coordinate, Reached
  <1>1. /\ OwnAttempt(a) /\ attempts'[a].pc = "ready"
        /\ attempts'[a].landed = attempts[a].landed
        /\ attempts'[a].fault = attempts[a].fault
        /\ attempts'[a].allowed = attempts[a].allowed
    BY <1>0, Shifting
  <1>2. [Next]_storeVars /\ Held' = Held /\ OwnEvent(a)
    BY <1>0, StoreUntouched DEF OwnEvent
  <1>3. attempts'[a] # None
    BY <1>1, BrokerAssumption DEF OwnAttempt
  <1>4. AttemptLaw(a)'
    BY <1>0, <1>1, <1>2, <1>3 DEF AttemptLaw, Made
  <1> QED
    BY <1>0, <1>1, <1>2, <1>4 DEF GoodStep

(* Credential objects.  Whatever holds a value is tracked, and whatever is *)
(* tracked is in the hand of an attempt.                                   *)
SecretLaw == secrets \subseteq live /\ live \subseteq InHand

InHandOf(a) == a \in Made /\ attempts[a].pc \in {"resolved", "sent"}

LEMMA HandKept ==
  ASSUME SecretLaw, NEW a \in ActionIds,
         \A b \in ActionIds : b # a => attempts'[b] = attempts[b]
  PROVE  \A c \in live : c \in InHand' \/ (InHandOf(a) /\ c = attempts[a].cred)
  BY DEF SecretLaw, InHand, InHandOf, Made

LEMMA NoHand ==
  ASSUME SecretLaw, NEW a \in ActionIds, ~InHandOf(a), UNCHANGED credVars,
         \A b \in ActionIds : b # a => attempts'[b] = attempts[b]
  PROVE  SecretLaw'
  BY HandKept DEF SecretLaw, credVars

LEMMA BrokerSteps ==
  ASSUME BrokerTypeOK, NEW a \in ActionIds, AttemptLaw(a), SecretLaw, BrokerStep(a)
  PROVE  GoodStep(a) /\ CredTypeOK' /\ SecretLaw'
  <1>0. CredTypeOK /\ a \in Made /\ attempts[a] \in Attempt
    BY StepOfMade, AttemptOf DEF BrokerTypeOK, CredTypeOK
  <1>1. ASSUME GoodStep(a)
        PROVE  \A b \in ActionIds : b # a => attempts'[b] = attempts[b]
    BY <1>1 DEF GoodStep, OwnAttempt
  <1>2. ASSUME UNCHANGED credVars
        PROVE  CredTypeOK'
    BY <1>0, <1>2 DEF credVars, CredTypeOK
  <1>3. CASE DecideHold(a) \/ DecideDeny(a) \/ ProofFails(a) \/ ProofPasses(a)
             \/ ProofRefused(a)
    <2>1. GoodStep(a) /\ UNCHANGED credVars
      BY <1>3, DecisionSteps
    <2>2. ~InHandOf(a)
      BY <1>3 DEF InHandOf, DecideHold, DecideDeny, ProofFails, ProofPasses, ProofRefused,
                  Reached
    <2> QED
      BY <1>1, <1>2, <2>1, <2>2, NoHand
  <1>4. CASE RefuseUnallowed(a) \/ RefuseEarly(a) \/ RefuseExperimental(a)
    <2>1. GoodStep(a) /\ UNCHANGED credVars /\ ~InHandOf(a)
      BY <1>4, RefusalSteps DEF InHandOf
    <2> QED
      BY <1>1, <1>2, <2>1, NoHand
  <1>5. CASE ResolveNew(a) \/ ResolveCached(a) \/ ResolveExchanged(a)
    <2> DEFINE c == attempts'[a].cred
    <2>1. /\ GoodStep(a) /\ c \in ActionIds /\ attempts'[a].pc = "resolved"
          /\ live' = live \cup {c} /\ secrets' \in {secrets, secrets \cup {c}}
          /\ cache' \in CachedToken \cup {None}
      BY <1>5, ResolveSteps
    <2>2. ~InHandOf(a)
      BY <1>5 DEF InHandOf, ResolveNew, ResolveCached, ResolveExchanged, Reached
    <2>3. attempts'[a] # None
      BY <2>1, BrokerAssumption DEF GoodStep, OwnAttempt
    <2>4. c \in InHand'
      BY <2>1, <2>3 DEF InHand, Made
    <2>5. live \subseteq InHand'
      BY <1>1, <2>1, <2>2, HandKept
    <2> HIDE DEF c
    <2> QED
      BY <1>0, <2>1, <2>4, <2>5 DEF SecretLaw, CredTypeOK
  <1>6. CASE AdapterRejects(a) \/ AdapterAnswers(a) \/ AdapterRaises(a)
    <2>1. GoodStep(a) /\ DestroyCredential(attempts[a].cred)
      BY <1>6, AdapterSteps
    <2>2. \A c \in live : c \in InHand' \/ c = attempts[a].cred
      BY <1>1, <2>1, HandKept
    <2> QED
      BY <1>0, <2>1, <2>2 DEF DestroyCredential, SecretLaw, CredTypeOK
  <1>7. CASE AdapterSends(a)
    <2>1. /\ GoodStep(a) /\ UNCHANGED credVars /\ attempts'[a].pc = "sent"
          /\ attempts'[a].cred = attempts[a].cred
      BY <1>7, SendStep
    <2>2. attempts'[a] # None
      BY <2>1, BrokerAssumption DEF GoodStep, OwnAttempt
    <2>3. attempts[a].cred \in InHand'
      BY <2>1, <2>2 DEF InHand, Made
    <2>4. live \subseteq InHand'
      BY <1>1, <2>1, <2>3, HandKept
    <2> QED
      BY <1>2, <2>1, <2>4 DEF SecretLaw, credVars
  <1>8. CASE SettleAttempt(a) \/ SettleCrashes(a)
    <2>1. GoodStep(a) /\ UNCHANGED credVars /\ ~InHandOf(a)
      BY <1>8, SettleSteps DEF InHandOf
    <2> QED
      BY <1>1, <1>2, <2>1, NoHand
  <1> QED
    BY <1>3, <1>4, <1>5, <1>6, <1>7, <1>8 DEF BrokerStep

-----------------------------------------------------------------------------
(* Runs.  Where a run is says where its attempt is. *)

RunLaw(a) ==
    /\ runs[a].pc = "decide" =>
          a \in Made /\ attempts[a].pc \in {"reserve", "edge", "cleared", "denied"}
    /\ runs[a].pc = "advance" =>
          /\ runs[a].plan \in Opening \cup {"cancelled", "expired"}
          /\ runs[a].plan = "deny" => Reached(a, "denied")
          /\ runs[a].plan \in {"allow", "approve"} => Reached(a, "cleared")
          /\ runs[a].plan \notin {"deny", "allow", "approve"} => a \notin Made
    /\ runs[a].pc = "dispatch" =>
          a \in Made /\ attempts[a].pc \in {"ready", "resolved", "sent", "settle", "crashed"}
                                            \cup Results
    /\ runs[a].pc = "posted" => a \notin Made
    /\ runs[a].pc = "finish" =>
          /\ runs[a].plan \in Results \cup {"accepted"}
          /\ runs[a].plan = "succeeded" => runs[a].acted \/ Reached(a, "succeeded")
          /\ runs[a].plan = "refused" => ~Acted(a)
    /\ runs[a].pc \in {"finish"} \cup RunEnded => ~Pending(a)
    /\ runs[a].pc \notin RunEnded => intents[runs[a].intent] # None
    /\ runs[a].pc \in {"decide", "advance", "dispatch"} => ~runs[a].acted
    /\ runs[a].read # None => ~Ephemeral /\ Walking(a) /\ ~Finished(a)

Laws ==
    /\ IntentTypeOK
    /\ GrantsLoaded
    /\ SecretLaw
    /\ \A a \in ActionIds : AttemptLaw(a)
    /\ \A a \in Started : RunLaw(a)

(* The steps of one caller.                                                *)
Begins(a) ==
    \E g \in Tokens, cost \in Charges :
        CallAdapterTool(a, g, cost) \/ \E i \in IntentIds : Execute(a, i, g, cost)

Opens(a) ==
    \E i \in IntentIds : Submit(a, i) \/ \E state \in HandStates : SetByHand(a, i, state)

CallerStep(a) == Begins(a) \/ Opens(a) \/ AttemptStep(a) \/ RunStep(a)

LEMMA IntentSteps ==
  ASSUME IntentNext
  PROVE  \/ IntentEnvironment \/ IntentRestart
         \/ \E i \in IntentIds : Create(i)
         \/ \E a \in ActionIds : CallerStep(a)
  BY DEF IntentNext, CallerStep, Begins, Opens

(* What a caller's step does to its attempt and to the store.              *)
AttemptSide(a) ==
    /\ attempts' \in [ActionIds -> Attempt \cup {None}]
    /\ \A b \in ActionIds : b # a => attempts'[b] = attempts[b]
    /\ OwnEvent(a)
    /\ [Next]_storeVars
    /\ AttemptLaw(a)'
    /\ CredTypeOK'
    /\ SecretLaw'
    /\ a \notin Made => attempts'[a] = None
                         \/ (attempts'[a].grant \in Stored /\ ~attempts'[a].landed)
    /\ a \in Made =>
         /\ attempts'[a] # None
         /\ attempts'[a].grant = attempts[a].grant
         /\ attempts'[a].landed =>
              attempts[a].landed \/ (attempts[a].pc = "resolved" /\ attempts'[a].pc = "sent")

LEMMA SideOfGood ==
  ASSUME BrokerTypeOK, NEW a \in Made, GoodStep(a), CredTypeOK', SecretLaw'
  PROVE  AttemptSide(a)
  <1>1. attempts'[a] # None
    BY BrokerAssumption DEF GoodStep, OwnAttempt
  <1> QED
    BY <1>1 DEF AttemptSide, GoodStep, OwnAttempt

LEMMA SideOfNothing ==
  ASSUME BrokerTypeOK, NEW a \in ActionIds, AttemptLaw(a), SecretLaw, UNCHANGED brokerVars
  PROVE  AttemptSide(a)
  <1>1. UNCHANGED <<storeVars, attempts, live, secrets, cache>>
    BY DEF brokerVars, credVars
  <1>2. [Next]_storeVars /\ Held' = Held /\ OwnEvent(a) /\ UNCHANGED rateEvents
    BY <1>1, StoreUntouched DEF OwnEvent
  <1>3. AttemptLaw(a)'
    BY <1>1, <1>2 DEF AttemptLaw, Made
  <1>4. CredTypeOK' /\ SecretLaw'
    BY <1>1 DEF BrokerTypeOK, CredTypeOK, SecretLaw, InHand, Made
  <1> QED
    BY <1>1, <1>2, <1>3, <1>4 DEF AttemptSide, BrokerTypeOK, Made

LEMMA Abandoning ==
  ASSUME BrokerTypeOK, NEW a \in ActionIds, AttemptLaw(a), SecretLaw, ~InHandOf(a),
         Abandon(a), UNCHANGED <<storeVars, credVars>>
  PROVE  AttemptSide(a) /\ ~Pending(a)'
  <1> USE DEF AttemptPlaces, AttemptEnded, Results
  <1>1. CASE a \in Made /\ Pending(a)
    <2>1. Shift(a, "crashed")
      BY <1>1 DEF Abandon, Shift, Made, BrokerTypeOK
    <2>2. /\ OwnAttempt(a) /\ attempts'[a].pc = "crashed"
          /\ attempts'[a].landed = attempts[a].landed
      BY <1>1, <2>1, Shifting
    <2>3. attempts'[a] # None
      BY <2>2, BrokerAssumption DEF OwnAttempt
    <2>4. [Next]_storeVars /\ Held' = Held /\ OwnEvent(a) /\ UNCHANGED rateEvents
      BY StoreUntouched DEF OwnEvent
    <2>5. AttemptLaw(a)'
      BY <1>1, <2>2, <2>3, <2>4 DEF AttemptLaw, Made
    <2>6. SecretLaw'
      BY <2>2, NoHand DEF OwnAttempt
    <2>7. CredTypeOK'
      BY DEF credVars, CredTypeOK, BrokerTypeOK
    <2>8. ~Pending(a)'
      BY <2>2 DEF Pending
    <2> QED
      BY <1>1, <2>2, <2>3, <2>4, <2>5, <2>6, <2>7, <2>8 DEF AttemptSide, OwnAttempt
  <1>2. CASE ~(a \in Made /\ Pending(a))
    <2>1. attempts' = attempts
      BY <1>2 DEF Abandon, BrokerTypeOK, Made
    <2>2. UNCHANGED brokerVars
      BY <2>1 DEF brokerVars
    <2> QED
      BY <1>2, <2>1, <2>2, SideOfNothing DEF Pending, Made
  <1> QED
    BY <1>1, <1>2

LEMMA ApprovalSide ==
  ASSUME BrokerTypeOK, NEW a \in Made, AttemptLaw(a), SecretLaw, OwnAttempt(a), OwnEvent(a),
         [Next]_storeVars, UNCHANGED credVars, attempts[a].pc = "edge",
         attempts'[a].pc = "cleared", ~attempts'[a].allowed,
         attempts'[a].landed = attempts[a].landed, attempts'[a].fault \/ a \notin Held'
  PROVE  AttemptSide(a)
  <1>1. attempts'[a] # None /\ ~attempts[a].landed
    BY BrokerAssumption DEF OwnAttempt, AttemptLaw
  <1>2. AttemptLaw(a)'
    BY <1>1 DEF AttemptLaw, Made
  <1>3. SecretLaw'
    BY NoHand, AttemptOf DEF OwnAttempt, InHandOf
  <1>4. CredTypeOK'
    BY DEF credVars, CredTypeOK, BrokerTypeOK
  <1> QED
    BY <1>1, <1>2, <1>3, <1>4 DEF AttemptSide, OwnAttempt

LEMMA Approving ==
  ASSUME BrokerTypeOK, NEW a \in ActionIds, AttemptLaw(a), SecretLaw, NeedApproval(a)
  PROVE  AttemptSide(a) /\ a \in Made /\ attempts'[a].pc = "cleared" /\ ~attempts'[a].allowed
  <1> USE DEF AttemptPlaces, AttemptEnded, Results
  <1>0. /\ a \in Made /\ attempts[a] \in Attempt /\ attempts[a] # None
        /\ attempts[a].grant \in GrantIds /\ attempts[a].cost \in Amounts
        /\ attempts[a].pc = "edge" /\ UNCHANGED credVars
    BY AttemptOf DEF NeedApproval, Reached, Attempt, Charges
  <1> DEFINE t(fault) == [attempts[a] EXCEPT !.pc = "cleared", !.allowed = FALSE, !.fault = fault]
             u == [attempts[a] EXCEPT !.pc = "cleared", !.allowed = FALSE]
  <1>1. ASSUME NEW fault \in BOOLEAN
        PROVE  /\ t(fault) \in Attempt /\ t(fault).pc = "cleared" /\ t(fault).allowed = FALSE
               /\ t(fault).grant = attempts[a].grant /\ t(fault).cost = attempts[a].cost
               /\ t(fault).landed = attempts[a].landed /\ t(fault).fault = fault
    BY <1>0 DEF Attempt
  <1>2. /\ u \in Attempt /\ u.pc = "cleared" /\ u.allowed = FALSE
        /\ u.grant = attempts[a].grant /\ u.cost = attempts[a].cost
        /\ u.landed = attempts[a].landed
    BY <1>0 DEF Attempt
  <1>3. CASE /\ Release(attempts[a].grant, a, attempts[a].cost)
             /\ attempts' = [attempts EXCEPT ![a] = u]
    <2> HIDE DEF u
    <2>1. attempts'[a] = u /\ OwnAttempt(a)
      BY <1>2, <1>3, Rewritten DEF OwnAttempt
    <2>2. Next
      BY <1>0, <1>3 DEF Next
    <2>3. Held' = Held \ {a}
      BY <1>0, <1>3, ReleaseFrees DEF BrokerTypeOK
    <2>4. OwnEvent(a)
      BY <1>3 DEF Release, OwnEvent, BrokerTypeOK, TypeOK
    <2> QED
      BY <1>0, <1>2, <2>1, <2>2, <2>3, <2>4, ApprovalSide
  <1>4. CASE /\ attempts' = [attempts EXCEPT ![a] = t(TRUE)]
             /\ UNCHANGED storeVars
    <2> HIDE DEF t
    <2>1. attempts'[a] = t(TRUE) /\ OwnAttempt(a)
      BY <1>1, <1>4, Rewritten DEF OwnAttempt
    <2>2. [Next]_storeVars /\ OwnEvent(a)
      BY <1>4, StoreUntouched DEF OwnEvent
    <2> QED
      BY <1>0, <1>1, <2>1, <2>2, ApprovalSide
  <1> QED
    BY <1>3, <1>4 DEF NeedApproval, BrokerTypeOK

RunPlaces == {"decide", "advance", "dispatch", "posted", "finish"} \cup RunEnded

LEMMA RunOf ==
  ASSUME IntentTypeOK, NEW a \in Started
  PROVE  a \in ActionIds /\ runs[a] \in Run /\ runs[a] # None
  BY DEF IntentTypeOK, Started

(* The step of a run rewrites its own row and keeps its intent.            *)
OwnRun(a) ==
    /\ runs' \in [ActionIds -> Run \cup {None}]
    /\ runs'[a] \in Run
    /\ runs'[a] # None
    /\ runs'[a].intent = runs[a].intent
    /\ \A b \in ActionIds : b # a => runs'[b] = runs[b]

LEMMA Replaced ==
  ASSUME IntentTypeOK, NEW a \in Started, NEW r \in Run, r.intent = runs[a].intent,
         runs' = [runs EXCEPT ![a] = r]
  PROVE  OwnRun(a) /\ runs'[a] = r
  BY IntentAssumption DEF IntentTypeOK, Started, OwnRun

LEMMA Following ==
  ASSUME IntentTypeOK, NEW a \in Started, NEW pc \in RunPlaces, NEW plan \in DOMAIN Plans,
         Follow(a, pc, plan)
  PROVE  /\ OwnRun(a)
         /\ runs'[a].pc = pc /\ runs'[a].plan = plan /\ runs'[a].step = 1
         /\ runs'[a].acted = runs[a].acted /\ runs'[a].read = runs[a].read
  <1> DEFINE r == [runs[a] EXCEPT !.pc = pc, !.plan = plan, !.step = 1]
  <1>1. runs[a] \in Run
    BY RunOf
  <1>2. r \in Run
    <2> DEFINE q == [runs[a] EXCEPT !.pc = pc, !.plan = plan]
    <2>1. q \in Run
      BY <1>1 DEF Run, RunPlaces
    <2>2. r = [q EXCEPT !.step = 1]
      OBVIOUS
    <2> HIDE DEF q, r
    <2>3. [q EXCEPT !.step = 1] \in Run
      BY <2>1 DEF Run
    <2> QED
      BY <2>2, <2>3
  <1>3. /\ r.pc = pc /\ r.plan = plan /\ r.step = 1
        /\ r.intent = runs[a].intent /\ r.acted = runs[a].acted /\ r.read = runs[a].read
    BY <1>1 DEF Run
  <1>4. runs' = [runs EXCEPT ![a] = r]
    BY DEF Follow, IntentTypeOK, Started
  <1> HIDE DEF r
  <1> QED
    BY <1>2, <1>3, <1>4, Replaced

LEMMA UnplannedType ==
  ASSUME NEW r \in Run, NEW pc \in RunPlaces
  PROVE  /\ Unplanned(r, pc) \in Run
         /\ Unplanned(r, pc).pc = pc
         /\ Unplanned(r, pc).intent = r.intent
         /\ Unplanned(r, pc).acted = r.acted
         /\ Unplanned(r, pc).plan = "deny"
         /\ Unplanned(r, pc).step = 1
         /\ Unplanned(r, pc).read = None
  <1> DEFINE u == [r EXCEPT !.pc = pc, !.plan = "deny", !.step = 1, !.read = None]
  <1>1. "deny" \in DOMAIN Plans
    BY PlanTable
  <1>2. u \in Run
    <2> DEFINE q == [r EXCEPT !.pc = pc, !.plan = "deny"]
    <2>1. q \in Run
      BY <1>1 DEF Run, RunPlaces
    <2> DEFINE p == [q EXCEPT !.step = 1]
    <2>2. u = [p EXCEPT !.read = None]
      OBVIOUS
    <2> HIDE DEF q, u
    <2>3. p \in Run
      BY <2>1 DEF Run
    <2> HIDE DEF p
    <2>4. [p EXCEPT !.read = None] \in Run
      BY <2>3 DEF Run
    <2> QED
      BY <2>2, <2>4
  <1>3. /\ u.pc = pc /\ u.intent = r.intent /\ u.acted = r.acted
        /\ u.plan = "deny" /\ u.step = 1 /\ u.read = None
    BY DEF Run
  <1> HIDE DEF u
  <1>4. Unplanned(r, pc) = u
    BY DEF Unplanned, u
  <1> QED
    BY <1>2, <1>3, <1>4

LEMMA GoingTo ==
  ASSUME IntentTypeOK, NEW a \in Started, NEW pc \in RunPlaces, RunGoto(a, pc)
  PROVE  /\ OwnRun(a)
         /\ runs'[a].pc = pc
         /\ runs'[a].acted = runs[a].acted
         /\ runs'[a].read = None
  <1> DEFINE r == Unplanned(runs[a], pc)
  <1>1. runs[a] \in Run
    BY RunOf
  <1>2. /\ r \in Run /\ r.pc = pc /\ r.intent = runs[a].intent
        /\ r.acted = runs[a].acted /\ r.read = None
    BY <1>1, UnplannedType
  <1>3. runs' = [runs EXCEPT ![a] = r]
    BY DEF RunGoto, IntentTypeOK, Started
  <1> HIDE DEF r
  <1> QED
    BY <1>2, <1>3, Replaced

(* What a caller's step does to its run and to the intents.                *)
RunSide(a) ==
    /\ runs' \in [ActionIds -> Run \cup {None}]
    /\ \A b \in ActionIds : b # a => runs'[b] = runs[b]
    /\ a \in Started => runs'[a] # None /\ runs'[a].intent = runs[a].intent
    /\ runs'[a] # None => RunLaw(a)'
    /\ intents' \in [IntentIds -> Intent \cup {None}]
    /\ \A i \in IntentIds : intents[i] # None => intents'[i] # None
    /\ profile' = profile

LEMMA Beginning ==
  ASSUME BrokerTypeOK, NEW a \in ActionIds, AttemptLaw(a), SecretLaw,
         NEW g \in GrantIds, NEW cost \in Charges, BeginAttempt(a, g, cost),
         UNCHANGED <<storeVars, credVars>>
  PROVE  /\ AttemptSide(a) /\ attempts[a] = None
         /\ attempts'[a] # None /\ attempts'[a].pc = "reserve" /\ ~attempts'[a].landed
  <1> DEFINE t == [pc |-> "reserve", grant |-> g, cost |-> cost, since |-> now,
                   allowed |-> TRUE, cred |-> None, fault |-> FALSE, landed |-> FALSE]
  <1>1. attempts[a] = None /\ attempts' = [attempts EXCEPT ![a] = t] /\ g \in Stored
    BY DEF BeginAttempt
  <1>2. /\ t \in Attempt /\ t.pc = "reserve" /\ ~t.landed /\ t.allowed /\ t.grant = g
    BY DEF Attempt, AttemptPlaces, BrokerTypeOK, TypeOK
  <1> HIDE DEF t
  <1>3. /\ attempts' \in [ActionIds -> Attempt \cup {None}] /\ attempts'[a] = t
        /\ \A b \in ActionIds : b # a => attempts'[b] = attempts[b]
    BY <1>1, <1>2, Rewritten
  <1>4. attempts'[a] # None
    BY <1>2, <1>3, BrokerAssumption
  <1>5. [Next]_storeVars /\ Held' = Held /\ OwnEvent(a)
    BY StoreUntouched DEF OwnEvent
  <1>6. AttemptLaw(a)'
    BY <1>1, <1>2, <1>3, <1>4, <1>5 DEF AttemptLaw, Made
  <1>7. SecretLaw'
    BY <1>1, <1>3, NoHand DEF InHandOf, Made
  <1>8. CredTypeOK'
    BY DEF credVars, CredTypeOK, BrokerTypeOK
  <1> QED
    BY <1>1, <1>2, <1>3, <1>4, <1>5, <1>6, <1>7, <1>8 DEF AttemptSide, Made

OwnRunBegun(a, i) ==
    /\ runs' \in [ActionIds -> Run \cup {None}]
    /\ runs'[a] \in Run
    /\ runs'[a] # None
    /\ runs'[a].intent = i
    /\ \A b \in ActionIds : b # a => runs'[b] = runs[b]

LEMMA Starting ==
  ASSUME IntentTypeOK, NEW a \in ActionIds, NEW i \in IntentIds, NEW pc \in RunPlaces,
         NEW plan \in DOMAIN Plans, StartRun(a, i, pc, plan)
  PROVE  /\ OwnRunBegun(a, i) /\ runs[a] = None /\ attempts[a] = None
         /\ runs'[a].pc = pc /\ runs'[a].plan = plan /\ runs'[a].step = 1
         /\ runs'[a].read = None /\ ~runs'[a].acted
  <1> DEFINE r == [intent |-> i, pc |-> pc, plan |-> plan, step |-> 1, read |-> None,
                   acted |-> FALSE]
  <1>1. /\ r \in Run /\ r.pc = pc /\ r.plan = plan /\ r.step = 1 /\ r.intent = i
        /\ r.read = None /\ ~r.acted
    BY DEF Run, RunPlaces
  <1>2. runs' = [runs EXCEPT ![a] = r] /\ runs[a] = None /\ attempts[a] = None
    BY DEF StartRun
  <1> HIDE DEF r
  <1> QED
    BY <1>1, <1>2, IntentAssumption DEF OwnRunBegun, IntentTypeOK

LEMMA BeginSteps ==
  ASSUME Laws, NEW a \in ActionIds, Begins(a)
  PROVE  AttemptSide(a) /\ RunSide(a)
  <1>1. PICK g \in Tokens, cost \in Charges :
           CallAdapterTool(a, g, cost) \/ \E i \in IntentIds : Execute(a, i, g, cost)
    BY DEF Begins
  <1>2. g \in GrantIds
    BY BrokerAssumption
  <1>3. IntentTypeOK /\ BrokerTypeOK /\ AttemptLaw(a) /\ SecretLaw
    BY DEF Laws, IntentTypeOK
  <1>4. /\ BeginAttempt(a, g, cost)
        /\ UNCHANGED <<storeVars, credVars, profile, intents>>
    BY <1>1 DEF CallAdapterTool, Execute
  <1>5. /\ AttemptSide(a) /\ attempts[a] = None
        /\ attempts'[a] # None /\ attempts'[a].pc = "reserve" /\ ~attempts'[a].landed
    BY <1>2, <1>3, <1>4, Beginning
  <1>6. CASE CallAdapterTool(a, g, cost)
    BY <1>3, <1>5, <1>6 DEF CallAdapterTool, RunSide, IntentTypeOK, Started
  <1>7. ASSUME NEW i \in IntentIds, Execute(a, i, g, cost)
        PROVE  RunSide(a)
    <2>1. /\ OwnRunBegun(a, i) /\ runs[a] = None
          /\ runs'[a].pc = "decide" /\ runs'[a].read = None /\ ~runs'[a].acted
          /\ intents[i] # None
      BY <1>3, <1>7, Starting, PlanTable DEF Execute, RunPlaces
    <2>2. RunLaw(a)'
      BY <1>4, <1>5, <2>1 DEF RunLaw, OwnRunBegun, Made, RunEnded
    <2> QED
      BY <1>3, <1>4, <2>1, <2>2 DEF RunSide, OwnRunBegun, IntentTypeOK, Started
  <1> QED
    BY <1>1, <1>5, <1>6, <1>7

LEMMA OpenSteps ==
  ASSUME Laws, NEW a \in ActionIds, Opens(a)
  PROVE  AttemptSide(a) /\ RunSide(a)
  <1>1. IntentTypeOK /\ BrokerTypeOK /\ AttemptLaw(a) /\ SecretLaw
    BY DEF Laws, IntentTypeOK
  <1>2. \E i \in IntentIds, plan \in {"submit", "cancelled", "expired"} :
           StartRun(a, i, "advance", plan) /\ intents[i] # None
           /\ UNCHANGED <<brokerVars, profile, intents>>
    BY IntentAssumption DEF Opens, Submit, SetByHand
  <1>3. PICK i \in IntentIds, plan \in {"submit", "cancelled", "expired"} :
           StartRun(a, i, "advance", plan) /\ intents[i] # None
           /\ UNCHANGED <<brokerVars, profile, intents>>
    BY <1>2
  <1>4. AttemptSide(a)
    BY <1>1, <1>3, SideOfNothing
  <1>5. plan \in DOMAIN Plans
    BY PlanTable
  <1>6. /\ OwnRunBegun(a, i) /\ runs[a] = None /\ attempts[a] = None
        /\ runs'[a].pc = "advance" /\ runs'[a].plan = plan
        /\ runs'[a].read = None /\ ~runs'[a].acted
    BY <1>1, <1>3, <1>5, Starting DEF RunPlaces
  <1>7. attempts' = attempts
    BY <1>3 DEF brokerVars
  <1>8. RunLaw(a)'
    BY <1>3, <1>6, <1>7 DEF RunLaw, OwnRunBegun, Made, RunEnded, Opening
  <1> QED
    BY <1>1, <1>3, <1>4, <1>6, <1>8 DEF RunSide, OwnRunBegun, IntentTypeOK, Started

LEMMA LawsOf ==
  ASSUME Laws, NEW a \in ActionIds
  PROVE  /\ IntentTypeOK /\ BrokerTypeOK /\ SecretLaw /\ AttemptLaw(a)
         /\ a \in Started => RunLaw(a)
  BY DEF Laws, IntentTypeOK

LEMMA AttemptSteps ==
  ASSUME Laws, NEW a \in ActionIds, AttemptStep(a)
  PROVE  AttemptSide(a) /\ RunSide(a)
  <1>1. IntentTypeOK /\ BrokerTypeOK /\ AttemptLaw(a) /\ SecretLaw /\ (a \in Started => RunLaw(a))
    BY LawsOf
  <1>2. runs' = runs /\ intents' = intents /\ profile' = profile
    BY DEF AttemptStep
  <1>3. CASE BrokerStep(a) /\ (a \in Started => runs[a].pc \in {"decide", "dispatch"})
    <2>1. GoodStep(a) /\ CredTypeOK' /\ SecretLaw'
      BY <1>1, <1>3, BrokerSteps
    <2>2. a \in Made /\ attempts[a].pc \notin AttemptEnded \cup {"cleared"}
      BY <1>3, StepOfMade
    <2>3. AttemptSide(a)
      BY <1>1, <2>1, <2>2, SideOfGood
    <2>4. ASSUME a \in Started
          PROVE  RunLaw(a)'
      <3>1. attempts'[a] # None /\ <<attempts[a].pc, attempts'[a].pc>> \in Moves
        BY <2>1, BrokerAssumption DEF GoodStep, OwnAttempt
      <3>2. runs[a].pc = "decide" => attempts'[a].pc \in {"edge", "denied", "cleared"}
        BY <1>1, <2>2, <2>4, <3>1 DEF RunLaw, Moves, AttemptEnded
      <3>3. runs[a].pc = "dispatch" =>
              attempts'[a].pc \in {"ready", "resolved", "sent", "settle", "crashed"} \cup Results
        BY <1>1, <2>2, <2>4, <3>1 DEF RunLaw, Moves, AttemptEnded, Results
      <3> QED
        BY <1>1, <1>2, <1>3, <2>4, <3>1, <3>2, <3>3
        DEF RunLaw, Made, Walking, Finished, Started, RunEnded, Ephemeral
    <2>5. RunSide(a)
      BY <1>1, <1>2, <2>4 DEF RunSide, IntentTypeOK, Started
    <2> QED
      BY <2>3, <2>5
  <1>4. CASE a \notin Started /\ Coordinate(a)
    <2>1. GoodStep(a) /\ UNCHANGED credVars /\ a \in Made /\ attempts[a].pc = "cleared"
      BY <1>1, <1>4, CoordinateStep
    <2>2. SecretLaw' /\ CredTypeOK'
      BY <1>1, <2>1, NoHand DEF GoodStep, OwnAttempt, InHandOf, credVars, CredTypeOK, BrokerTypeOK
    <2>3. AttemptSide(a)
      BY <1>1, <2>1, <2>2, SideOfGood
    <2>4. RunSide(a)
      BY <1>1, <1>2, <1>4 DEF RunSide, IntentTypeOK, Started
    <2> QED
      BY <2>3, <2>4
  <1> QED
    BY <1>3, <1>4 DEF AttemptStep

(* The record a run works on, and the item it is about to write.           *)
LEMMA RecordOf ==
  ASSUME Laws, NEW a \in Started, runs[a].pc \notin RunEnded
  PROVE  runs[a].intent \in IntentIds /\ Record(a) \in Intent
  <1>1. a \in ActionIds /\ runs[a] \in Run /\ RunLaw(a)
    BY RunOf, LawsOf DEF Laws
  <1> QED
    BY <1>1 DEF RunLaw, Record, Run, Laws, IntentTypeOK

LEMMA ItemOf ==
  ASSUME Laws, NEW a \in Started, ~Finished(a), Walking(a)
  PROVE  /\ Item(a) \in Lifecycle \cup {"link"}
         /\ runs[a].step \in 1..Len(Plans[runs[a].plan])
         /\ runs[a].step + 1 \in 1..7
  <1> DEFINE length == Len(Plans[runs[a].plan])
             step == runs[a].step
  <1>1. runs[a].plan \in DOMAIN Plans /\ step \in 1..7
    BY RunOf DEF Run, Laws
  <1>2. length \in 1..6 /\ ~(step > length)
    BY <1>1, PlanItems DEF Finished
  <1>3. step \in 1..length /\ step + 1 \in 1..7
    <2> HIDE DEF length, step
    <2> QED
      BY <1>1, <1>2
  <1>4. Item(a) \in Lifecycle \cup {"link"}
    BY <1>1, <1>3, PlanItems DEF Item
  <1> QED
    BY <1>3, <1>4

LEMMA UpdatedType ==
  ASSUME NEW record \in Intent, NEW item \in Lifecycle \cup {"link"}
  PROVE  /\ Updated(record, item) \in Intent
         /\ Updated(record, item) # None
         /\ Updated(record, item).state = IF item = "link" THEN record.state ELSE item
  <1>1. Updated(record, item) \in Intent
    BY DEF Updated, Intent, Lifecycle
  <1>2. Updated(record, item) # None
    BY <1>1, IntentAssumption
  <1> QED
    BY <1>1, <1>2 DEF Updated, Intent

(* One item of a plan has been written.                                    *)
LEMMA Stepping ==
  ASSUME Laws, NEW a \in Started, Walking(a), ~Finished(a), NEW read \in Intent \cup {None},
         NEW step \in {runs[a].step, runs[a].step + 1},
         runs' = [runs EXCEPT ![a] = [@ EXCEPT !.step = step, !.read = read]]
  PROVE  /\ OwnRun(a)
         /\ runs'[a].pc = runs[a].pc /\ runs'[a].plan = runs[a].plan
         /\ runs'[a].acted = runs[a].acted
         /\ runs'[a].step = step /\ runs'[a].read = read
  <1> DEFINE r == [runs[a] EXCEPT !.step = step, !.read = read]
  <1>1. runs[a] \in Run /\ step \in 1..7
    BY RunOf, ItemOf DEF Laws, Run
  <1>2. r \in Run
    <2> DEFINE q == [runs[a] EXCEPT !.step = step]
    <2>1. q \in Run
      BY <1>1 DEF Run
    <2>2. r = [q EXCEPT !.read = read]
      OBVIOUS
    <2> HIDE DEF q, r
    <2>3. [q EXCEPT !.read = read] \in Run
      BY <2>1 DEF Run
    <2> QED
      BY <2>2, <2>3
  <1>3. /\ r.intent = runs[a].intent /\ r.pc = runs[a].pc /\ r.plan = runs[a].plan
        /\ r.acted = runs[a].acted /\ r.step = step /\ r.read = read
    BY <1>1 DEF Run
  <1>4. runs' = [runs EXCEPT ![a] = r]
    BY DEF Laws, IntentTypeOK, Started
  <1> HIDE DEF r
  <1> QED
    BY <1>2, <1>3, <1>4, Replaced DEF Laws

(* The laws of a run survive a step along its plan.                        *)
LEMMA WalkingOn ==
  ASSUME Laws, NEW a \in Started, Walking(a), OwnRun(a), UNCHANGED <<brokerVars, profile>>,
         runs'[a].pc = runs[a].pc, runs'[a].plan = runs[a].plan,
         runs'[a].acted = runs[a].acted,
         runs'[a].read # None => ~Ephemeral /\ ~Finished(a)',
         NEW record \in Intent, intents' \in {intents, [intents EXCEPT ![runs[a].intent] = record]}
  PROVE  AttemptSide(a) /\ RunSide(a)
  <1>1. /\ a \in ActionIds /\ runs[a] \in Run /\ RunLaw(a) /\ IntentTypeOK /\ BrokerTypeOK
        /\ AttemptLaw(a) /\ SecretLaw
    BY RunOf, LawsOf DEF Laws
  <1>2. AttemptSide(a)
    BY <1>1, SideOfNothing
  <1>3. runs[a].intent \in IntentIds /\ intents[runs[a].intent] # None
    BY RecordOf, IntentAssumption DEF Walking, RunEnded, Record
  <1>4. record # None
    BY IntentAssumption
  <1>5. /\ intents' \in [IntentIds -> Intent \cup {None}]
        /\ \A i \in IntentIds : intents[i] # None => intents'[i] # None
    BY <1>1, <1>4 DEF IntentTypeOK
  <1>6. attempts' = attempts /\ profile' = profile
    BY DEF brokerVars
  <1>7. runs'[a].pc \in {"advance", "finish"}
    BY DEF Walking
  <1>8. Walking(a)' /\ (Acted(a)' <=> Acted(a))
    BY <1>1, <1>6, <1>7 DEF Walking, OwnRun, Started, Acted, Made
  <1>9. intents'[runs'[a].intent] # None
    BY <1>3, <1>5 DEF OwnRun
  <1>10. runs'[a].read # None => ~Ephemeral' /\ Walking(a)' /\ ~Finished(a)'
    BY <1>6, <1>8 DEF Ephemeral
  <1>11. RunLaw(a)'
    BY <1>1, <1>6, <1>7, <1>8, <1>9, <1>10 DEF RunLaw, Reached, Pending, Made, RunEnded
  <1> QED
    BY <1>2, <1>5, <1>6, <1>11 DEF RunSide, OwnRun

LEMMA PlanSteps ==
  ASSUME Laws, NEW a \in ActionIds, Advance(a) \/ ReadRecord(a) \/ WriteRecord(a)
  PROVE  AttemptSide(a) /\ RunSide(a) /\ a \in Started
  <1>1. a \in Started /\ Walking(a)
    BY DEF Advance, ReadRecord, WriteRecord, Walking
  <1>2. runs[a] \in Run /\ RunLaw(a) /\ IntentTypeOK /\ Record(a) \in Intent
    BY <1>1, RunOf, RecordOf DEF Laws, Walking, RunEnded
  <1>3. ~Finished(a)
    BY <1>2 DEF RunLaw, Advance, ReadRecord, WriteRecord
  <1>4. Item(a) \in Lifecycle \cup {"link"}
    BY <1>1, <1>3, ItemOf
  <1>5. CASE Advance(a)
    <2> DEFINE record == Updated(Record(a), Item(a))
    <2>1. record \in Intent
      BY <1>2, <1>4, UpdatedType
    <2>2. intents' = [intents EXCEPT ![runs[a].intent] = record]
      BY <1>5 DEF Advance, Record
    <2>3. runs' = [runs EXCEPT ![a] = [@ EXCEPT !.step = runs[a].step + 1, !.read = runs[a].read]]
      <3>1. [runs[a] EXCEPT !.step = runs[a].step + 1, !.read = runs[a].read] =
              [runs[a] EXCEPT !.step = runs[a].step + 1]
        BY <1>2 DEF Run
      <3> QED
        BY <1>2, <1>5, <3>1 DEF Advance, IntentTypeOK
    <2>4. runs[a].read = None /\ None \in Intent \cup {None}
      BY <1>2, <1>5 DEF RunLaw, Advance
    <2>5. /\ OwnRun(a) /\ runs'[a].pc = runs[a].pc /\ runs'[a].plan = runs[a].plan
          /\ runs'[a].acted = runs[a].acted /\ runs'[a].read = None
      BY <1>1, <1>3, <2>3, <2>4, Stepping
    <2> QED
      BY <1>1, <1>5, <2>1, <2>2, <2>5, WalkingOn DEF Advance
  <1>6. CASE ReadRecord(a)
    <2>1. runs' = [runs EXCEPT ![a] = [@ EXCEPT !.step = runs[a].step, !.read = Record(a)]]
      <3>1. [runs[a] EXCEPT !.step = runs[a].step, !.read = Record(a)] =
              [runs[a] EXCEPT !.read = Record(a)]
        BY <1>2 DEF Run
      <3> QED
        BY <1>2, <1>6, <3>1 DEF ReadRecord, IntentTypeOK
    <2>2. /\ OwnRun(a) /\ runs'[a].pc = runs[a].pc /\ runs'[a].plan = runs[a].plan
          /\ runs'[a].acted = runs[a].acted /\ runs'[a].step = runs[a].step
      BY <1>1, <1>2, <1>3, <2>1, Stepping
    <2>3. ~Ephemeral /\ ~Finished(a)'
      BY <1>1, <1>3, <1>6, <2>2 DEF ReadRecord, Finished, Walking
    <2> QED
      BY <1>1, <1>2, <1>6, <2>2, <2>3, WalkingOn DEF ReadRecord
  <1>7. CASE WriteRecord(a)
    <2> DEFINE record == Updated(runs[a].read, Item(a))
    <2>1. runs[a].read \in Intent
      BY <1>2, <1>7 DEF WriteRecord, Run
    <2>2. record \in Intent
      BY <1>4, <2>1, UpdatedType
    <2>3. intents' = [intents EXCEPT ![runs[a].intent] = record]
      BY <1>7 DEF WriteRecord
    <2>4. runs' = [runs EXCEPT ![a] = [@ EXCEPT !.step = runs[a].step + 1, !.read = None]]
      BY <1>7 DEF WriteRecord
    <2>5. /\ OwnRun(a) /\ runs'[a].pc = runs[a].pc /\ runs'[a].plan = runs[a].plan
          /\ runs'[a].acted = runs[a].acted /\ runs'[a].read = None
      BY <1>1, <1>3, <2>4, Stepping
    <2> QED
      BY <1>1, <1>7, <2>2, <2>3, <2>5, WalkingOn DEF WriteRecord
  <1> QED
    BY <1>1, <1>5, <1>6, <1>7

(* A run that ends leaves no attempt in progress.                          *)
LEMMA Ending ==
  ASSUME Laws, NEW a \in Started, NEW pc \in RunEnded, RunGoto(a, pc), ~Pending(a)',
         UNCHANGED <<profile, intents>>
  PROVE  RunSide(a)
  <1>1. IntentTypeOK
    BY DEF Laws
  <1>2. OwnRun(a) /\ runs'[a].pc = pc /\ runs'[a].read = None
    BY <1>1, GoingTo DEF RunPlaces
  <1>3. RunLaw(a)'
    BY <1>2 DEF RunLaw, RunEnded
  <1> QED
    BY <1>1, <1>2, <1>3 DEF RunSide, OwnRun, IntentTypeOK

LEMMA ErrorSteps ==
  ASSUME Laws, NEW a \in ActionIds,
         TransitionRefused(a) \/ ReportCrash(a) \/ PostRaises(a) \/ RunDone(a)
  PROVE  AttemptSide(a) /\ RunSide(a) /\ a \in Started
  <1>1. a \in Started
    BY DEF TransitionRefused, ReportCrash, PostRaises, RunDone, Finished, Walking, RunAt
  <1>2. RunLaw(a) /\ IntentTypeOK /\ BrokerTypeOK /\ AttemptLaw(a) /\ SecretLaw
    BY <1>1, LawsOf
  <1>3. CASE TransitionRefused(a)
    <2>1. ~InHandOf(a)
      BY <1>2, <1>3 DEF TransitionRefused, Walking, RunLaw, InHandOf, Pending, Reached, Opening,
                        AttemptEnded, Results
    <2>2. AttemptSide(a) /\ ~Pending(a)'
      BY <1>2, <1>3, <2>1, Abandoning DEF TransitionRefused
    <2>3. RunGoto(a, "error") /\ UNCHANGED <<profile, intents>>
      BY <1>3 DEF TransitionRefused
    <2> QED
      BY <1>1, <2>2, <2>3, Ending DEF RunEnded
  <1>4. CASE ReportCrash(a) \/ PostRaises(a) \/ RunDone(a)
    <2>1. PICK pc \in RunEnded :
             RunGoto(a, pc) /\ UNCHANGED <<brokerVars, profile, intents>>
      BY <1>4 DEF ReportCrash, PostRaises, RunDone, RunEnded
    <2>5. ~Pending(a)
      <3>1. CASE ReportCrash(a)
        BY <3>1 DEF ReportCrash, Reached, Pending, AttemptEnded
      <3>2. CASE PostRaises(a)
        BY <1>2, <3>2 DEF PostRaises, RunAt, RunLaw, Pending
      <3>3. CASE RunDone(a)
        BY <1>2, <3>3 DEF RunDone, RunLaw, Finished, Walking, Reached, Pending, AttemptEnded
      <3> QED
        BY <1>4, <3>1, <3>2, <3>3
    <2>6. ~Pending(a)'
      BY <2>1, <2>5 DEF brokerVars, Pending, Made
    <2> QED
      BY <1>1, <1>2, <2>1, <2>6, SideOfNothing, Ending
  <1> QED
    BY <1>1, <1>3, <1>4

(* The answers of the coordinator and of the resource.                     *)
LEMMA FinishSteps ==
  ASSUME Laws, NEW a \in ActionIds, Report(a) \/ PostAnswered(a)
  PROVE  /\ AttemptSide(a) /\ RunSide(a) /\ a \in Started /\ UNCHANGED brokerVars
         /\ OwnRun(a) /\ runs'[a].pc = "finish" /\ runs'[a].acted = runs[a].acted
         /\ runs[a].pc \in {"dispatch", "posted"}
  <1>1. a \in Started /\ runs[a].pc \in {"dispatch", "posted"}
    BY DEF Report, PostAnswered, RunAt
  <1>2. /\ RunLaw(a) /\ IntentTypeOK /\ BrokerTypeOK /\ AttemptLaw(a) /\ SecretLaw
        /\ runs[a].acted \in BOOLEAN
    BY <1>1, LawsOf, RunOf DEF Run
  <1>3. UNCHANGED <<brokerVars, profile, intents>>
    BY DEF Report, PostAnswered
  <1>4. \E plan \in Results \cup {"accepted"} :
          /\ Follow(a, "finish", plan)
          /\ ~Pending(a)
          /\ plan = "succeeded" => runs[a].acted \/ Reached(a, "succeeded")
          /\ plan = "refused" => ~Acted(a)
    <2>1. CASE Report(a)
      <3> DEFINE plan == attempts[a].pc
      <3>1. a \in Made /\ plan \in Results /\ Follow(a, "finish", plan) /\ ~runs[a].acted
        BY <1>2, <2>1 DEF Report, RunAt, RunLaw
      <3>2. plan = "refused" => ~Acted(a)
        BY <1>2, <3>1 DEF AttemptLaw, Acted
      <3> QED
        BY <3>1, <3>2 DEF Pending, AttemptEnded, Reached
    <2>2. CASE PostAnswered(a)
      <3>1. PICK answer \in Answers(runs[a].acted) :
               Follow(a, "finish", SubmissionOutcome(answer))
        BY <2>2 DEF PostAnswered
      <3>2. a \notin Made
        BY <1>2, <2>2 DEF PostAnswered, RunAt, RunLaw
      <3>3. SubmissionOutcome(answer) \in Results \cup {"accepted"}
        BY DEF SubmissionOutcome, Results
      <3>4. SubmissionOutcome(answer) = "succeeded" => answer = "receipt"
        BY DEF SubmissionOutcome
      <3>5. SubmissionOutcome(answer) = "refused" => answer \in {"4xx", "refused"}
        BY DEF SubmissionOutcome
      <3>6. /\ SubmissionOutcome(answer) = "succeeded" => runs[a].acted
            /\ SubmissionOutcome(answer) = "refused" => ~runs[a].acted
        BY <1>2, <3>4, <3>5 DEF Answers
      <3> HIDE DEF SubmissionOutcome
      <3> QED
        BY <3>1, <3>2, <3>3, <3>6 DEF Pending, Acted
    <2> QED
      BY <2>1, <2>2
  <1>5. PICK plan \in Results \cup {"accepted"} :
          /\ Follow(a, "finish", plan)
          /\ ~Pending(a)
          /\ plan = "succeeded" => runs[a].acted \/ Reached(a, "succeeded")
          /\ plan = "refused" => ~Acted(a)
    BY <1>4
  <1>6. plan \in DOMAIN Plans
    BY PlanTable DEF Results
  <1>7. /\ OwnRun(a) /\ runs'[a].pc = "finish" /\ runs'[a].plan = plan
        /\ runs'[a].acted = runs[a].acted /\ runs'[a].read = runs[a].read
    BY <1>1, <1>2, <1>5, <1>6, Following DEF RunPlaces
  <1>8. runs[a].read = None /\ intents[runs[a].intent] # None
    BY <1>1, <1>2 DEF RunLaw, Walking, RunEnded
  <1>9. /\ attempts' = attempts /\ intents' = intents /\ profile' = profile
        /\ Acted(a)' <=> Acted(a)
    BY <1>3, <1>7 DEF brokerVars, Acted, Made
  <1>10. RunLaw(a)'
    <2>1. plan = "succeeded" => runs'[a].acted \/ Reached(a, "succeeded")'
      BY <1>5, <1>7, <1>9 DEF Reached, Made
    <2>2. ~Pending(a)'
      BY <1>5, <1>9 DEF Pending, Made
    <2> QED
      BY <1>5, <1>7, <1>8, <1>9, <2>1, <2>2 DEF RunLaw, RunEnded, OwnRun
  <1>11. AttemptSide(a)
    BY <1>2, <1>3, SideOfNothing
  <1> QED
    BY <1>1, <1>2, <1>3, <1>7, <1>10, <1>11 DEF RunSide, OwnRun, IntentTypeOK

(* From the decision into the manager.                                     *)
LEMMA DecideSteps ==
  ASSUME Laws, NEW a \in ActionIds, NeedApproval(a) \/ RecordDenial(a) \/ Manage(a)
  PROVE  AttemptSide(a) /\ RunSide(a) /\ a \in Started
  <1>1. a \in Started /\ runs[a].pc = "decide"
    BY DEF NeedApproval, RecordDenial, Manage, RunAt
  <1>2. /\ RunLaw(a) /\ IntentTypeOK /\ BrokerTypeOK /\ AttemptLaw(a) /\ SecretLaw
        /\ ~runs[a].acted /\ runs[a].read = None /\ intents[runs[a].intent] # None
    BY <1>1, LawsOf DEF RunLaw, Walking, RunEnded
  <1>3. CASE NeedApproval(a)
    <2>1. AttemptSide(a) /\ a \in Made /\ attempts'[a].pc = "cleared"
      BY <1>2, <1>3, Approving
    <2>2. attempts'[a] # None
      BY <2>1 DEF AttemptSide
    <2>3. runs' = runs /\ intents' = intents /\ profile' = profile
      BY <1>3 DEF NeedApproval
    <2>4. RunLaw(a)'
      BY <1>1, <1>2, <2>1, <2>2, <2>3 DEF RunLaw, Made, RunEnded
    <2> QED
      BY <1>1, <1>2, <2>1, <2>3, <2>4 DEF RunSide, IntentTypeOK, Started
  <1>4. ASSUME NEW plan \in {"deny", "allow", "approve"}, Follow(a, "advance", plan),
               UNCHANGED <<brokerVars, profile, intents>>,
               plan = "deny" => Reached(a, "denied"),
               plan # "deny" => Reached(a, "cleared")
        PROVE  AttemptSide(a) /\ RunSide(a)
    <2>1. plan \in DOMAIN Plans
      BY PlanTable
    <2>2. /\ OwnRun(a) /\ runs'[a].pc = "advance" /\ runs'[a].plan = plan
          /\ ~runs'[a].acted /\ runs'[a].read = None
      BY <1>1, <1>2, <1>4, <2>1, Following DEF RunPlaces
    <2>3. attempts' = attempts /\ intents' = intents /\ profile' = profile
      BY <1>4 DEF brokerVars
    <2>4. /\ plan = "deny" => Reached(a, "denied")'
          /\ plan # "deny" => Reached(a, "cleared")'
      BY <1>4, <2>3 DEF Reached, Made
    <2>5. RunLaw(a)'
      BY <1>2, <2>2, <2>3, <2>4 DEF RunLaw, RunEnded, OwnRun, Opening
    <2>6. AttemptSide(a)
      BY <1>2, <1>4, SideOfNothing
    <2> QED
      BY <1>1, <1>2, <2>2, <2>3, <2>5, <2>6 DEF RunSide, OwnRun, IntentTypeOK
  <1>5. CASE RecordDenial(a)
    BY <1>1, <1>4, <1>5 DEF RecordDenial
  <1>6. CASE Manage(a)
    <2>1. Reached(a, "cleared") /\ UNCHANGED <<storeVars, credVars, profile, intents>>
      BY <1>6 DEF Manage
    <2>2. CASE /\ Follow(a, "advance", IF attempts[a].allowed THEN "allow" ELSE "approve")
               /\ UNCHANGED attempts
      <3> DEFINE plan == IF attempts[a].allowed THEN "allow" ELSE "approve"
      <3>1. plan \in {"deny", "allow", "approve"} /\ plan # "deny"
        OBVIOUS
      <3>2. UNCHANGED <<brokerVars, profile, intents>> /\ Follow(a, "advance", plan)
        BY <2>1, <2>2 DEF brokerVars
      <3> HIDE DEF plan
      <3> QED
        BY <1>1, <1>4, <2>1, <3>1, <3>2
    <2>3. CASE RunGoto(a, "error") /\ Abandon(a)
      <3>1. ~InHandOf(a)
        BY <2>1 DEF Reached, InHandOf
      <3>2. AttemptSide(a) /\ ~Pending(a)'
        BY <1>2, <2>1, <2>3, <3>1, Abandoning
      <3> QED
        BY <1>1, <2>1, <2>3, <3>2, Ending DEF RunEnded
    <2> QED
      BY <1>6, <2>2, <2>3 DEF Manage
  <1> QED
    BY <1>1, <1>3, <1>5, <1>6

LEMMA DispatchStep ==
  ASSUME Laws, NEW a \in ActionIds, Dispatch(a)
  PROVE  /\ AttemptSide(a) /\ RunSide(a) /\ a \in Started
         /\ attempts[a].pc = "cleared" /\ runs'[a].pc = "dispatch"
         /\ runs'[a].acted = runs[a].acted
  <1>1. a \in Started /\ runs[a].pc = "advance" /\ RunGoto(a, "dispatch")
        /\ UNCHANGED <<profile, intents>> /\ Coordinate(a)
    BY DEF Dispatch, RunAt
  <1>2. /\ RunLaw(a) /\ IntentTypeOK /\ BrokerTypeOK /\ AttemptLaw(a) /\ SecretLaw
        /\ ~runs[a].acted /\ intents[runs[a].intent] # None
    BY <1>1, LawsOf DEF RunLaw, RunEnded
  <1>3. /\ GoodStep(a) /\ UNCHANGED credVars /\ a \in Made
        /\ attempts[a].pc = "cleared" /\ attempts'[a].pc = "ready"
    BY <1>1, <1>2, CoordinateStep
  <1>4. SecretLaw' /\ CredTypeOK'
    BY <1>2, <1>3, NoHand DEF GoodStep, OwnAttempt, InHandOf, credVars, CredTypeOK, BrokerTypeOK
  <1>5. AttemptSide(a) /\ attempts'[a] # None
    BY <1>2, <1>3, <1>4, SideOfGood DEF AttemptSide
  <1>6. OwnRun(a) /\ runs'[a].pc = "dispatch" /\ runs'[a].acted = runs[a].acted
        /\ runs'[a].read = None
    BY <1>1, <1>2, GoingTo DEF RunPlaces
  <1>7. RunLaw(a)'
    BY <1>1, <1>2, <1>3, <1>5, <1>6 DEF RunLaw, RunEnded, OwnRun, Made
  <1> QED
    BY <1>1, <1>2, <1>3, <1>5, <1>6, <1>7 DEF RunSide, OwnRun, IntentTypeOK

LEMMA PostStep ==
  ASSUME Laws, NEW a \in ActionIds, Post(a)
  PROVE  AttemptSide(a) /\ RunSide(a) /\ a \in Started /\ runs'[a].pc = "posted"
  <1>1. a \in Started /\ runs[a].pc = "advance" /\ runs[a].plan = "submit"
        /\ UNCHANGED <<brokerVars, profile, intents>>
    BY DEF Post, RunAt
  <1>2. /\ RunLaw(a) /\ IntentTypeOK /\ BrokerTypeOK /\ AttemptLaw(a) /\ SecretLaw
        /\ runs[a] \in Run /\ a \notin Made /\ intents[runs[a].intent] # None
    BY <1>1, LawsOf, RunOf DEF RunLaw, RunEnded
  <1>3. PICK acted \in BOOLEAN :
          runs' = [runs EXCEPT ![a] = [Unplanned(runs[a], "posted") EXCEPT !.acted = acted]]
    BY DEF Post
  <1> DEFINE u == Unplanned(runs[a], "posted")
             r == [u EXCEPT !.acted = acted]
  <1>4. u \in Run /\ u.pc = "posted" /\ u.intent = runs[a].intent /\ u.read = None
    BY <1>2, UnplannedType DEF RunPlaces
  <1> HIDE DEF u
  <1>5. r \in Run /\ r.pc = "posted" /\ r.intent = runs[a].intent /\ r.read = None
    BY <1>4 DEF Run
  <1>6. runs' = [runs EXCEPT ![a] = r]
    BY <1>3 DEF u
  <1> HIDE DEF r
  <1>7. OwnRun(a) /\ runs'[a] = r
    BY <1>1, <1>2, <1>5, <1>6, Replaced
  <1>8. attempts' = attempts
    BY <1>1 DEF brokerVars
  <1>9. RunLaw(a)'
    BY <1>1, <1>2, <1>5, <1>7, <1>8 DEF RunLaw, RunEnded, OwnRun, Made
  <1>10. AttemptSide(a)
    BY <1>1, <1>2, SideOfNothing
  <1> QED
    BY <1>1, <1>2, <1>5, <1>7, <1>9, <1>10 DEF RunSide, OwnRun, IntentTypeOK

LEMMA CallerSides ==
  ASSUME Laws, NEW a \in ActionIds, CallerStep(a)
  PROVE  AttemptSide(a) /\ RunSide(a)
  <1>1. CASE RunStep(a)
    BY <1>1, PlanSteps, ErrorSteps, DecideSteps, FinishSteps, DispatchStep, PostStep DEF RunStep
  <1> QED
    BY <1>1, BeginSteps, OpenSteps, AttemptSteps DEF CallerStep

(* A step that leaves an attempt and a run alone leaves their laws true.   *)
LEMMA AttemptFrame ==
  ASSUME NEW b \in ActionIds, AttemptLaw(b), attempts'[b] = attempts[b],
         rateEvents'[b] = rateEvents[b]
  PROVE  AttemptLaw(b)'
  BY DEF AttemptLaw, Made, Held

LEMMA RunFrame ==
  ASSUME IntentTypeOK, NEW b \in ActionIds, b \in Started => RunLaw(b), runs'[b] = runs[b],
         attempts'[b] = attempts[b], profile' = profile,
         \A i \in IntentIds : intents[i] # None => intents'[i] # None
  PROVE  b \in Started' => RunLaw(b)'
  <1> SUFFICES ASSUME b \in Started
               PROVE  RunLaw(b)'
    BY DEF Started
  <1>1. runs[b].intent \in IntentIds
    BY RunOf DEF Run
  <1>2. /\ Reached(b, "denied")' <=> Reached(b, "denied")
        /\ Reached(b, "cleared")' <=> Reached(b, "cleared")
        /\ Reached(b, "succeeded")' <=> Reached(b, "succeeded")
        /\ Pending(b)' <=> Pending(b)
        /\ b \in Made' <=> b \in Made
        /\ Acted(b)' <=> Acted(b)
    BY DEF Reached, Pending, Made, Acted
  <1>3. /\ Walking(b)' <=> Walking(b)
        /\ Finished(b)' <=> Finished(b)
        /\ Ephemeral' <=> Ephemeral
    BY DEF Walking, Finished, Ephemeral, Started
  <1> QED
    BY <1>1, <1>2, <1>3 DEF RunLaw

LEMMA LoadedFrame ==
  ASSUME Laws, [Next]_storeVars
  PROVE  TypeOK' /\ Stored \subseteq Stored'
  <1>1. CASE Next
    BY <1>1, NextTyped, StoredGrantStep DEF Laws, IntentTypeOK, BrokerTypeOK
  <1>2. CASE UNCHANGED storeVars
    BY <1>2, StoreUntouched DEF storeVars, TypeOK, Laws, IntentTypeOK, BrokerTypeOK
  <1> QED
    BY <1>1, <1>2

LEMMA CallerLaws ==
  ASSUME Laws, NEW a \in ActionIds, CallerStep(a)
  PROVE  Laws' /\ [Next]_storeVars
  <1>1. AttemptSide(a) /\ RunSide(a)
    BY CallerSides
  <1>2. TypeOK' /\ Stored \subseteq Stored' /\ [Next]_storeVars
    BY <1>1, LoadedFrame DEF AttemptSide
  <1>3. IntentTypeOK'
    BY <1>1, <1>2
    DEF AttemptSide, RunSide, IntentTypeOK, BrokerTypeOK, CredTypeOK, Laws
  <1>4. ASSUME NEW b \in ActionIds
        PROVE  AttemptLaw(b)'
    BY <1>1, AttemptFrame DEF AttemptSide, OwnEvent, Laws
  <1>5. ASSUME NEW b \in ActionIds, b \in Started'
        PROVE  RunLaw(b)'
    <2>1. CASE b = a
      BY <1>1, <1>5, <2>1 DEF RunSide, Started
    <2>2. CASE b # a
      BY <1>1, <1>5, <2>2, RunFrame DEF AttemptSide, RunSide, Laws
    <2> QED
      BY <2>1, <2>2
  <1>6. ASSUME NEW b \in ActionIds, attempts'[b] # None
        PROVE  attempts'[b].grant \in Stored'
    <2>1. CASE b = a
      BY <1>1, <1>2, <1>6, <2>1 DEF AttemptSide, GrantsLoaded, Laws
    <2>2. CASE b # a
      BY <1>1, <1>2, <1>6, <2>2 DEF AttemptSide, GrantsLoaded, Laws, Made
    <2> QED
      BY <2>1, <2>2
  <1>7. SecretLaw'
    BY <1>1 DEF AttemptSide
  <1> QED
    BY <1>2, <1>3, <1>4, <1>5, <1>6, <1>7 DEF Laws, GrantsLoaded, Made, Started

LEMMA CreateLaws ==
  ASSUME Laws, NEW i \in IntentIds, Create(i)
  PROVE  Laws' /\ [Next]_storeVars
  <1>1. /\ UNCHANGED <<storeVars, attempts, live, secrets, cache, profile, runs>>
        /\ \E mode \in Modes :
              intents' = [intents EXCEPT ![i] = [mode |-> mode, state |-> "created"]]
    BY DEF Create, brokerVars, credVars
  <1>2. PICK mode \in Modes :
              intents' = [intents EXCEPT ![i] = [mode |-> mode, state |-> "created"]]
    BY <1>1
  <1>3. [mode |-> mode, state |-> "created"] \in Intent
    BY DEF Intent, Lifecycle
  <1>4. /\ intents' \in [IntentIds -> Intent \cup {None}]
        /\ \A j \in IntentIds : intents[j] # None => intents'[j] # None
    BY <1>2, <1>3, IntentAssumption DEF Laws, IntentTypeOK
  <1>5. TypeOK' /\ Stored \subseteq Stored' /\ [Next]_storeVars /\ UNCHANGED rateEvents
    BY <1>1, StoreUntouched, LoadedFrame
  <1>6. IntentTypeOK'
    BY <1>1, <1>4, <1>5 DEF IntentTypeOK, BrokerTypeOK, Laws
  <1>7. \A b \in ActionIds : AttemptLaw(b)'
    BY <1>1, <1>5, AttemptFrame DEF Laws
  <1>8. \A b \in ActionIds : b \in Started' => RunLaw(b)'
    BY <1>1, <1>4, RunFrame DEF Laws
  <1>9. SecretLaw' /\ GrantsLoaded'
    BY <1>1, <1>5 DEF Laws, SecretLaw, InHand, Made, GrantsLoaded
  <1> QED
    BY <1>5, <1>6, <1>7, <1>8, <1>9 DEF Laws, Started

LEMMA EnvironmentLaws ==
  ASSUME Laws, IntentEnvironment
  PROVE  Laws' /\ [Next]_storeVars
  <1>1. /\ UNCHANGED <<attempts, live, secrets, cache, profile, intents, runs>>
        /\ Next /\ UNCHANGED rateEvents
    BY DEF IntentEnvironment, credVars, Next, Tick, PutGrant, InsertGrant, AttachSignature,
           Revoke, SetStatus
  <1>2. TypeOK' /\ Stored \subseteq Stored'
    BY <1>1, LoadedFrame
  <1>3. IntentTypeOK'
    BY <1>1, <1>2 DEF IntentTypeOK, BrokerTypeOK, Laws
  <1>4. \A b \in ActionIds : AttemptLaw(b)'
    BY <1>1, AttemptFrame DEF Laws
  <1>5. \A b \in ActionIds : b \in Started' => RunLaw(b)'
    BY <1>1, RunFrame DEF Laws
  <1>6. SecretLaw' /\ GrantsLoaded'
    BY <1>1, <1>2 DEF Laws, SecretLaw, InHand, Made, GrantsLoaded
  <1> QED
    BY <1>1, <1>3, <1>4, <1>5, <1>6 DEF Laws, Started

(* What a restart leaves of an attempt and of a run.                       *)
LEMMA RestartAttempt ==
  ASSUME Laws, IntentRestart, NEW a \in Made
  PROVE  /\ attempts'[a] \in Attempt /\ attempts'[a] # None
         /\ attempts'[a].grant = attempts[a].grant
         /\ attempts'[a].landed = attempts[a].landed
         /\ attempts'[a].pc \in AttemptEnded
         /\ attempts'[a] = attempts[a] \/ attempts'[a].pc = "lost"
  <1> DEFINE lost == Shifted(attempts[a], "lost")
  <1>1. a \in ActionIds /\ attempts[a] \in Attempt /\ attempts[a] # None
    BY AttemptOf DEF Laws, IntentTypeOK
  <1>2. /\ lost \in Attempt /\ lost.pc = "lost" /\ lost.grant = attempts[a].grant
        /\ lost.landed = attempts[a].landed
    BY <1>1, ShiftedType DEF AttemptPlaces, AttemptEnded
  <1>3. attempts'[a] = IF Pending(a) THEN lost ELSE attempts[a]
    BY <1>1 DEF IntentRestart, BrokerRestart
  <1>4. lost # None
    BY <1>2, BrokerAssumption
  <1> HIDE DEF lost
  <1> QED
    BY <1>1, <1>2, <1>3, <1>4 DEF Pending, AttemptEnded

LEMMA RestartRun ==
  ASSUME Laws, IntentRestart, NEW a \in Started
  PROVE  /\ runs'[a] \in Run /\ runs'[a] # None
         /\ runs'[a].intent = runs[a].intent
         /\ runs'[a].acted = runs[a].acted
         /\ runs'[a].pc \in RunEnded
         /\ runs'[a].read = None
  <1> DEFINE lost == Unplanned(runs[a], "lost")
  <1>1. a \in ActionIds /\ runs[a] \in Run /\ runs[a] # None /\ RunLaw(a)
    BY RunOf DEF Laws
  <1>2. /\ lost \in Run /\ lost.pc = "lost" /\ lost.intent = runs[a].intent
        /\ lost.acted = runs[a].acted /\ lost.read = None
    BY <1>1, UnplannedType DEF RunPlaces, RunEnded
  <1>3. runs'[a] = IF runs[a].pc \notin RunEnded THEN lost ELSE runs[a]
    BY <1>1 DEF IntentRestart
  <1>4. lost # None
    BY <1>2, IntentAssumption
  <1> HIDE DEF lost
  <1>5. runs[a].pc \in RunEnded => runs[a].read = None
    BY <1>1 DEF RunLaw, Walking, RunEnded
  <1> QED
    BY <1>1, <1>2, <1>3, <1>4, <1>5 DEF RunEnded

LEMMA RestartLaws ==
  ASSUME Laws, IntentRestart
  PROVE  Laws' /\ [Next]_storeVars
  <1>1. /\ UNCHANGED <<storeVars, profile>> /\ live' = {} /\ secrets' = {} /\ cache' = None
    BY DEF IntentRestart, BrokerRestart
  <1>2. [Next]_storeVars /\ UNCHANGED rateEvents /\ Held' = Held /\ Stored' = Stored
    BY <1>1, StoreUntouched
  <1>3. attempts' \in [ActionIds -> Attempt \cup {None}]
    <2>1. ASSUME NEW a \in ActionIds
          PROVE  attempts'[a] \in Attempt \cup {None}
      BY RestartAttempt DEF IntentRestart, BrokerRestart, Pending, Made
    <2> QED
      BY <2>1 DEF IntentRestart, BrokerRestart
  <1>4. \A a \in ActionIds : attempts[a] = None => attempts'[a] = None
    BY DEF IntentRestart, BrokerRestart, Pending, Made
  <1>5. \A a \in ActionIds : runs[a] = None => runs'[a] = None
    BY DEF IntentRestart, Started
  <1>6. runs' \in [ActionIds -> Run \cup {None}]
    <2>1. ASSUME NEW a \in ActionIds
          PROVE  runs'[a] \in Run \cup {None}
      BY <1>5, RestartRun DEF Started
    <2> QED
      BY <2>1 DEF IntentRestart
  <1>7. intents' \in [IntentIds -> Intent \cup {None}]
    BY DEF IntentRestart, Laws, IntentTypeOK
  <1>8. IntentTypeOK'
    BY <1>1, <1>2, <1>3, <1>6, <1>7, LoadedFrame DEF IntentTypeOK, BrokerTypeOK, Laws
  <1>9. ASSUME NEW a \in ActionIds
        PROVE  AttemptLaw(a)'
    <2>1. CASE a \in Made
      BY <1>2, <2>1, RestartAttempt, AttemptFrame DEF AttemptLaw, Laws, Made, AttemptEnded
    <2>2. CASE a \notin Made
      BY <1>2, <1>4, <2>2 DEF AttemptLaw, Laws, Made
    <2> QED
      BY <2>1, <2>2
  <1>10. ASSUME NEW a \in ActionIds, runs'[a] # None
         PROVE  RunLaw(a)'
    <2>1. a \in Started
      BY <1>5, <1>10 DEF Started
    <2>2. runs'[a].pc \in RunEnded /\ runs'[a].read = None
      BY <2>1, RestartRun
    <2>3. ~Pending(a)'
      BY <1>4, RestartAttempt DEF Pending, Made
    <2> QED
      BY <2>2, <2>3 DEF RunLaw, RunEnded
  <1>11. SecretLaw'
    BY <1>1 DEF SecretLaw
  <1>12. GrantsLoaded'
    BY <1>2, <1>4, RestartAttempt DEF GrantsLoaded, Laws, Made
  <1> QED
    BY <1>2, <1>8, <1>9, <1>10, <1>11, <1>12 DEF Laws, Started

LEMMA LawsStep ==
  ASSUME Laws, [IntentNext]_intentVars
  PROVE  Laws' /\ [Next]_storeVars
  <1>1. CASE IntentNext
    BY <1>1, IntentSteps, CallerLaws, CreateLaws, EnvironmentLaws, RestartLaws
  <1>2. CASE UNCHANGED intentVars
    <2>1. /\ UNCHANGED <<storeVars, attempts, live, secrets, cache, profile, intents, runs>>
      BY <1>2 DEF intentVars, brokerVars, credVars
    <2>2. TypeOK' /\ Stored \subseteq Stored' /\ [Next]_storeVars /\ UNCHANGED rateEvents
      BY <2>1, StoreUntouched, LoadedFrame
    <2>3. \A b \in ActionIds : AttemptLaw(b)'
      BY <2>1, <2>2, AttemptFrame DEF Laws
    <2>4. \A b \in ActionIds : b \in Started' => RunLaw(b)'
      BY <2>1, RunFrame DEF Laws
    <2>5. IntentTypeOK' /\ SecretLaw' /\ GrantsLoaded'
      BY <2>1, <2>2
      DEF IntentTypeOK, BrokerTypeOK, Laws, SecretLaw, InHand, Made, GrantsLoaded
    <2> QED
      BY <2>2, <2>3, <2>4, <2>5 DEF Laws, Started
  <1> QED
    BY <1>1, <1>2

LEMMA LawsStart ==
  IntentInit => Laws /\ Init
  <1> SUFFICES ASSUME IntentInit
               PROVE  Laws /\ Init
    OBVIOUS
  <1>1. /\ Init /\ profile \in Profiles
        /\ attempts = [a \in ActionIds |-> None]
        /\ live = {} /\ secrets = {} /\ cache = None
        /\ intents = [i \in IntentIds |-> None]
        /\ runs = [a \in ActionIds |-> None]
    BY DEF IntentInit, BrokerInit
  <1>2. IntentTypeOK
    BY <1>1 DEF IntentTypeOK, BrokerTypeOK, TypeOK, Init
  <1>3. Held = {}
    BY <1>1 DEF Held, Init
  <1> QED
    BY <1>1, <1>2, <1>3 DEF Laws, GrantsLoaded, SecretLaw, AttemptLaw, Made, Started

LEMMA LawsHold == IntentSpec => []Laws
  BY LawsStart, LawsStep, PTL DEF IntentSpec

(* Attempts, credentials, intents and runs are well formed in every        *)
(* reachable state.                                                        *)
THEOREM IntentTypeCorrect == IntentSpec => []IntentTypeOK
  <1>1. Laws => IntentTypeOK
    BY DEF Laws
  <1> QED
    BY <1>1, LawsHold, PTL

(* Intents and the broker, with both intent stores, credentials and        *)
(* restarts, change the store only as the store's own operations do.       *)
THEOREM IntentsAreStore == IntentSpec => IntentsUseStore
  BY LawsStart, LawsStep, LawsHold, PTL DEF IntentSpec, IntentsUseStore, Spec

(* What is proved of the store, of intents and the broker.                 *)
COROLLARY IntentMoney ==
  IntentSpec => /\ [](BudgetConservation /\ NoOverspend /\ RateCeiling)
                /\ [](ChargedLineageClosed /\ ChargesNoWider /\ SubtreeWithinLimit)
                /\ DeadStaysDead /\ SettledOnce /\ NothingChargedToLapsed
                /\ Escrow!Spec
  BY IntentsAreStore, StoreIsSafe, PTL DEF IntentsUseStore

(* Money is never given back for a request that the provider may have      *)
(* acted on.                                                               *)
THEOREM EffectsFunded == IntentSpec => []SideEffectsFunded
  <1>1. Laws => SideEffectsFunded
    BY DEF Laws, AttemptLaw, SideEffectsFunded, Made
  <1> QED
    BY <1>1, LawsHold, PTL

(* A refused or denied attempt never reached the provider and has its      *)
(* money back, unless an error on the way kept it.                         *)
THEOREM RefusalsFree == IntentSpec => []RefusedIsFree
  <1>1. Laws => RefusedIsFree
    <2> SUFFICES ASSUME Laws, NEW a \in Made, attempts[a].pc \in {"refused", "denied"}
                 PROVE  /\ ~attempts[a].landed
                        /\ attempts[a].cost > 0 /\ ~attempts[a].fault => a \notin Held
      BY DEF RefusedIsFree
    <2>1. AttemptLaw(a)
      BY DEF Laws, Made
    <2> QED
      BY <2>1 DEF AttemptLaw
  <1> QED
    BY <1>1, LawsHold, PTL

(* A credential value is in the hand of an attempt in progress, or gone.   *)
THEOREM SecretsGone == IntentSpec => []SecretsDestroyed
  <1>1. Laws => SecretsDestroyed
    BY DEF Laws, SecretLaw, SecretsDestroyed
  <1> QED
    BY <1>1, LawsHold, PTL

-----------------------------------------------------------------------------
(* Racing for an intent.  A run has opened its intent once it has taken it *)
(* out of CREATED; it is working when the request may be on its way.       *)
Opened(a) ==
    \/ runs[a].pc = "advance" /\ runs[a].plan \in Opening /\ runs[a].step > 1
    \/ runs[a].pc \in {"dispatch", "posted", "finish"}
    \/ Acted(a)

Working(a) ==
    \/ runs[a].pc \in {"dispatch", "posted"}
    \/ runs[a].pc = "advance" /\ runs[a].plan \in Opening \ {"deny"} /\ Finished(a)

LEMMA WorkingOpened ==
  ASSUME Laws, NEW a \in Started, Working(a)
  PROVE  Opened(a)
  <1>1. CASE runs[a].pc = "advance" /\ runs[a].plan \in Opening /\ Finished(a)
    <2> DEFINE length == Len(Plans[runs[a].plan])
    <2>1. length \in Nat /\ length >= 2
      BY <1>1, OpeningPlans
    <2>2. runs[a].step \in 1..7 /\ runs[a].step > length
      BY <1>1, RunOf DEF Laws, Run, Finished
    <2> HIDE DEF length
    <2>3. runs[a].step > 1
      BY <2>1, <2>2
    <2> QED
      BY <1>1, <2>3 DEF Opened
  <1> QED
    BY <1>1 DEF Opened, Working

(* A step that writes no record opens nothing, starts no work, and leads   *)
(* to the provider or the resource only from work in progress.             *)
Quiet(a) ==
    /\ intents' = intents
    /\ a \in Started' =>
         /\ Opened(a)' => a \in Started /\ Opened(a)
         /\ Working(a)' => a \in Started /\ Working(a)
         /\ Acted(a)' => a \in Started /\ (Acted(a) \/ Working(a))
    /\ a \in Started => (runs[a].acted => runs'[a].acted)

LEMMA ActedStep ==
  ASSUME Laws, NEW a \in Started, CallerStep(a), runs'[a].acted = runs[a].acted
  PROVE  Acted(a)' => Acted(a) \/ runs[a].pc = "dispatch"
  <1>1. a \in ActionIds /\ RunLaw(a) /\ AttemptSide(a)
    BY RunOf, LawsOf, CallerSides DEF Laws
  <1>2. CASE a \in Made
    <2>1. attempts[a].pc = "resolved" => runs[a].pc = "dispatch"
      <3>1. runs[a].pc \in RunPlaces
        BY RunOf DEF Laws, Run, RunPlaces
      <3> QED
        BY <1>1, <1>2, <3>1 DEF RunLaw, RunPlaces, RunEnded, Reached, Pending, Opening,
                                AttemptEnded, Results
    <2> QED
      BY <1>1, <1>2, <2>1 DEF AttemptSide, Acted, Made
  <1>3. CASE a \notin Made
    BY <1>1, <1>3 DEF AttemptSide, Acted, Made
  <1> QED
    BY <1>2, <1>3

(* It is enough to look at where the run goes.                             *)
LEMMA QuietFrom ==
  ASSUME Laws, NEW a \in Started, CallerStep(a), runs'[a].acted = runs[a].acted,
         intents' = intents,
         \/ /\ runs'[a].pc = runs[a].pc /\ runs'[a].plan = runs[a].plan
            /\ runs'[a].step = runs[a].step /\ a \in Started'
         \/ runs'[a].pc \in RunEnded
         \/ runs'[a].pc = "advance" /\ runs'[a].plan \in Opening /\ runs'[a].step = 1
         \/ runs'[a].pc = "dispatch" /\ Working(a)
         \/ runs'[a].pc = "finish" /\ runs[a].pc \in {"dispatch", "posted"}
  PROVE  Quiet(a)
  <1>1. Acted(a)' => Acted(a) \/ runs[a].pc = "dispatch"
    BY ActedStep
  <1>2. Acted(a)' => Opened(a) /\ (Acted(a) \/ Working(a))
    BY <1>1 DEF Opened, Working
  <1>3. CASE /\ runs'[a].pc = runs[a].pc /\ runs'[a].plan = runs[a].plan
             /\ runs'[a].step = runs[a].step /\ a \in Started'
    <2>1. Finished(a)' <=> Finished(a)
      BY <1>3 DEF Finished, Walking
    <2> QED
      BY <1>2, <1>3, <2>1 DEF Quiet, Opened, Working
  <1>4. CASE runs'[a].pc = "advance" /\ runs'[a].plan \in Opening /\ runs'[a].step = 1
    <2> DEFINE length == Len(Plans[runs'[a].plan])
    <2>1. length \in Nat /\ length >= 2
      BY <1>4, OpeningPlans
    <2>2. Finished(a)' => 1 > length
      BY <1>4 DEF Finished
    <2> HIDE DEF length
    <2>3. ~Finished(a)'
      BY <2>1, <2>2
    <2> QED
      BY <1>2, <1>4, <2>3 DEF Quiet, Opened, Working
  <1>5. CASE runs'[a].pc \in RunEnded
    BY <1>2, <1>5 DEF Quiet, Opened, Working, RunEnded
  <1>6. CASE runs'[a].pc = "dispatch" /\ Working(a)
    BY <1>2, <1>6, WorkingOpened DEF Quiet, Opened, Working
  <1>7. CASE runs'[a].pc = "finish" /\ runs[a].pc \in {"dispatch", "posted"}
    BY <1>2, <1>7 DEF Quiet, Opened, Working
  <1> QED
    BY <1>3, <1>4, <1>5, <1>6, <1>7

LEMMA QuietOpenings ==
  ASSUME Laws, NEW a \in ActionIds, Begins(a) \/ Opens(a)
  PROVE  Quiet(a)
  <1>1. IntentTypeOK /\ BrokerTypeOK /\ AttemptLaw(a) /\ SecretLaw
    BY LawsOf
  <1>2. CASE Begins(a)
    <2>1. PICK g \in Tokens, cost \in Charges :
             CallAdapterTool(a, g, cost) \/ \E i \in IntentIds : Execute(a, i, g, cost)
      BY <1>2 DEF Begins
    <2>2. /\ BeginAttempt(a, g, cost) /\ runs[a] = None
          /\ UNCHANGED <<storeVars, credVars, profile, intents>>
      BY <2>1 DEF CallAdapterTool, Execute, StartRun
    <2>3. g \in GrantIds /\ ~attempts'[a].landed
      BY <1>1, <2>2, Beginning, BrokerAssumption
    <2>4. CASE CallAdapterTool(a, g, cost)
      BY <2>2, <2>4 DEF CallAdapterTool, Quiet, Started
    <2>5. ASSUME NEW i \in IntentIds, Execute(a, i, g, cost)
          PROVE  Quiet(a)
      <3>1. runs'[a].pc = "decide" /\ ~runs'[a].acted
        BY <1>1, <2>5, Starting, PlanTable DEF Execute, RunPlaces
      <3> QED
        BY <2>2, <2>3, <3>1 DEF Quiet, Opened, Working, Acted, Started
    <2> QED
      BY <2>1, <2>4, <2>5
  <1>3. CASE Opens(a)
    <2>1. PICK i \in IntentIds, plan \in {"submit", "cancelled", "expired"} :
             StartRun(a, i, "advance", plan) /\ UNCHANGED <<brokerVars, profile, intents>>
      BY <1>3, IntentAssumption DEF Opens, Submit, SetByHand
    <2>2. plan \in DOMAIN Plans
      BY PlanTable
    <2>3. /\ runs[a] = None /\ attempts[a] = None /\ runs'[a].pc = "advance"
          /\ runs'[a].plan = plan /\ runs'[a].step = 1 /\ ~runs'[a].acted
      BY <1>1, <2>1, <2>2, Starting DEF RunPlaces
    <2>4. ~Acted(a)' /\ ~Opened(a)'
      BY <2>1, <2>3 DEF Acted, Opened, Made, brokerVars
    <2> DEFINE length == Len(Plans[plan])
    <2>5. plan \in Opening => length \in Nat /\ length >= 2
      BY OpeningPlans
    <2>6. Finished(a)' => 1 > length
      BY <2>3 DEF Finished
    <2> HIDE DEF length
    <2>7. ~Working(a)'
      BY <2>3, <2>5, <2>6 DEF Working
    <2> QED
      BY <2>1, <2>3, <2>4, <2>7 DEF Quiet, Started
  <1> QED
    BY <1>2, <1>3

LEMMA QuietEnds ==
  ASSUME Laws, NEW a \in ActionIds,
         TransitionRefused(a) \/ ReportCrash(a) \/ PostRaises(a) \/ RunDone(a)
  PROVE  Quiet(a)
  <1>1. a \in Started /\ CallerStep(a) /\ IntentTypeOK
    BY ErrorSteps, LawsOf DEF CallerStep, RunStep
  <1>2. PICK pc \in RunEnded : RunGoto(a, pc) /\ intents' = intents
    BY DEF TransitionRefused, ReportCrash, PostRaises, RunDone, RunEnded
  <1>3. runs'[a].pc \in RunEnded /\ runs'[a].acted = runs[a].acted
    BY <1>1, <1>2, GoingTo DEF RunPlaces
  <1> QED
    BY <1>1, <1>2, <1>3, QuietFrom

LEMMA QuietDecisions ==
  ASSUME Laws, NEW a \in ActionIds, NeedApproval(a) \/ RecordDenial(a) \/ Manage(a)
  PROVE  Quiet(a)
  <1>1. a \in Started /\ CallerStep(a) /\ IntentTypeOK
    BY DecideSteps, LawsOf DEF CallerStep, RunStep
  <1>2. intents' = intents
    BY DEF NeedApproval, RecordDenial, Manage
  <1>3. CASE NeedApproval(a)
    BY <1>1, <1>2, <1>3, QuietFrom DEF NeedApproval, Started
  <1>4. ASSUME NEW plan \in {"deny", "allow", "approve"}, Follow(a, "advance", plan)
        PROVE  Quiet(a)
    <2>1. plan \in DOMAIN Plans /\ plan \in Opening
      BY PlanTable DEF Opening
    <2>2. /\ runs'[a].pc = "advance" /\ runs'[a].plan = plan /\ runs'[a].step = 1
          /\ runs'[a].acted = runs[a].acted
      BY <1>1, <1>4, <2>1, Following DEF RunPlaces
    <2> QED
      BY <1>1, <1>2, <2>1, <2>2, QuietFrom
  <1>5. ASSUME RunGoto(a, "error")
        PROVE  Quiet(a)
    <2>1. runs'[a].pc \in RunEnded /\ runs'[a].acted = runs[a].acted
      BY <1>1, <1>5, GoingTo DEF RunPlaces, RunEnded
    <2> QED
      BY <1>1, <1>2, <2>1, QuietFrom
  <1> QED
    BY <1>3, <1>4, <1>5 DEF RecordDenial, Manage

LEMMA QuietSteps ==
  ASSUME Laws, NEW a \in ActionIds, CallerStep(a), ~Advance(a), ~WriteRecord(a)
  PROVE  Quiet(a)
  <1>1. IntentTypeOK
    BY DEF Laws
  <1>2. CASE AttemptStep(a)
    <2>1. runs' = runs /\ intents' = intents
      BY <1>2 DEF AttemptStep
    <2>2. CASE a \in Started
      BY <2>1, <2>2, QuietFrom DEF Started
    <2>3. CASE a \notin Started
      BY <2>1, <2>3 DEF Started, Quiet
    <2> QED
      BY <2>2, <2>3
  <1>3. CASE Dispatch(a)
    <2>1. /\ a \in Started /\ runs'[a].pc = "dispatch" /\ runs'[a].acted = runs[a].acted
      BY <1>3, DispatchStep
    <2>2. Working(a) /\ intents' = intents
      BY <1>3 DEF Dispatch, Working, RunAt, Opening
    <2> QED
      BY <2>1, <2>2, QuietFrom
  <1>4. CASE Post(a)
    <2>1. a \in Started /\ runs'[a].pc = "posted" /\ intents' = intents
      BY <1>4, PostStep DEF Post
    <2>2. Working(a) /\ ~runs[a].acted
      BY <1>4, <2>1, LawsOf DEF Post, Working, RunAt, Opening, RunLaw
    <2>3. Opened(a)
      BY <2>1, <2>2, WorkingOpened
    <2> QED
      BY <2>1, <2>2, <2>3 DEF Quiet
  <1>5. CASE Report(a) \/ PostAnswered(a)
    <2>1. /\ a \in Started /\ runs'[a].pc = "finish" /\ runs'[a].acted = runs[a].acted
          /\ runs[a].pc \in {"dispatch", "posted"}
      BY <1>5, FinishSteps
    <2>2. intents' = intents
      BY <1>5 DEF Report, PostAnswered
    <2> QED
      BY <2>1, <2>2, QuietFrom
  <1>6. CASE ReadRecord(a)
    <2>1. a \in Started /\ runs[a] \in Run /\ intents' = intents
      BY <1>1, <1>6, RunOf DEF ReadRecord, Walking
    <2>2. /\ runs'[a].pc = runs[a].pc /\ runs'[a].plan = runs[a].plan
          /\ runs'[a].step = runs[a].step /\ runs'[a].acted = runs[a].acted
      BY <1>1, <1>6, <2>1 DEF ReadRecord, IntentTypeOK, Started, Run
    <2>3. a \in Started'
      BY <1>6, PlanSteps DEF RunSide, Started
    <2> QED
      BY <2>1, <2>2, <2>3, QuietFrom
  <1> QED
    BY <1>2, <1>3, <1>4, <1>5, <1>6, QuietOpenings, QuietEnds, QuietDecisions
    DEF CallerStep, RunStep

(* What a run writes, in either store.                                     *)
Written(a, record) ==
    /\ record \in Intent
    /\ Advance(a) => Ephemeral /\ record = Record(a) /\ Legal(record, Item(a))
    /\ WriteRecord(a) => ~Ephemeral /\ record = runs[a].read
    /\ intents' = [intents EXCEPT ![runs[a].intent] = Updated(record, Item(a))]

LEMMA Writing ==
  ASSUME Laws, NEW a \in ActionIds, Advance(a) \/ WriteRecord(a)
  PROVE  /\ a \in Started /\ Walking(a) /\ ~Finished(a)
         /\ runs'[a].pc = runs[a].pc /\ runs'[a].plan = runs[a].plan
         /\ runs'[a].acted = runs[a].acted /\ runs'[a].step = runs[a].step + 1
         /\ runs'[a].read = None /\ attempts' = attempts /\ (Acted(a)' <=> Acted(a))
         /\ \E record : Written(a, record)
  <1>1. a \in Started /\ Walking(a)
    BY DEF Advance, WriteRecord, Walking
  <1>2. runs[a] \in Run /\ RunLaw(a) /\ IntentTypeOK /\ Record(a) \in Intent
    BY <1>1, RunOf, RecordOf DEF Laws, Walking, RunEnded
  <1>3. ~Finished(a) /\ (Advance(a) => Ephemeral) /\ (WriteRecord(a) => ~Ephemeral)
    BY <1>2 DEF RunLaw, Advance, WriteRecord
  <1>4. attempts' = attempts
    BY DEF Advance, WriteRecord, brokerVars
  <1>5. Advance(a) => runs[a].read = None
    BY <1>2, <1>3 DEF RunLaw
  <1>6. runs' = [runs EXCEPT ![a] = [@ EXCEPT !.step = runs[a].step + 1, !.read = None]]
    <2>1. runs[a].read = None =>
            [runs[a] EXCEPT !.step = runs[a].step + 1, !.read = None] =
              [runs[a] EXCEPT !.step = runs[a].step + 1]
      BY <1>2 DEF Run
    <2>2. CASE Advance(a)
      BY <1>2, <1>5, <2>1, <2>2 DEF Advance, IntentTypeOK
    <2>3. CASE WriteRecord(a)
      BY <2>3 DEF WriteRecord
    <2> QED
      BY <2>2, <2>3
  <1>7. /\ runs'[a].pc = runs[a].pc /\ runs'[a].plan = runs[a].plan
        /\ runs'[a].acted = runs[a].acted /\ runs'[a].step = runs[a].step + 1
        /\ runs'[a].read = None
    BY <1>1, <1>3, <1>6, Stepping
  <1>8. Acted(a)' <=> Acted(a)
    BY <1>4, <1>7 DEF Acted, Made
  <1>9. \E record : Written(a, record)
    <2>1. CASE Advance(a)
      <3>1. ~WriteRecord(a)
        BY <1>3, <2>1
      <3> QED
        BY <1>2, <1>3, <2>1, <3>1 DEF Advance, Record, Written
    <2>2. CASE WriteRecord(a)
      <3>1. runs[a].read \in Intent /\ ~Advance(a)
        BY <1>2, <1>3, <2>2 DEF WriteRecord, Run
      <3> QED
        BY <1>3, <2>2, <3>1 DEF WriteRecord, Written
    <2> QED
      BY <2>1, <2>2
  <1> QED
    BY <1>1, <1>3, <1>4, <1>7, <1>8, <1>9

LEMMA ItemPlaces ==
  ASSUME Laws, NEW a \in Started, Walking(a), ~Finished(a)
  PROVE  /\ runs[a].pc = "finish" =>
              /\ runs[a].plan \in Results \cup {"accepted"}
              /\ Item(a) \in {"link", runs[a].plan}
              /\ runs[a].plan = "accepted" => Item(a) = "link"
         /\ runs[a].pc = "advance" =>
              /\ runs[a].plan \in Opening \cup {"cancelled", "expired"}
              /\ runs[a].plan \notin Opening => Item(a) \in {"cancelled", "expired"}
              /\ runs[a].plan \in Opening /\ ~(runs[a].step > 1) => Item(a) = "evaluating"
              /\ /\ runs[a].plan \in Opening \ {"deny"}
                 /\ runs[a].step + 1 > Len(Plans[runs[a].plan])
                 => Item(a) \in {"executing", "submitted"}
  <1> DEFINE plan == runs[a].plan
             length == Len(Plans[plan])
  <1>1. RunLaw(a) /\ runs[a].step \in 1..length /\ runs[a].step \in 1..7
    BY RunOf, LawsOf, ItemOf DEF Laws, Run
  <1>2. CASE runs[a].pc = "finish"
    BY <1>1, <1>2, FinishPlans DEF RunLaw, Item
  <1>3. CASE runs[a].pc = "advance"
    <2>1. plan \in Opening \cup {"cancelled", "expired"}
      BY <1>1, <1>3 DEF RunLaw
    <2>2. CASE plan \notin Opening
      <3>1. length = 1 /\ Plans[plan][1] \in {"cancelled", "expired"}
        <4>1. plan \in {"cancelled", "expired"}
          BY <2>1, <2>2
        <4>2. Plans[plan] \in {<<"cancelled">>, <<"expired">>}
          BY <4>1, PlanTable
        <4> QED
          BY <4>2
      <3>2. runs[a].step = 1
        <4> HIDE DEF length
        <4> QED
          BY <1>1, <3>1
      <3> QED
        BY <1>3, <2>1, <2>2, <3>1, <3>2 DEF Item
    <2>3. CASE plan \in Opening
      <3>1. /\ Plans[plan][1] = "evaluating" /\ length \in Nat
            /\ plan # "deny" => Plans[plan][length] \in {"executing", "submitted"}
        BY <2>3, OpeningPlans
      <3> HIDE DEF length
      <3>2. /\ ~(runs[a].step > 1) => runs[a].step = 1
            /\ runs[a].step + 1 > length => runs[a].step = length
        BY <1>1, <3>1
      <3> QED
        BY <1>3, <2>3, <3>1, <3>2 DEF Item, length
    <2> QED
      BY <2>2, <2>3
  <1> QED
    BY <1>2, <1>3 DEF Walking

(* With the in-memory store one run at most has opened an intent, and then *)
(* the intent is no longer CREATED.  While a run is working, or when it    *)
(* has acted, the state of the intent does not deny it.                    *)
Underway == {"executing", "submitted", "expired"}
Truthful == Underway \cup {"succeeded", "failed", "outcome_unknown"}

StateOf(a) == intents[runs[a].intent].state

RaceOf(a) ==
    /\ Opened(a) =>
         /\ Record(a) # None => StateOf(a) # "created"
         /\ \A b \in Started : Opened(b) /\ runs[b].intent = runs[a].intent => a = b
    /\ Record(a) # None /\ Working(a) => StateOf(a) \in Underway
    /\ Record(a) # None /\ Acted(a) => StateOf(a) \in Truthful

RaceLaw == Ephemeral => \A a \in Started : RaceOf(a)

(* What a step of one caller leaves of the runs of the others.             *)
LEMMA OtherRuns ==
  ASSUME NEW b \in ActionIds, runs'[b] = runs[b], attempts'[b] = attempts[b]
  PROVE  /\ b \in Started' <=> b \in Started
         /\ Acted(b)' <=> Acted(b)
         /\ Opened(b)' <=> Opened(b)
         /\ Working(b)' <=> Working(b)
  <1>1. /\ b \in Started' <=> b \in Started
        /\ Acted(b)' <=> Acted(b)
    BY DEF Started, Acted, Made
  <1>2. Finished(b)' <=> Finished(b)
    BY <1>1 DEF Finished, Walking
  <1> QED
    BY <1>1, <1>2 DEF Opened, Working

LEMMA QuietRace ==
  ASSUME Laws, RaceLaw, NEW a \in ActionIds, CallerStep(a), Quiet(a)
  PROVE  RaceLaw'
  <1>1. /\ AttemptSide(a) /\ RunSide(a)
    BY CallerSides
  <1>2. profile' = profile /\ intents' = intents
    BY <1>1 DEF RunSide, Quiet
  <1>3. ASSUME NEW b \in Started'
        PROVE  /\ Opened(b)' => b \in Started /\ Opened(b)
               /\ Working(b)' => b \in Started /\ Working(b)
               /\ Acted(b)' => b \in Started /\ (Acted(b) \/ Working(b))
               /\ b \in Started => runs'[b].intent = runs[b].intent
    <2>1. CASE b = a
      BY <1>1, <1>3, <2>1 DEF Quiet, RunSide
    <2>2. CASE b # a
      <3>1. b \in ActionIds /\ runs'[b] = runs[b] /\ attempts'[b] = attempts[b]
        BY <1>1, <1>3, <2>2 DEF RunSide, AttemptSide, Started
      <3> QED
        BY <1>3, <3>1, OtherRuns
    <2> QED
      BY <2>1, <2>2
  <1>4. ASSUME Ephemeral, NEW b \in Started'
        PROVE  RaceOf(b)'
    <2>1. b \in Started => /\ RaceOf(b)
                           /\ Record(b)' = Record(b) /\ StateOf(b)' = StateOf(b)
      BY <1>2, <1>3, <1>4 DEF RaceLaw, Record, StateOf
    <2>2. ASSUME Opened(b)', NEW c \in Started', Opened(c)', (runs[c].intent = runs[b].intent)'
          PROVE  b = c
      BY <1>3, <2>1, <2>2 DEF RaceOf
    <2>3. ASSUME Opened(b)', Record(b)' # None
          PROVE  StateOf(b)' # "created"
      BY <1>3, <2>1, <2>3 DEF RaceOf
    <2>4. ASSUME Record(b)' # None
          PROVE  /\ Working(b)' => StateOf(b)' \in Underway
                 /\ Acted(b)' => StateOf(b)' \in Truthful
      BY <1>3, <2>1, <2>4 DEF RaceOf, Truthful
    <2> QED
      BY <2>2, <2>3, <2>4 DEF RaceOf, Underway, Truthful
  <1> QED
    BY <1>2, <1>4 DEF RaceLaw, Ephemeral

LEMMA AdvanceRace ==
  ASSUME Laws, RaceLaw, NEW a \in ActionIds, Advance(a)
  PROVE  RaceLaw'
  <1> DEFINE i == runs[a].intent
             item == Item(a)
  <1>1. PICK record : Written(a, record)
    BY Writing
  <1> DEFINE from == record.state
             to == Updated(record, item).state
  <1>2. /\ a \in Started /\ Walking(a) /\ ~Finished(a) /\ Ephemeral /\ RunLaw(a)
        /\ AttemptLaw(a) /\ RunSide(a) /\ RaceOf(a) /\ IntentTypeOK /\ runs[a] \in Run
    BY Writing, LawsOf, CallerSides, RunOf DEF RaceLaw, Advance, CallerStep, RunStep
  <1>3. /\ runs'[a].pc = runs[a].pc /\ runs'[a].plan = runs[a].plan
        /\ runs'[a].step = runs[a].step + 1 /\ attempts' = attempts
        /\ Acted(a)' <=> Acted(a)
    BY Writing
  <1>4. /\ record \in Intent /\ record = Record(a) /\ i \in IntentIds /\ record # None
        /\ from \in Lifecycle /\ item \in Lifecycle \cup {"link"}
        /\ intents' = [intents EXCEPT ![i] = Updated(record, item)]
    BY <1>1, <1>2, ItemOf, IntentAssumption DEF Written, Run, Intent
  <1>5. /\ intents'[i] = Updated(record, item) /\ intents'[i] # None
        /\ to = IF item = "link" THEN from ELSE item
        /\ \A j \in IntentIds : j # i => intents'[j] = intents[j]
    BY <1>2, <1>4, UpdatedType DEF IntentTypeOK
  <1>6. item = "link" \/ item \in Transitions[from]
    BY <1>1 DEF Written, Legal, Advance
  <1>7. /\ item # "link" => item \in Lifecycle \ {"created"}
        /\ item = "evaluating" => from = "created"
        /\ item = "cancelled" => from \notin Truthful
    <2>1. CASE item = "link"
      BY <2>1
    <2>2. CASE item \in Transitions[from]
      BY <1>4, <2>2, LegalMoves DEF Truthful, Underway
    <2> QED
      BY <1>6, <2>1, <2>2
  <1> HIDE DEF item, from, to, i
  <1>8. Opened(a)' => Opened(a) \/ (item = "evaluating" /\ from = "created")
    BY <1>2, <1>3, <1>7, ItemPlaces DEF Opened, item, Walking
  <1>9. Working(a)' => to \in Underway
    <2>1. Working(a)' => item \in {"executing", "submitted"}
      BY <1>2, <1>3, ItemPlaces DEF Working, item, Walking, Finished
    <2> QED
      BY <1>5, <2>1 DEF Underway
  <1>10. Acted(a) => item \in {"link", "succeeded", "failed", "outcome_unknown"}
    <2>1. Acted(a) => runs[a].pc = "finish" /\ runs[a].plan # "refused"
      BY <1>2 DEF Acted, RunLaw, AttemptLaw, Walking, Reached, Opening
    <2> QED
      BY <1>2, <2>1, ItemPlaces DEF item, Results
  <1>11. ASSUME NEW b \in Started, b # a, Opened(b), runs[b].intent = i
         PROVE  from # "created" /\ to # "created" /\ item \in {"cancelled", "expired"}
    <2>1. RaceOf(b) /\ Record(b) = record /\ StateOf(b) = from
      BY <1>2, <1>4, <1>11 DEF RaceLaw, Record, StateOf, i, from
    <2>2. ~Opened(a) /\ from # "created"
      BY <1>2, <1>4, <1>11, <2>1 DEF RaceOf, i
    <2>3. item \in {"cancelled", "expired"}
      BY <1>2, <1>7, <2>2, ItemPlaces DEF Opened, item, Walking
    <2> QED
      BY <1>5, <2>2, <2>3
  <1>12. ASSUME NEW b \in Started'
         PROVE  b \in Started /\ runs'[b].intent = runs[b].intent /\ runs[b].intent \in IntentIds
    <2>1. b \in Started /\ (b # a => runs'[b] = runs[b])
      BY <1>2, <1>12 DEF RunSide, Started
    <2> QED
      BY <1>2, <2>1, RunOf DEF RunSide, Run
  <1>13. ASSUME NEW b \in Started', b # a
         PROVE  /\ Acted(b)' <=> Acted(b)
                /\ Opened(b)' <=> Opened(b)
                /\ Working(b)' <=> Working(b)
    BY <1>2, <1>3, <1>13, OtherRuns DEF RunSide, Started
  <1>14. ASSUME NEW b \in Started'
         PROVE  RaceOf(b)'
    <2>1. ASSUME Opened(b)', NEW c \in Started', Opened(c)', (runs[c].intent = runs[b].intent)'
          PROVE  b = c
      <3>1. runs[c].intent = runs[b].intent
        BY <1>12, <2>1
      <3>2. CASE Opened(b) /\ Opened(c)
        BY <1>2, <1>12, <3>1, <3>2 DEF RaceLaw, RaceOf
      <3>3. CASE b = a /\ c # a /\ ~Opened(a)
        BY <1>8, <1>11, <1>12, <1>13, <2>1, <3>1, <3>3 DEF i
      <3>4. CASE c = a /\ b # a /\ ~Opened(a)
        BY <1>8, <1>11, <1>12, <1>13, <2>1, <3>1, <3>4 DEF i
      <3> QED
        BY <1>13, <2>1, <3>2, <3>3, <3>4
    <2>2. CASE runs[b].intent # i
      <3>1. b # a /\ Record(b)' = Record(b) /\ StateOf(b)' = StateOf(b)
        BY <1>5, <1>12, <2>2 DEF i, Record, StateOf
      <3>2. RaceOf(b)
        BY <1>2, <1>12 DEF RaceLaw
      <3> QED
        BY <1>13, <2>1, <3>1, <3>2 DEF RaceOf, Underway, Truthful
    <2>3. CASE runs[b].intent = i
      <3>1. StateOf(b)' = to /\ Record(b)' # None
        BY <1>5, <1>12, <2>3 DEF Record, StateOf, to
      <3>2. CASE b = a
        <4>1. StateOf(a) = from /\ Record(a) # None
          BY <1>4 DEF StateOf, Record, from, i
        <4>2. Opened(a)' => to # "created"
          BY <1>2, <1>5, <1>7, <1>8, <4>1 DEF RaceOf
        <4>3. Acted(a)' => to \in Truthful
          BY <1>2, <1>3, <1>5, <1>10, <4>1 DEF RaceOf, Truthful
        <4> QED
          BY <1>9, <2>1, <3>1, <3>2, <4>2, <4>3 DEF RaceOf, Underway, Truthful
      <3>3. CASE b # a
        <4>1. RaceOf(b) /\ StateOf(b) = from /\ Record(b) # None
          BY <1>2, <1>4, <1>12, <2>3 DEF RaceLaw, StateOf, Record, from, i
        <4>2. Opened(b)' => to # "created"
          BY <1>11, <1>12, <1>13, <2>3, <3>3
        <4>3. (Working(b) => Opened(b)) /\ (Acted(b) => Opened(b))
          BY <1>12, WorkingOpened DEF Opened
        <4>4. Working(b)' => to \in Underway
          BY <1>5, <1>7, <1>11, <1>12, <1>13, <2>3, <3>3, <4>1, <4>3
          DEF RaceOf, Underway, Truthful
        <4>5. Acted(b)' => to \in Truthful
          BY <1>5, <1>7, <1>11, <1>12, <1>13, <2>3, <3>3, <4>1, <4>3
          DEF RaceOf, Underway, Truthful
        <4> QED
          BY <2>1, <3>1, <4>2, <4>4, <4>5 DEF RaceOf, Underway, Truthful
      <3> QED
        BY <3>2, <3>3
    <2> QED
      BY <2>2, <2>3
  <1> QED
    BY <1>14 DEF RaceLaw

(* Steps that touch no run.                                                *)
LEMMA StillRace ==
  ASSUME Laws, RaceLaw, UNCHANGED <<attempts, profile, intents, runs>>
  PROVE  RaceLaw'
  <1>1. Ephemeral' <=> Ephemeral
    BY DEF Ephemeral
  <1>2. ASSUME NEW b \in Started'
        PROVE  /\ b \in Started /\ (Opened(b)' <=> Opened(b))
               /\ Working(b)' <=> Working(b)
               /\ Acted(b)' <=> Acted(b)
    BY <1>2, OtherRuns DEF Started
  <1>3. ASSUME Ephemeral, NEW b \in Started'
        PROVE  RaceOf(b)'
    <2>1. RaceOf(b) /\ Record(b)' = Record(b) /\ StateOf(b)' = StateOf(b)
      BY <1>2, <1>3 DEF RaceLaw, Record, StateOf
    <2>2. ASSUME Opened(b)', NEW c \in Started', Opened(c)', (runs[c].intent = runs[b].intent)'
          PROVE  b = c
      BY <1>2, <2>1, <2>2 DEF RaceOf
    <2> QED
      BY <1>2, <1>3, <2>1, <2>2 DEF RaceOf, Underway, Truthful
  <1> QED
    BY <1>1, <1>3 DEF RaceLaw

LEMMA CreateRace ==
  ASSUME Laws, RaceLaw, NEW i \in IntentIds, Create(i)
  PROVE  RaceLaw'
  <1>1. UNCHANGED <<attempts, profile, runs>>
    BY DEF Create, brokerVars
  <1>2. \A j \in IntentIds : j # i => intents'[j] = intents[j]
    BY DEF Create, Laws, IntentTypeOK
  <1>3. Ephemeral' <=> Ephemeral
    BY <1>1 DEF Ephemeral
  <1>4. ASSUME NEW b \in Started'
        PROVE  /\ b \in Started /\ (Opened(b)' <=> Opened(b))
               /\ Working(b)' <=> Working(b)
               /\ Acted(b)' <=> Acted(b)
    BY <1>1, <1>4, OtherRuns DEF Started
  <1>5. ASSUME Ephemeral, NEW b \in Started'
        PROVE  RaceOf(b)'
    <2>1. runs[b].intent \in IntentIds /\ runs[b].intent # i
      BY <1>4, <1>5, RunOf DEF Create, Laws, Run
    <2>2. RaceOf(b) /\ Record(b)' = Record(b) /\ StateOf(b)' = StateOf(b)
      BY <1>1, <1>2, <1>4, <1>5, <2>1 DEF RaceLaw, Record, StateOf
    <2>3. ASSUME Opened(b)', NEW c \in Started', Opened(c)', (runs[c].intent = runs[b].intent)'
          PROVE  b = c
      BY <1>1, <1>4, <2>2, <2>3 DEF RaceOf
    <2> QED
      BY <1>4, <1>5, <2>2, <2>3 DEF RaceOf, Underway, Truthful
  <1> QED
    BY <1>3, <1>5 DEF RaceLaw

(* The in-memory store does not survive the process, nor do the runs.      *)
LEMMA RestartRace ==
  ASSUME Laws, RaceLaw, IntentRestart
  PROVE  RaceLaw'
  <1>1. profile' = profile /\ (Ephemeral => \A j \in IntentIds : intents'[j] = None)
    BY DEF IntentRestart
  <1>2. ASSUME NEW b \in Started'
        PROVE  /\ b \in Started /\ runs'[b].intent = runs[b].intent
               /\ runs[b].intent \in IntentIds
               /\ Opened(b)' => Opened(b)
    <2>1. b \in Started
      BY <1>2 DEF IntentRestart, Started
    <2>2. /\ runs'[b].intent = runs[b].intent /\ runs'[b].acted = runs[b].acted
          /\ runs'[b].pc \in RunEnded
      BY <2>1, RestartRun
    <2>3. Acted(b)' => Acted(b)
      <3>1. CASE b \in Made
        BY <2>2, <3>1, RestartAttempt DEF Acted, Made
      <3>2. CASE b \notin Made
        BY <2>2, <3>2 DEF Acted, Made, IntentRestart, BrokerRestart, Pending
      <3> QED
        BY <3>1, <3>2
    <2>4. runs[b].intent \in IntentIds
      BY <2>1, RunOf DEF Laws, Run
    <2> QED
      BY <2>1, <2>2, <2>3, <2>4 DEF Opened, RunEnded
  <1>3. ASSUME Ephemeral, NEW b \in Started'
        PROVE  RaceOf(b)'
    <2>1. Record(b)' = None
      BY <1>1, <1>2, <1>3 DEF Record
    <2>2. ASSUME Opened(b)', NEW c \in Started', Opened(c)', (runs[c].intent = runs[b].intent)'
          PROVE  b = c
      BY <1>2, <1>3, <2>2 DEF RaceLaw, RaceOf
    <2> QED
      BY <2>1, <2>2 DEF RaceOf
  <1> QED
    BY <1>1, <1>3 DEF RaceLaw, Ephemeral

LEMMA RaceStep ==
  ASSUME Laws, RaceLaw, [IntentNext]_intentVars
  PROVE  RaceLaw'
  <1>1. ASSUME NEW a \in ActionIds, CallerStep(a)
        PROVE  RaceLaw'
    <2>1. CASE WriteRecord(a)
      <3>1. ~Ephemeral
        BY <2>1, Writing DEF Written
      <3> QED
        BY <2>1, <3>1 DEF WriteRecord, RaceLaw, Ephemeral
    <2> QED
      BY <1>1, <2>1, QuietSteps, QuietRace, AdvanceRace
  <1>2. CASE IntentEnvironment \/ UNCHANGED intentVars
    BY <1>2, StillRace DEF IntentEnvironment, intentVars, brokerVars
  <1> QED
    BY <1>1, <1>2, IntentSteps, CreateRace, RestartRace

LEMMA RaceHolds == IntentSpec => []RaceLaw
  <1>1. IntentInit => RaceLaw
    BY DEF IntentInit, RaceLaw, Started
  <1> QED
    BY <1>1, RaceStep, LawsHold, PTL DEF IntentSpec

(* In the in-memory store, of all the runs that race to execute, submit,   *)
(* cancel or expire an intent, one at most reaches the provider or the     *)
(* resource.                                                               *)
THEOREM ExecutesOnceInMemory == IntentSpec => []EphemeralExecutesOnce
  <1>1. RaceLaw => EphemeralExecutesOnce
    BY DEF RaceLaw, RaceOf, Opened, EphemeralExecutesOnce, RunsOf
  <1> QED
    BY <1>1, RaceHolds, PTL

(* In the in-memory store, no run of an intent that is recorded as denied, *)
(* refused or cancelled has reached the provider or the resource.          *)
THEOREM RefusalsTrue == IntentSpec => []RefusalIsTrue
  <1>1. RaceLaw => RefusalIsTrue
    BY DEF RaceLaw, RaceOf, RefusalIsTrue, RunsOf, Truthful, Underway, Record, StateOf
  <1> QED
    BY <1>1, RaceHolds, PTL

(* Success.  What backs a recorded success is never taken away.            *)
Backed(i) ==
    \E a \in RunsOf(i) : runs[a].acted \/ (a \in Held /\ rateEvents[a].committed)

LEMMA RunStays ==
  ASSUME Laws, [IntentNext]_intentVars, NEW a \in Started
  PROVE  /\ a \in Started' /\ runs'[a].intent = runs[a].intent
         /\ runs[a].acted => runs'[a].acted
  <1>1. a \in ActionIds /\ runs[a] # None
    BY DEF Started
  <1>2. ASSUME NEW b \in ActionIds, CallerStep(b)
        PROVE  /\ runs'[a] # None /\ runs'[a].intent = runs[a].intent
               /\ runs[a].acted => runs'[a].acted
    <2>1. RunSide(b)
      BY <1>2, CallerSides
    <2>2. CASE a = b
      BY <1>2, <2>1, <2>2, QuietSteps, Writing DEF RunSide, Quiet
    <2>3. CASE a # b
      BY <1>1, <2>1, <2>3 DEF RunSide
    <2> QED
      BY <2>2, <2>3
  <1>3. CASE IntentRestart
    BY <1>1, <1>3, RestartRun DEF Started
  <1>4. CASE runs' = runs
    BY <1>1, <1>4 DEF Started
  <1>5. IntentEnvironment \/ (\E i \in IntentIds : Create(i)) \/ UNCHANGED intentVars
          => runs' = runs
    BY DEF IntentEnvironment, Create, intentVars
  <1> QED
    BY <1>1, <1>2, <1>3, <1>4, <1>5, IntentSteps DEF Started

LEMMA BackedStays ==
  ASSUME Laws, [IntentNext]_intentVars, NEW i, Backed(i)
  PROVE  Backed(i)'
  <1>1. PICK a \in RunsOf(i) : runs[a].acted \/ (a \in Held /\ rateEvents[a].committed)
    BY DEF Backed
  <1>2. a \in RunsOf(i)' /\ (runs[a].acted => runs'[a].acted)
    BY RunStays DEF RunsOf
  <1>3. a \in Held /\ rateEvents[a].committed => a \in Held' /\ rateEvents'[a].committed
    BY LawsStep, PaidStays DEF Laws, IntentTypeOK, BrokerTypeOK
  <1> QED
    BY <1>1, <1>2, <1>3 DEF Backed

LEMMA OpeningItems ==
  ASSUME NEW plan \in Opening \cup {"cancelled", "expired"}, NEW n \in 1..Len(Plans[plan])
  PROVE  Plans[plan][n] # "succeeded"
  <1>1. CASE plan = "deny"
    BY <1>1, PlanTable
  <1>2. CASE plan = "allow"
    BY <1>2, PlanTable
  <1>3. CASE plan = "approve"
    BY <1>3, PlanTable
  <1>4. CASE plan = "submit"
    BY <1>4, PlanTable
  <1>5. CASE plan = "cancelled"
    BY <1>5, PlanTable
  <1>6. CASE plan = "expired"
    BY <1>6, PlanTable
  <1> QED
    BY <1>1, <1>2, <1>3, <1>4, <1>5, <1>6 DEF Opening

LEMMA SuccessWritten ==
  ASSUME Laws, NEW a \in Started, Walking(a), ~Finished(a), Item(a) = "succeeded"
  PROVE  Backed(runs[a].intent)
  <1>1. /\ RunLaw(a) /\ a \in ActionIds /\ AttemptLaw(a)
        /\ runs[a].step \in 1..Len(Plans[runs[a].plan])
    BY RunOf, LawsOf, ItemOf DEF Laws
  <1>2. runs[a].pc = "finish"
    BY <1>1, ItemPlaces, OpeningItems DEF Walking, Item
  <1>3. runs[a].plan = "succeeded"
    BY <1>2, ItemPlaces
  <1>4. runs[a].acted \/ Reached(a, "succeeded")
    BY <1>1, <1>2, <1>3 DEF RunLaw
  <1> QED
    BY <1>1, <1>4 DEF Reached, AttemptLaw, Backed, RunsOf

(* A step that writes nothing keeps what it had read, or reads the store.  *)
LEMMA ReadStep ==
  ASSUME Laws, NEW a \in ActionIds, CallerStep(a), a \in Started', runs'[a].read # None
  PROVE  /\ a \in Started
         /\ runs'[a].read = runs[a].read \/ (ReadRecord(a) /\ runs'[a].read = Record(a))
  <1>1. IntentTypeOK
    BY DEF Laws
  <1>2. CASE AttemptStep(a) \/ NeedApproval(a)
    BY <1>2 DEF AttemptStep, NeedApproval, Started
  <1>3. CASE Begins(a) \/ Opens(a)
    <2>1. CASE \E g \in Tokens, cost \in Charges : CallAdapterTool(a, g, cost)
      BY <2>1 DEF CallAdapterTool, Started
    <2>2. CASE \E i \in IntentIds, pc \in {"decide", "advance"},
                  plan \in {"deny", "submit", "cancelled", "expired"} : StartRun(a, i, pc, plan)
      <3>1. {"deny", "submit", "cancelled", "expired"} \subseteq DOMAIN Plans
        BY PlanTable
      <3> QED
        BY <1>1, <2>2, <3>1, Starting DEF RunPlaces
    <2> QED
      BY <1>3, <2>1, <2>2, IntentAssumption DEF Begins, Opens, Execute, Submit, SetByHand
  <1>4. ASSUME NEW pc \in RunPlaces, RunGoto(a, pc), a \in Started
        PROVE  FALSE
    BY <1>1, <1>4, GoingTo
  <1>5. ASSUME NEW pc \in RunPlaces, NEW plan \in DOMAIN Plans, Follow(a, pc, plan),
               a \in Started
        PROVE  runs'[a].read = runs[a].read
    BY <1>1, <1>5, Following
  <1>6. CASE Advance(a) \/ WriteRecord(a)
    BY <1>6, Writing
  <1>7. CASE ReadRecord(a)
    BY <1>1, <1>7 DEF ReadRecord, Walking, Started, IntentTypeOK, Run
  <1>8. CASE Post(a)
    <2>1. a \in Started /\ runs[a] \in Run
      BY <1>1, <1>8, RunOf DEF Post, RunAt
    <2> DEFINE u == Unplanned(runs[a], "posted")
    <2>2. u \in Run /\ u.read = None
      BY <2>1, UnplannedType DEF RunPlaces
    <2>3. \E acted \in BOOLEAN : runs' = [runs EXCEPT ![a] = [u EXCEPT !.acted = acted]]
      BY <1>8 DEF Post
    <2> HIDE DEF u
    <2> QED
      BY <1>1, <2>1, <2>2, <2>3 DEF IntentTypeOK, Started, Run
  <1>9. CASE TransitionRefused(a) \/ ReportCrash(a) \/ PostRaises(a) \/ RunDone(a)
             \/ Dispatch(a)
    <2>1. a \in Started
      BY <1>9, ErrorSteps, DispatchStep
    <2>2. \E pc \in RunPlaces : RunGoto(a, pc)
      BY <1>9 DEF TransitionRefused, ReportCrash, PostRaises, RunDone, Dispatch, RunPlaces, RunEnded
    <2> QED
      BY <1>4, <2>1, <2>2
  <1>10. CASE RecordDenial(a) \/ Manage(a) \/ Report(a) \/ PostAnswered(a)
    <2>1. a \in Started
      BY <1>10 DEF RecordDenial, Manage, Report, PostAnswered, RunAt
    <2>2. {"deny", "allow", "approve", "accepted"} \cup Results \subseteq DOMAIN Plans
      BY PlanTable DEF Results
    <2>3. \A answer : SubmissionOutcome(answer) \in {"accepted"} \cup Results
      BY DEF SubmissionOutcome, Results
    <2>4. \/ \E plan \in DOMAIN Plans, pc \in RunPlaces : Follow(a, pc, plan)
          \/ RunGoto(a, "error")
      <3> HIDE DEF SubmissionOutcome
      <3>1. CASE RecordDenial(a) \/ Manage(a)
        BY <2>2, <3>1 DEF RecordDenial, Manage, RunPlaces
      <3>2. CASE Report(a)
        BY <2>2, <3>2 DEF Report, RunPlaces
      <3>3. CASE PostAnswered(a)
        BY <2>2, <2>3, <3>3 DEF PostAnswered, RunPlaces
      <3> QED
        BY <1>10, <3>1, <3>2, <3>3
    <2> QED
      BY <1>4, <1>5, <2>1, <2>4 DEF RunPlaces, RunEnded
  <1> QED
    BY <1>2, <1>3, <1>6, <1>7, <1>8, <1>9, <1>10 DEF CallerStep, RunStep

(* Besides the records in the store, those that a run has read and will    *)
(* write back.                                                             *)
BackedLaw ==
    /\ SuccessIsBacked
    /\ \A a \in Started :
          runs[a].read # None /\ runs[a].read.state = "succeeded" => Backed(runs[a].intent)

LEMMA BackedIntent ==
  SuccessIsBacked <=>
     \A i \in IntentIds :
        intents[i] # None /\ intents[i].state = "succeeded" => Backed(i)
  BY DEF SuccessIsBacked, Backed

LEMMA BackedCaller ==
  ASSUME Laws, BackedLaw, IntentNext, NEW a \in ActionIds, CallerStep(a)
  PROVE  BackedLaw'
  <1>1. RunSide(a)
    BY CallerSides
  <1>2. ASSUME NEW i \in IntentIds, intents'[i] # None, intents'[i].state = "succeeded"
        PROVE  Backed(i)
    <2>1. CASE Advance(a) \/ WriteRecord(a)
      <3>1. PICK record : Written(a, record)
        BY <2>1, Writing
      <3>2. a \in Started /\ Walking(a) /\ ~Finished(a) /\ runs[a] \in Run /\ IntentTypeOK
        BY <2>1, Writing, RunOf DEF Laws
      <3>3. /\ runs[a].intent \in IntentIds /\ record \in Intent
            /\ intents' = [intents EXCEPT ![runs[a].intent] = Updated(record, Item(a))]
            /\ Item(a) \in Lifecycle \cup {"link"}
        BY <3>1, <3>2, ItemOf DEF Written, Run
      <3>4. CASE i # runs[a].intent
        BY <1>2, <3>2, <3>3, <3>4, BackedIntent DEF BackedLaw, IntentTypeOK
      <3>5. CASE i = runs[a].intent
        <4>1. (IF Item(a) = "link" THEN record.state ELSE Item(a)) = "succeeded"
          BY <1>2, <3>2, <3>3, <3>5, UpdatedType DEF IntentTypeOK
        <4>2. CASE Item(a) = "succeeded"
          BY <3>2, <3>5, <4>2, SuccessWritten
        <4>3. CASE record.state = "succeeded" /\ Advance(a)
          <5>1. intents[i] # None /\ intents[i].state = "succeeded"
            BY <3>1, <3>5, <4>3, IntentAssumption DEF Written, Record
          <5> QED
            BY <5>1, BackedIntent DEF BackedLaw
        <4>4. CASE record.state = "succeeded" /\ WriteRecord(a)
          BY <3>1, <3>2, <3>5, <4>4 DEF Written, WriteRecord, BackedLaw
        <4> QED
          BY <2>1, <4>1, <4>2, <4>3, <4>4
      <3> QED
        BY <3>4, <3>5
    <2>2. CASE ~Advance(a) /\ ~WriteRecord(a)
      BY <1>2, <2>2, QuietSteps, BackedIntent DEF Quiet, BackedLaw
    <2> QED
      BY <2>1, <2>2
  <1>3. ASSUME NEW b \in Started', runs'[b].read # None, runs'[b].read.state = "succeeded"
        PROVE  b \in Started /\ Backed(runs[b].intent)
    <2>1. CASE b # a
      BY <1>1, <1>3, <2>1 DEF RunSide, Started, BackedLaw
    <2>2. CASE b = a
      <3>1. /\ a \in Started
            /\ runs'[a].read = runs[a].read \/ (ReadRecord(a) /\ runs'[a].read = Record(a))
        BY <1>3, <2>2, ReadStep
      <3>2. CASE runs'[a].read = runs[a].read
        BY <1>3, <2>2, <3>1, <3>2 DEF BackedLaw
      <3>3. CASE runs'[a].read = Record(a)
        <4>1. runs[a].intent \in IntentIds
          BY <3>1, RunOf DEF Laws, Run
        <4> QED
          BY <1>3, <2>2, <3>1, <3>3, <4>1, BackedIntent DEF BackedLaw, Record
      <3> QED
        BY <3>1, <3>2, <3>3
    <2> QED
      BY <2>1, <2>2
  <1>4. \A i : Backed(i) => Backed(i)'
    BY BackedStays
  <1>5. SuccessIsBacked'
    <2>1. \A i \in IntentIds :
             intents'[i] # None /\ intents'[i].state = "succeeded" => Backed(i)'
      BY <1>2, <1>4
    <2> QED
      BY <2>1 DEF SuccessIsBacked, Backed
  <1>6. ASSUME NEW b \in Started', runs'[b].read # None, runs'[b].read.state = "succeeded"
        PROVE  (Backed(runs[b].intent))'
    <2>1. b \in Started /\ Backed(runs[b].intent) /\ runs'[b].intent = runs[b].intent
      BY <1>3, <1>6, RunStays
    <2>2. PICK i : i = runs[b].intent
      OBVIOUS
    <2>3. Backed(i)'
      BY <1>4, <2>1, <2>2
    <2> QED
      BY <2>1, <2>2, <2>3 DEF Backed, RunsOf
  <1> QED
    BY <1>5, <1>6 DEF BackedLaw

LEMMA BackedStep ==
  ASSUME Laws, BackedLaw, [IntentNext]_intentVars
  PROVE  BackedLaw'
  <1>1. ASSUME NEW a \in ActionIds, CallerStep(a), IntentNext
        PROVE  BackedLaw'
    BY <1>1, BackedCaller
  <1>2. ASSUME \A i \in IntentIds :
                  intents'[i] # None /\ intents'[i].state = "succeeded" =>
                     intents[i] # None /\ intents[i].state = "succeeded",
               \A b \in ActionIds : runs'[b] # None =>
                  runs[b] # None /\ (runs'[b].read = None \/ runs'[b] = runs[b])
        PROVE  BackedLaw'
    <2>1. \A i : Backed(i) => Backed(i)'
      BY BackedStays
    <2>2. \A i \in IntentIds :
             intents'[i] # None /\ intents'[i].state = "succeeded" => Backed(i)'
      BY <1>2, <2>1, BackedIntent DEF BackedLaw
    <2>3. SuccessIsBacked'
      BY <2>2 DEF SuccessIsBacked, Backed
    <2>4. ASSUME NEW b \in Started', runs'[b].read # None, runs'[b].read.state = "succeeded"
          PROVE  (Backed(runs[b].intent))'
      <3>1. b \in Started /\ runs'[b] = runs[b]
        BY <1>2, <2>4 DEF Started
      <3>2. PICK i : i = runs[b].intent
        OBVIOUS
      <3>3. Backed(i)'
        BY <2>1, <2>4, <3>1, <3>2 DEF BackedLaw
      <3> QED
        BY <3>1, <3>2, <3>3 DEF Backed, RunsOf
    <2> QED
      BY <2>3, <2>4 DEF BackedLaw
  <1>3. CASE IntentEnvironment \/ UNCHANGED intentVars
    <2>1. intents' = intents /\ runs' = runs
      BY <1>3 DEF IntentEnvironment, intentVars
    <2> QED
      BY <1>2, <2>1
  <1>4. CASE IntentRestart
    <2>1. \A i \in IntentIds : intents'[i] = None \/ intents'[i] = intents[i]
      BY <1>4 DEF IntentRestart
    <2>2. \A b \in ActionIds : runs'[b] # None => b \in Started /\ runs'[b].read = None
      BY <1>4, RestartRun DEF IntentRestart, Started
    <2> QED
      BY <1>2, <2>1, <2>2 DEF Started
  <1>5. ASSUME NEW i \in IntentIds, Create(i)
        PROVE  BackedLaw'
    <2>1. runs' = runs
      BY <1>5 DEF Create
    <2>2. \A j \in IntentIds : j # i => intents'[j] = intents[j]
      BY <1>5 DEF Create, Laws, IntentTypeOK
    <2>3. intents'[i].state = "created"
      BY <1>5 DEF Create, Laws, IntentTypeOK
    <2> QED
      BY <1>2, <2>1, <2>2, <2>3
  <1> QED
    BY <1>1, <1>3, <1>4, <1>5, IntentSteps

(* A recorded success has evidence, in either store: a run of the intent   *)
(* whose cost was committed, or one whose resource has acted.              *)
THEOREM SuccessesBacked == IntentSpec => []SuccessIsBacked
  <1>1. IntentInit => BackedLaw
    BY DEF IntentInit, BackedLaw, SuccessIsBacked, Started
  <1>2. BackedLaw => SuccessIsBacked
    BY DEF BackedLaw
  <1> QED
    BY <1>1, <1>2, BackedStep, LawsHold, PTL DEF IntentSpec
=============================================================================
