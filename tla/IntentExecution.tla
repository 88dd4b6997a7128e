--------------------------- MODULE IntentExecution ---------------------------
(***************************************************************************)
(* Authorised execution intents: the lifecycle and the two stores of       *)
(* intent.py, IntentManager, and what the gateway does with an intent      *)
(* (execute_intent and submit_intent_to_resource, gateway.py), together    *)
(* with the submission client of execution_modes.py.  Calls of an adapter  *)
(* tool without an intent share the broker and the authority store.        *)
(*                                                                         *)
(* A run is one call that works on an intent.  It makes the transitions of *)
(* a plan, one at a time.  In the in-memory store a transition is one step *)
(* under the store's lock; in the SQLite store it is a read, and later a   *)
(* write of the whole record.                                              *)
(***************************************************************************)
EXTENDS CredentialBroker, Sequences

CONSTANTS
    IntentIds,   \* ids that create draws
    HandStates   \* the states a developer sets through IntentManager.transition

VARIABLES
    profile,     \* DurabilityProfile of the store the deployment injected
    intents,     \* the intent store: record, or None
    runs         \* the run that owns each action id, or None

intentVars == <<brokerVars, profile, intents, runs>>

Lifecycle ==
    {"created", "evaluating", "requires_approval", "authorised", "denied", "proof_issued",
     "executing", "submitted", "succeeded", "failed", "refused", "outcome_unknown",
     "cancelled", "expired"}

Transitions ==
    [created |-> {"evaluating", "cancelled", "expired"},
     evaluating |-> {"requires_approval", "authorised", "denied", "expired"},
     requires_approval |-> {"authorised", "denied", "cancelled", "expired"},
     authorised |-> {"proof_issued", "expired", "cancelled"},
     proof_issued |-> {"executing", "submitted", "expired", "cancelled"},
     executing |-> Results \cup {"expired"},
     submitted |-> Results \cup {"expired"},
     outcome_unknown |-> {"succeeded", "failed", "outcome_unknown"},
     succeeded |-> {}, failed |-> {}, refused |-> {},
     denied |-> {}, cancelled |-> {}, expired |-> {}]

(* What the runs write, in order; "link" stands for the link_ operations,  *)
(* which rewrite the record without a change of state.                     *)
Plans ==
    [deny |-> <<"evaluating", "denied">>,
     allow |-> <<"evaluating", "authorised", "link", "proof_issued", "executing">>,
     approve |-> <<"evaluating", "requires_approval", "authorised", "link", "proof_issued",
                   "executing">>,
     submit |-> <<"evaluating", "authorised", "link", "proof_issued", "submitted">>,
     accepted |-> <<"link">>,
     succeeded |-> <<"link", "succeeded">>,
     failed |-> <<"link", "failed">>,
     refused |-> <<"link", "refused">>,
     outcome_unknown |-> <<"link", "outcome_unknown">>,
     cancelled |-> <<"cancelled">>,
     expired |-> <<"expired">>]

Modes == {"brokered", "resource_owned"}
Profiles == {"ephemeral_local", "durable_local"}
Intent == [mode : Modes, state : Lifecycle]

RunEnded == {"done", "error", "lost"}
Run ==
    [intent : IntentIds,
     pc : {"decide", "advance", "dispatch", "posted", "finish"} \cup RunEnded,
     plan : DOMAIN Plans,
     step : 1..7,                     \* the next item of the plan
     read : Intent \cup {None},       \* SQLite: the record as it was read
     acted : BOOLEAN]                 \* history: the resource has acted

ASSUME IntentAssumption ==
    /\ None \notin Intent \cup Run \cup IntentIds
    /\ HandStates \subseteq {"cancelled", "expired"}

IntentTypeOK ==
    /\ BrokerTypeOK
    /\ profile \in Profiles
    /\ intents \in [IntentIds -> Intent \cup {None}]
    /\ runs \in [ActionIds -> Run \cup {None}]

IntentInit ==
    /\ BrokerInit
    /\ profile \in Profiles
    /\ intents = [i \in IntentIds |-> None]
    /\ runs = [a \in ActionIds |-> None]

-----------------------------------------------------------------------------
Started == {a \in ActionIds : runs[a] # None}
RunAt(a, pc) == a \in Started /\ runs[a].pc = pc
Ephemeral == profile = "ephemeral_local"

StartRun(a, i, pc, plan) ==
    /\ runs[a] = None
    /\ attempts[a] = None
    /\ runs' = [runs EXCEPT ![a] =
          [intent |-> i, pc |-> pc, plan |-> plan, step |-> 1, read |-> None, acted |-> FALSE]]

Follow(a, pc, plan) ==
    runs' = [runs EXCEPT ![a] = [@ EXCEPT !.pc = pc, !.plan = plan, !.step = 1]]

(* A run that is no longer walking its plan forgets it.                    *)
Unplanned(r, pc) == [r EXCEPT !.pc = pc, !.plan = "deny", !.step = 1, !.read = None]

RunGoto(a, pc) == runs' = [runs EXCEPT ![a] = Unplanned(@, pc)]

(* Ids are random, so an id is never drawn again.                          *)
Create(i) ==
    /\ intents[i] = None
    /\ \A a \in Started : runs[a].intent # i
    /\ \E mode \in Modes :
          intents' = [intents EXCEPT ![i] = [mode |-> mode, state |-> "created"]]
    /\ UNCHANGED <<brokerVars, profile, runs>>

-----------------------------------------------------------------------------
(* The plan of a run. *)

Walking(a) == a \in Started /\ runs[a].pc \in {"advance", "finish"}
Finished(a) == Walking(a) /\ runs[a].step > Len(Plans[runs[a].plan])
Item(a) == Plans[runs[a].plan][runs[a].step]
Record(a) == intents[runs[a].intent]

Unchecked(record, item) == TRUE   \* variant: transitions are not validated

Legal(record, item) == item = "link" \/ item \in Transitions[record.state]

Overwritten(record, item) == [record EXCEPT !.state = item]   \* variant: links do too

Updated(record, item) == IF item = "link" THEN record ELSE [record EXCEPT !.state = item]

(* EphemeralIntentStore.update_state; the link operations change the live  *)
(* object.                                                                 *)
Advance(a) ==
    /\ Walking(a)
    /\ ~Finished(a)
    /\ Ephemeral
    /\ Legal(Record(a), Item(a))
    /\ intents' = [intents EXCEPT ![runs[a].intent] = Updated(@, Item(a))]
    /\ runs' = [runs EXCEPT ![a].step = @ + 1]
    /\ UNCHANGED <<brokerVars, profile>>

(* SQLiteIntentStore.update_state: get and validate, then put.             *)
ReadRecord(a) ==
    /\ Walking(a)
    /\ ~Finished(a)
    /\ ~Ephemeral
    /\ runs[a].read = None
    /\ Legal(Record(a), Item(a))
    /\ runs' = [runs EXCEPT ![a].read = Record(a)]
    /\ UNCHANGED <<brokerVars, profile, intents>>

WriteRecord(a) ==
    /\ Walking(a)
    /\ runs[a].read # None
    /\ intents' = [intents EXCEPT ![runs[a].intent] = Updated(runs[a].read, Item(a))]
    /\ runs' = [runs EXCEPT ![a] = [@ EXCEPT !.step = runs[a].step + 1, !.read = None]]
    /\ UNCHANGED <<brokerVars, profile>>

(* The attempt of a run that raised is over, with whatever it holds.       *)
Abandon(a) ==
    attempts' = [attempts EXCEPT ![a] =
        IF @ # None /\ Pending(a) THEN Shifted(@, "crashed") ELSE @]

(* IntentTransitionError.  Inside the manager it becomes the answer        *)
(* intent:execution_error; while a denial is recorded it reaches the       *)
(* caller.  Either way the run is over.                                    *)
TransitionRefused(a) ==
    /\ Walking(a)
    /\ ~Finished(a)
    /\ runs[a].read = None
    /\ ~Legal(Record(a), Item(a))
    /\ RunGoto(a, "error")
    /\ Abandon(a)
    /\ UNCHANGED <<storeVars, credVars, profile, intents>>

-----------------------------------------------------------------------------
(* execute_intent. *)

(* An intent that is past CREATED is refused before anything is reserved.  *)
Execute(a, i, g, cost) ==
    /\ intents[i] # None
    /\ intents[i].state = "created"
    /\ StartRun(a, i, "decide", "deny")
    /\ BeginAttempt(a, g, cost)
    /\ UNCHANGED <<storeVars, credVars, profile, intents>>

(* REQUIRE_APPROVAL gives the hold back, and goes on to the manager.       *)
NeedApproval(a) ==
    /\ RunAt(a, "decide")
    /\ Reached(a, "edge")
    /\ \/ /\ Release(attempts[a].grant, a, attempts[a].cost)
          /\ attempts' = [attempts EXCEPT ![a] = [@ EXCEPT !.pc = "cleared", !.allowed = FALSE]]
       \/ /\ attempts' = [attempts EXCEPT ![a] =
                [@ EXCEPT !.pc = "cleared", !.allowed = FALSE, !.fault = TRUE]]
          /\ UNCHANGED storeVars
    /\ UNCHANGED <<credVars, profile, intents, runs>>

RecordDenial(a) ==
    /\ RunAt(a, "decide")
    /\ Reached(a, "denied")
    /\ Follow(a, "advance", "deny")
    /\ UNCHANGED <<brokerVars, profile, intents>>

(* IntentManager.execute.  The mode is that of the record; execute_intent  *)
(* has no resource client, so a resource-owned intent raises ValueError    *)
(* here, after the reservation, and stays CREATED.                         *)
Manage(a) ==
    /\ RunAt(a, "decide")
    /\ Reached(a, "cleared")
    /\ \/ /\ Record(a).mode = "brokered"
          /\ Follow(a, "advance", IF attempts[a].allowed THEN "allow" ELSE "approve")
          /\ UNCHANGED attempts
       \/ /\ Record(a).mode = "resource_owned"
          /\ RunGoto(a, "error")
          /\ Abandon(a)
    /\ UNCHANGED <<storeVars, credVars, profile, intents>>

Dispatch(a) ==
    /\ RunAt(a, "advance")
    /\ Finished(a)
    /\ runs[a].plan \in {"allow", "approve"}
    /\ RunGoto(a, "dispatch")
    /\ Coordinate(a)
    /\ UNCHANGED <<profile, intents>>

(* The coordinator has answered: link the attempt and record the result.   *)
Report(a) ==
    /\ RunAt(a, "dispatch")
    /\ a \in Made
    /\ attempts[a].pc \in Results
    /\ Follow(a, "finish", attempts[a].pc)
    /\ UNCHANGED <<brokerVars, profile, intents>>

(* The coordinator raised: outcome unknown, the intent stays EXECUTING.    *)
ReportCrash(a) ==
    /\ RunAt(a, "dispatch")
    /\ Reached(a, "crashed")
    /\ RunGoto(a, "error")
    /\ UNCHANGED <<brokerVars, profile, intents>>

-----------------------------------------------------------------------------
(* submit_intent_to_resource.  There is no check of CREATED and no budget; *)
(* the resource verifies the proof on its own.                             *)

Submit(a, i) ==
    /\ intents[i] # None
    /\ intents[i].mode = "resource_owned"
    /\ StartRun(a, i, "advance", "submit")
    /\ UNCHANGED <<brokerVars, profile, intents>>

Post(a) ==
    /\ RunAt(a, "advance")
    /\ Finished(a)
    /\ runs[a].plan = "submit"
    /\ \E acted \in BOOLEAN :
          runs' = [runs EXCEPT ![a] = [Unplanned(@, "posted") EXCEPT !.acted = acted]]
    /\ UNCHANGED <<brokerVars, profile, intents>>

(* What comes back: a 4xx or "refused" only from a resource that has not   *)
(* acted, a receipt that verifies only from one that has; anything else,   *)
(* and every lost or unreadable answer, from either.                       *)
Answers(acted) ==
    {"accepted", "5xx", "timeout", "unreadable", "forged receipt"}
        \cup (IF acted THEN {"receipt"} ELSE {"4xx", "refused"})

UnverifiedOutcome(answer) ==   \* variant: a claimed success needs no receipt
    CASE answer = "accepted" -> "accepted"
      [] answer \in {"4xx", "refused"} -> "refused"
      [] answer \in {"receipt", "forged receipt"} -> "succeeded"
      [] OTHER -> "outcome_unknown"

OptimisticOutcome(answer) ==   \* variant: no answer counts as a refusal
    CASE answer = "accepted" -> "accepted"
      [] answer = "receipt" -> "succeeded"
      [] OTHER -> "refused"

SubmissionOutcome(answer) ==
    CASE answer = "accepted" -> "accepted"
      [] answer \in {"4xx", "refused"} -> "refused"
      [] answer = "receipt" -> "succeeded"
      [] OTHER -> "outcome_unknown"

PostAnswered(a) ==
    /\ RunAt(a, "posted")
    /\ \E answer \in Answers(runs[a].acted) : Follow(a, "finish", SubmissionOutcome(answer))
    /\ UNCHANGED <<brokerVars, profile, intents>>

(* A 2xx body of the wrong shape raises: intent:submission_error.          *)
PostRaises(a) ==
    /\ RunAt(a, "posted")
    /\ RunGoto(a, "error")
    /\ UNCHANGED <<brokerVars, profile, intents>>

-----------------------------------------------------------------------------
(* IntentManager.transition, called by a developer. *)
SetByHand(a, i, state) ==
    /\ intents[i] # None
    /\ StartRun(a, i, "advance", state)
    /\ UNCHANGED <<brokerVars, profile, intents>>

RunDone(a) ==
    /\ Finished(a)
    /\ runs[a].pc = "finish" \/ runs[a].plan \in {"deny", "cancelled", "expired"}
    /\ RunGoto(a, "done")
    /\ UNCHANGED <<brokerVars, profile, intents>>

(* An attempt that belongs to a run waits for it while it is not in the    *)
(* hands of the decision or of the coordinator.                            *)
AttemptStep(a) ==
    \/ /\ a \in Started => runs[a].pc \in {"decide", "dispatch"}
       /\ BrokerStep(a)
       /\ UNCHANGED <<profile, intents, runs>>
    \/ /\ a \notin Started
       /\ Coordinate(a)
       /\ UNCHANGED <<profile, intents, runs>>

RunStep(a) ==
    \/ Advance(a) \/ ReadRecord(a) \/ WriteRecord(a) \/ TransitionRefused(a)
    \/ NeedApproval(a) \/ RecordDenial(a) \/ Manage(a)
    \/ Dispatch(a) \/ Report(a) \/ ReportCrash(a)
    \/ Post(a) \/ PostAnswered(a) \/ PostRaises(a)
    \/ RunDone(a)

(* call_tool with an adapter tool. *)
CallAdapterTool(a, g, cost) ==
    /\ runs[a] = None
    /\ BeginAttempt(a, g, cost)
    /\ UNCHANGED <<storeVars, credVars, profile, intents, runs>>

(* The process dies.  Only the SQLite store survives it.                   *)
IntentRestart ==
    /\ BrokerRestart
    /\ intents' = IF Ephemeral THEN [i \in IntentIds |-> None] ELSE intents
    /\ runs' = [a \in ActionIds |->
          IF a \in Started /\ runs[a].pc \notin RunEnded
          THEN Unplanned(runs[a], "lost") ELSE runs[a]]
    /\ UNCHANGED profile

IntentEnvironment ==
    /\ Tick \/ \E g \in GrantIds : PutGrant(g) \/ Revoke(g)
    /\ UNCHANGED <<attempts, credVars, profile, intents, runs>>

IntentNext ==
    \/ IntentEnvironment
    \/ IntentRestart
    \/ \E i \in IntentIds : Create(i)
    \/ \E a \in ActionIds, g \in Tokens, cost \in Charges :
          \/ CallAdapterTool(a, g, cost)
          \/ \E i \in IntentIds : Execute(a, i, g, cost)
    \/ \E a \in ActionIds, i \in IntentIds :
          Submit(a, i) \/ \E state \in HandStates : SetByHand(a, i, state)
    \/ \E a \in ActionIds : AttemptStep(a) \/ RunStep(a)

IntentSpec == IntentInit /\ [][IntentNext]_intentVars

-----------------------------------------------------------------------------
(* Properties. *)

RunsOf(i) == {a \in Started : runs[a].intent = i}

(* A provider or a resource acted on behalf of a run.                      *)
Acted(a) == runs[a].acted \/ (a \in Made /\ attempts[a].landed)

(* In the in-memory store an intent acts at most once: of all the runs     *)
(* that race to execute, submit, cancel or expire it, one at most reaches  *)
(* the provider or the resource.                                           *)
EphemeralExecutesOnce ==
    Ephemeral =>
        \A i \in IntentIds : \A a, b \in RunsOf(i) : Acted(a) /\ Acted(b) => a = b

(* A recorded refusal is true: no run of a denied, refused or cancelled    *)
(* intent has reached the provider or the resource, whoever cancelled or   *)
(* replayed it at whatever moment.                                         *)
RefusalIsTrue ==
    Ephemeral =>
        \A i \in IntentIds :
            intents[i] # None /\ intents[i].state \in {"denied", "refused", "cancelled"} =>
                \A a \in RunsOf(i) : ~Acted(a)

(* A recorded success has evidence, in either store: a run of the intent   *)
(* whose cost was committed, or one whose resource has acted.              *)
SuccessIsBacked ==
    \A i \in IntentIds :
        intents[i] # None /\ intents[i].state = "succeeded" =>
            \E a \in RunsOf(i) :
                runs[a].acted \/ (a \in Held /\ rateEvents[a].committed)

(* "An intent executes at most once" (gateway.py:376), in any store: the   *)
(* provider acts for one call of execute_intent at most.                   *)
ExecutesAtMostOnce ==
    \A i \in IntentIds : \A a, b \in RunsOf(i) \cap Made :
        attempts[a].landed /\ attempts[b].landed => a = b

(* Intents and the broker use the authority store only through its         *)
(* operations.                                                             *)
IntentsUseStore == Spec
=============================================================================
