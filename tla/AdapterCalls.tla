---------------------------- MODULE AdapterCalls ----------------------------
(***************************************************************************)
(* How an authorised call reaches an external provider.  The OpenAPI       *)
(* adapter (adapters/openapi.py) keeps a journal of the effects it has     *)
(* dispatched, keyed by idempotency key and by the identity of a mutating  *)
(* request; the journal is a SQLite file shared by all processes of a host *)
(* and surviving them, or the memory of one adapter object.  The GitHub    *)
(* adapter keeps only a cache of answers in memory, the Stripe adapter     *)
(* nothing: it hands the key to the provider.                              *)
(*                                                                         *)
(* The provider and the network between are external: a request may arrive *)
(* late, after its caller gave up or died, or never.  Each process holds   *)
(* one adapter object; a process may die at any moment.  (An adapter in    *)
(* test mode makes up its answers and its witnesses, and sends nothing: it *)
(* is not modelled.)                                                       *)
(***************************************************************************)
EXTENDS AdapterSchemas, FiniteSets

CONSTANTS
    Calls,       \* calls of execute(): each happens at most once
    Keys,        \* idempotency keys
    Acts,        \* identities of requests: an action with its parameters
    Processes,
    Adapters,    \* configurations an operator may deploy
    Fields,      \* [Acts -> declared fields of its operation]
    Params       \* [Acts -> its parameters]

VARIABLES
    adapter,     \* the deployed configuration
    rows,        \* the journal: [stores -> [scopes -> row, or None]]
    calls,       \* what each call of execute() is doing
    wire,        \* external: where each call's request is
    applied,     \* external: calls whose effect the provider has put in place
    contacts     \* the targets the OpenAPI adapter gave the credential to

adapterVars == <<adapter, rows, calls, wire, applied, contacts>>

Statuses == {"IN_FLIGHT", "OUTCOME_UNKNOWN", "COMPLETED"}
Results == {"invalid", "conflict", "mismatch", "replayed", "not_sent", "unknown", "done",
            "declined"}
Phases == {"idle", "looked_up", "sending", "redirected", "answered", "ended", "dead"}

Row == [status : Statuses, act : Acts, answer : Calls \cup {None}]
Scopes == ({"idem"} \X Keys) \cup ({"act"} \X Acts)
Stores == {"file"} \cup Processes

Call == [phase : Phases, process : Processes \cup {None}, key : Keys \cup {None},
         act : Acts \cup {None}, result : Results \cup {None}, answer : Calls \cup {None}]

NoCall == [phase |-> "idle", process |-> None, key |-> None, act |-> None,
           result |-> None, answer |-> None]

(* What a witness compares: whether its path holds the id the answer gave, *)
(* the parameters the operator bound it to, and whether it also compares   *)
(* parameters that the resource happens to show.                           *)
WitnessSpec == [byId : BOOLEAN, bound : SUBSET STRING, shared : BOOLEAN]

AdapterConfig ==
    [kind : {"openapi", "github", "stripe"}, production : BOOLEAN, optIn : BOOLEAN,
     durable : BOOLEAN, block : BOOLEAN, redirects : BOOLEAN,
     witness : WitnessSpec \cup {None}]

(* A target is an origin and the kind of address it resolves to.           *)
Targets == [origin : {"pinned", "foreign"}, address : {"public", "internal"}]
Home == [origin |-> "pinned", address |-> "public"]

(* The constructor's guards, repeated by execute().                        *)
Constructible(c) ==
    c.kind = "openapi" /\ c.production => c.optIn /\ c.durable

ASSUME AdapterAssumption ==
    /\ Adapters \subseteq AdapterConfig
    /\ None \notin Calls \cup Keys \cup Acts \cup Processes \cup Results \cup Row
    /\ "file" \notin Processes
    /\ \A c \in Adapters : c.durable => c.kind = "openapi"   \* the only one with a journal path

AdapterTypeOK ==
    /\ adapter \in Adapters
    /\ rows \in [Stores -> [Scopes -> Row \cup {None}]]
    /\ calls \in [Calls -> Call]
    /\ wire \in [Calls -> {"none", "out", "in"}]
    /\ applied \subseteq Calls
    /\ contacts \subseteq Targets

AdapterInit ==
    /\ adapter \in {c \in Adapters : Constructible(c)}
    /\ rows = [s \in Stores |-> [k \in Scopes |-> None]]
    /\ calls = [c \in Calls |-> NoCall]
    /\ wire = [c \in Calls |-> "none"]
    /\ applied = {}
    /\ contacts = {}

-----------------------------------------------------------------------------
(* The journal. *)
OpenAPI == adapter.kind = "openapi"

StoreOf(p) == IF adapter.durable THEN "file" ELSE p

StatusAt(p, scope) ==
    IF rows[StoreOf(p)][scope] = None THEN "free" ELSE rows[StoreOf(p)][scope].status

KeyScopes(key) == IF key = None THEN {} ELSE {<<"idem", key>>}
ActScopes(act) == IF adapter.block THEN {<<"act", act>>} ELSE {}

(* The rows a call owns: its key's, and its identity's when uncertain      *)
(* repeats are blocked (every modelled identity mutates).                  *)
ScopesOf(key, act) == KeyScopes(key) \cup ActScopes(act)

LockedWhileInFlight(p, scopes) ==   \* variant: an unclear outcome locks nothing
    \E scope \in scopes : StatusAt(p, scope) = "IN_FLIGHT"

Locked(p, scopes) ==
    \E scope \in scopes : StatusAt(p, scope) \in {"IN_FLIGHT", "OUTCOME_UNKNOWN"}

Completed(p, key) ==
    /\ key # None
    /\ StatusAt(p, <<"idem", key>>) = "COMPLETED"

SetRows(p, table) == rows' = [rows EXCEPT ![StoreOf(p)] = table]

Put(p, scopes, row) ==
    SetRows(p, [scope \in Scopes |->
        IF scope \in scopes THEN row ELSE rows[StoreOf(p)][scope]])

RowUnhashed(status, act, answer) ==   \* variant: the request is not recorded
    [status |-> status, act |-> None, answer |-> answer]

RowOf(status, act, answer) == [status |-> status, act |-> act, answer |-> answer]

-----------------------------------------------------------------------------
(* execute(): validation, then the atomic look at the journal. *)
Accepts(act) ==
    Validates(Fields[adapter.kind][act], Params[adapter.kind][act], adapter.kind = "stripe")

SetCall(c, p, key, act, phase, result, answer) ==
    calls' = [calls EXCEPT ![c] =
        [phase |-> phase, process |-> p, key |-> key, act |-> act,
         result |-> result, answer |-> answer]]

(* A completed key answers for the parameters it was completed with, and   *)
(* refuses any others.  In memory an identity locked by another key is     *)
(* noticed first.                                                          *)
Recall(c, p, key, act) ==
    LET row == rows[StoreOf(p)][<<"idem", key>>]
    IN IF row.act = act THEN SetCall(c, p, key, act, "ended", "replayed", row.answer)
       ELSE SetCall(c, p, key, act, "ended", "mismatch", None)

ReserveOrCheck(c, p, key, act) ==
    IF Completed(p, key) /\ (adapter.durable \/ ~Locked(p, ActScopes(act)))
    THEN Recall(c, p, key, act) /\ UNCHANGED rows
    ELSE IF Locked(p, ScopesOf(key, act))
    THEN SetCall(c, p, key, act, "ended", "conflict", None) /\ UNCHANGED rows
    ELSE /\ Put(p, ScopesOf(key, act), RowOf("IN_FLIGHT", act, None))
         /\ SetCall(c, p, key, act, "looked_up", None, None)

(* GitHub looks into its cache before it validates, and reserves nothing.  *)
LookInCache(c, p, key, act) ==
    IF Completed(p, key) THEN Recall(c, p, key, act)
    ELSE IF Accepts(act) THEN SetCall(c, p, key, act, "looked_up", None, None)
    ELSE SetCall(c, p, key, act, "ended", "invalid", None)

Execute(c, p, key, act) ==
    /\ calls[c].phase = "idle"
    /\ CASE OpenAPI /\ Accepts(act) -> ReserveOrCheck(c, p, key, act)
         [] adapter.kind = "github" -> LookInCache(c, p, key, act) /\ UNCHANGED rows
         [] adapter.kind = "stripe" /\ Accepts(act) ->
               SetCall(c, p, key, act, "looked_up", None, None) /\ UNCHANGED rows
         [] OTHER -> SetCall(c, p, key, act, "ended", "invalid", None) /\ UNCHANGED rows
    /\ UNCHANGED <<adapter, wire, applied, contacts>>

-----------------------------------------------------------------------------
(* Dispatch.  The base URL is pinned.  The OpenAPI adapter looks up what   *)
(* it resolves to before each call, and dials the address it judged.       *)
Allowed(t) == t = Home

Ends(c, result, answer) ==
    SetCall(c, calls[c].process, calls[c].key, calls[c].act, "ended", result, answer)

(* Only rows still in flight are released.                                 *)
ReleaseRows(c) ==
    LET p == calls[c].process
        mine == ScopesOf(calls[c].key, calls[c].act)
    IN IF OpenAPI
       THEN SetRows(p, [scope \in Scopes |->
               IF scope \in mine /\ StatusAt(p, scope) = "IN_FLIGHT" THEN None
               ELSE rows[StoreOf(p)][scope]])
       ELSE UNCHANGED rows

(* Refused before a connection was opened: the address is not public, or   *)
(* there is none.                                                          *)
RefusedBeforeDispatch(c) ==
    /\ calls[c].phase = "looked_up"
    /\ ReleaseRows(c)
    /\ Ends(c, "not_sent", None)
    /\ UNCHANGED <<adapter, wire, applied, contacts>>

OpenAPISends ==
    /\ OpenAPI
    /\ \E t \in Targets :
          /\ t.origin = "pinned" /\ Allowed(t)
          /\ contacts' = contacts \cup {t}

(* urllib and the Stripe library take whatever the base URL resolves to,   *)
(* and nothing is said of it here.                                         *)
GitHubSends == adapter.kind = "github" /\ UNCHANGED contacts
StripeSends == adapter.kind = "stripe" /\ UNCHANGED contacts

Send(c) ==
    /\ calls[c].phase = "looked_up"
    /\ OpenAPISends \/ GitHubSends \/ StripeSends
    /\ calls' = [calls EXCEPT ![c].phase = "sending"]
    /\ wire' = [wire EXCEPT ![c] = "out"]
    /\ UNCHANGED <<adapter, rows, applied>>

(* External: the provider receives the request, perhaps after the caller   *)
(* is gone, and acts on it or not.  Stripe is handed the key with every    *)
(* action and acts once on it.                                             *)
Receive(c) ==
    /\ wire[c] = "out"
    /\ wire' = [wire EXCEPT ![c] = "in"]
    /\ \/ UNCHANGED applied
       \/ /\ adapter.kind = "stripe" /\ calls[c].key # None =>
                ~\E d \in applied : calls[d].key = calls[c].key
          /\ applied' = applied \cup {c}
    /\ UNCHANGED <<adapter, rows, calls, contacts>>

(* A refused connection carried nothing, so the reservation is released.   *)
(* The OpenAPI adapter judges this by the error alone, which is the same   *)
(* when the connection refused is the one that follows a redirect.         *)
ConnectionRefused(c) ==
    /\ \/ calls[c].phase = "sending" /\ wire[c] = "out" /\ wire' = [wire EXCEPT ![c] = "none"]
       \/ calls[c].phase = "redirected" /\ UNCHANGED wire
    /\ ReleaseRows(c)
    /\ Ends(c, "not_sent", None)
    /\ UNCHANGED <<adapter, applied, contacts>>

ReleaseOnAnyFailure(c) ==   \* variant: every failure releases the reservation
    /\ ReleaseRows(c)
    /\ Ends(c, "unknown", None)
    /\ UNCHANGED <<adapter, wire, applied, contacts>>

(* Any other failure once the request may have left.                       *)
RecordUncertain(c) ==
    /\ IF OpenAPI
       THEN Put(calls[c].process, ScopesOf(calls[c].key, calls[c].act),
                RowOf("OUTCOME_UNKNOWN", calls[c].act, None))
       ELSE UNCHANGED rows
    /\ Ends(c, "unknown", None)
    /\ UNCHANGED <<adapter, wire, applied, contacts>>

(* Timeout, HTTP error, partial response, failed witness, raising hook.    *)
Fail(c) ==
    /\ calls[c].phase \in {"sending", "redirected", "answered"}
    /\ RecordUncertain(c)

FollowsAnywhere(t) == adapter.redirects   \* variant: the target is not judged

(* A redirect is followed only within the pinned origin, and only if the   *)
(* adapter was built to.  Its target is judged again, but the connection   *)
(* goes to the address judged first.                                       *)
Follows(t) == adapter.redirects /\ Allowed(t)

Redirect(c) ==
    /\ OpenAPI /\ calls[c].phase = "sending" /\ wire[c] = "in"
    /\ \E t \in Targets :
          IF Follows(t)
          THEN /\ contacts' = contacts \cup {[t EXCEPT !.address = "public"]}
               /\ calls' = [calls EXCEPT ![c].phase = "redirected"]
               /\ UNCHANGED <<adapter, rows, wire, applied>>
          ELSE RecordUncertain(c)

(* The provider answers, naming a resource: the one this call created, or  *)
(* another it already has.                                                 *)
Answer(c) ==
    /\ calls[c].phase \in {"sending", "redirected"} /\ wire[c] = "in"
    /\ \E d \in Calls :
          /\ wire[d] = "in"
          /\ calls' = [calls EXCEPT ![c].phase = "answered", ![c].answer = d]
    /\ UNCHANGED <<adapter, rows, wire, applied, contacts>>

(* The witness: a read of a resource, after the answer.                    *)
Requested(act) == Params.openapi[act]

(* Python's ==, for which 1, 1.0 and True are equal.                       *)
SameValue(v, w) ==
    \/ v = w
    \/ {v.type, w.type} \subseteq {"integer", "number", "boolean"} /\ v.n = w.n

(* The names compared with a payload that shows some: those the operator   *)
(* bound and, where he shares, those shown, path variables apart; of all   *)
(* these only the request's own.                                           *)
Compared(act, shown) ==
    LET inPath == {name \in DOMAIN Fields.openapi[act] : Fields.openapi[act][name].path}
        shared == IF adapter.witness.shared THEN shown \ inPath ELSE {}
    IN (adapter.witness.bound \cup shared) \cap DOMAIN Requested(act)

WitnessedIfShown(c) ==   \* variant: a bound parameter the payload lacks is skipped
    \E d \in applied :
        /\ adapter.witness.byId => d = calls[c].answer
        /\ \E shown \in SUBSET DOMAIN Requested(calls[d].act) :
              \A name \in Compared(calls[c].act, shown) \cap shown :
                 SameValue(Requested(calls[d].act)[name], Requested(calls[c].act)[name])

(* The read finds a resource the provider has put in place: the one the    *)
(* answer names if the path holds its id, and otherwise whichever the      *)
(* request's own path variables lead to.  What the provider shows of it is *)
(* its choice (an id too, which must then be the answered one), but true   *)
(* of the request that made it.                                            *)
Witnessed(c) ==
    \E d \in applied :
        /\ adapter.witness.byId => d = calls[c].answer
        /\ \E shown \in SUBSET DOMAIN Requested(calls[d].act) :
              \A name \in Compared(calls[c].act, shown) :
                 /\ name \in shown
                 /\ SameValue(Requested(calls[d].act)[name], Requested(calls[c].act)[name])

CompleteKeyOnly(c) ==   \* variant: the identity's row is left as it is
    SetRows(calls[c].process, [scope \in Scopes |->
        IF scope \in KeyScopes(calls[c].key) THEN RowOf("COMPLETED", calls[c].act, calls[c].answer)
        ELSE rows[StoreOf(calls[c].process)][scope]])

RecordCompleted(c) ==
    LET p == calls[c].process
        mine == ActScopes(calls[c].act)
        row == RowOf("COMPLETED", calls[c].act, calls[c].answer)
    IN SetRows(p, [scope \in Scopes |->
          IF scope \in KeyScopes(calls[c].key) THEN row
          ELSE IF OpenAPI /\ scope \in mine /\ StatusAt(p, scope) = "IN_FLIGHT" THEN None
          ELSE rows[StoreOf(p)][scope]])

CompleteOpenAPI(c) ==
    /\ OpenAPI
    /\ adapter.witness # None => Witnessed(c)
    /\ RecordCompleted(c)
    /\ Ends(c, "done", calls[c].answer)

(* A GitHub read-back notes what it finds and changes no outcome.          *)
CompleteGitHub(c) ==
    /\ adapter.kind = "github"
    /\ RecordCompleted(c)
    /\ Ends(c, "done", calls[c].answer)

(* Stripe's answer is a success only if it says so; nothing is kept of it. *)
CompleteStripe(c) ==
    /\ adapter.kind = "stripe"
    /\ \E result \in {"done", "declined"} : Ends(c, result, calls[c].answer)
    /\ UNCHANGED rows

Complete(c) ==
    /\ calls[c].phase = "answered"
    /\ CompleteOpenAPI(c) \/ CompleteGitHub(c) \/ CompleteStripe(c)
    /\ UNCHANGED <<adapter, wire, applied, contacts>>

(* A process dies: its calls stop where they are and its memory is gone.   *)
Active(c) == calls[c].phase \in {"looked_up", "sending", "redirected", "answered"}

Crash(p) ==
    /\ rows' = [rows EXCEPT ![p] = [scope \in Scopes |-> None]]
    /\ calls' = [c \in Calls |->
          IF calls[c].process = p
          THEN [calls[c] EXCEPT !.process = None, !.phase = IF Active(c) THEN "dead" ELSE calls[c].phase]
          ELSE calls[c]]
    /\ UNCHANGED <<adapter, wire, applied, contacts>>

Step(c) ==
    \/ \E p \in Processes, key \in Keys \cup {None}, act \in Acts : Execute(c, p, key, act)
    \/ RefusedBeforeDispatch(c) \/ Send(c) \/ ConnectionRefused(c) \/ Fail(c)
    \/ Redirect(c) \/ Answer(c) \/ Complete(c)

AdapterNext ==
    \/ \E c \in Calls : Step(c) \/ Receive(c)
    \/ \E p \in Processes : Crash(p)

(* Every dispatch runs under a timeout (30 s unless the caller sets one),  *)
(* so a call that has begun is answered or given up.                       *)
AdapterFairness == \A c \in Calls : WF_adapterVars(Send(c)) /\ WF_adapterVars(Fail(c))

AdapterSpec == AdapterInit /\ [][AdapterNext]_adapterVars /\ AdapterFairness

-----------------------------------------------------------------------------
(* Properties. *)

(* Two calls that consult the same journal: any two calls of the host when *)
(* it is a file, two calls of one life of one process when it is memory.   *)
SameJournal(c, d) ==
    adapter.durable \/ (calls[c].process = calls[d].process /\ calls[c].process # None)

Journalled == OpenAPI /\ ~adapter.redirects

(* At most one request under one idempotency key is ever handed to the     *)
(* network, whichever processes call, retry, crash and restart, and        *)
(* whatever the network delays.  (An adapter built to follow redirects     *)
(* cannot promise this: see ConnectionRefused.)                            *)
OneDispatchPerKey ==
    Journalled =>
        \A c, d \in Calls :
            /\ c # d /\ SameJournal(c, d)
            /\ calls[c].key # None /\ calls[c].key = calls[d].key
            => wire[c] = "none" \/ wire[d] = "none"

(* A mutating request is dispatched again, under another key or none, only *)
(* when every earlier identical request is known to have completed: never  *)
(* while one is in flight, unclear, or lost with the process that sent it. *)
NoBlindRepeat ==
    [][Journalled /\ adapter.block =>
        \A c, d \in Calls :
            /\ wire[c] = "none" /\ wire'[c] = "out"
            /\ d # c /\ calls[d].act = calls[c].act /\ SameJournal(c, d)
            => wire[d] = "none" \/ calls[d].result = "done"]_adapterVars

(* The provider has put in place a resource with the parameters of act     *)
(* that the witness is bound to: the one answered, if the witness reads    *)
(* that one.                                                               *)
InPlace(act, answer) ==
    \E d \in applied :
        /\ adapter.witness.byId => d = answer
        /\ \A name \in adapter.witness.bound \cap DOMAIN Requested(act) :
              /\ name \in DOMAIN Requested(calls[d].act)
              /\ SameValue(Requested(calls[d].act)[name], Requested(act)[name])

(* A replayed answer is the answer of a completed call with the same key   *)
(* and the same parameters.  And whoever is told of success by an adapter  *)
(* with a witness, at once or from the journal, by another process or      *)
(* after a crash, is told the truth as far as the witness is bound: the    *)
(* provider has something in place with the bound parameters of that       *)
(* caller's own request.  (Of a parameter nobody bound nothing is          *)
(* promised: the provider may not have shown it.)                          *)
AnswersAreReal ==
    \A c \in Calls :
        /\ calls[c].result = "replayed" =>
              \E d \in Calls : /\ calls[d].result = "done" /\ calls[d].key = calls[c].key
                              /\ calls[d].act = calls[c].act
                              /\ calls[d].answer = calls[c].answer
        /\ OpenAPI /\ adapter.witness # None /\ calls[c].result \in {"done", "replayed"} =>
              InPlace(calls[c].act, calls[c].answer)

(* No OpenAPI request leaves for another place than the pinned origin at a *)
(* public address, redirects included, and no adapter sends a parameter    *)
(* its operation does not declare or a path segment that could name        *)
(* another resource.                                                       *)
RequestsStayHome ==
    /\ contacts \subseteq {Home}
    /\ \A c \in Calls : wire[c] # "none" =>
          LET fields == Fields[adapter.kind][calls[c].act]
              params == Params[adapter.kind][calls[c].act]
          IN \A name \in DOMAIN params :
                /\ name \in DOMAIN fields
                /\ fields[name].path => params[name].safe \/ params[name].type = "null"

(* A key held in the file by a dispatch in flight is settled, unless the   *)
(* process that held it died.                                              *)
LocksAreSettled ==
    \A c \in Calls :
        Active(c) ~> \/ calls[c].phase = "dead"
                    \/ \A scope \in ScopesOf(calls[c].key, calls[c].act) :
                          calls[c].process # None /\ OpenAPI =>
                              StatusAt(calls[c].process, scope) # "IN_FLIGHT"

(* The refinement of ConsequenceOnce: what the file says of a key, and for *)
(* a key in flight, how far the call that holds it had come.               *)
Holder(key) ==
    CHOOSE c \in Calls : calls[c].key = key /\ calls[c].result = None

KeyPhase(key) ==
    CASE StatusAt("file", <<"idem", key>>) = "free" -> "free"
      [] StatusAt("file", <<"idem", key>>) = "COMPLETED" -> "done"
      [] StatusAt("file", <<"idem", key>>) = "OUTCOME_UNKNOWN" -> "unresolved"
      [] StatusAt("file", <<"idem", key>>) = "IN_FLIGHT" ->
            IF wire[Holder(key)] = "none" THEN "owned" ELSE "inflight"

keyPhase == [key \in Keys |-> IF adapter.durable THEN KeyPhase(key) ELSE "free"]

KeyOnce == INSTANCE ConsequenceOnce WITH EffectIds <- Keys, phase <- keyPhase

(* The durable journal implements, for keys, the promise the effect ledger *)
(* implements for effects.                                                 *)
JournalImplementsConsequenceOnce == KeyOnce!Spec
=============================================================================
