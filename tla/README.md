# actenon-permit: a verification development

actenon-permit stands between an agent and the systems the agent would act on.
A person issues a *grant* (scopes, budget, rate limit, expiry, approval rules);
a *policy decision point* decides every action against the grant and reserves
its cost; a *gateway* enforces the decision, has a *proof* of it verified at
the edge, and only then lets the real call be made and its cost committed.
This directory models that program in TLA+, checks the models with TLC and
proves their main properties with TLAPS. Paths below are relative to
`src/actenon_permit/` of the repository.

## Inventory

| Component | State it keeps | Operations | What is hard about it | What makes it correct |
|---|---|---|---|---|
| Authority store (`state.py`, `delegated_budget.py`, `budget.py`) | SQLite tables `grants`, `rate_events`, `budget_overruns`, `reservation_budget_owners` | put_grant, set_status, reserve, commit, release | many threads and processes on one file; one reservation debits a whole delegation chain; refunds, overruns and replays in any order | money conserved in every grant of a chain; no overspend; rate windows; dead authority stays dead; a reservation settles once |
| Effect ledger (`effects.py`) | tables `effect_reservations`, `effect_events`, in the same database | reserve_effect, claim_effect, settle_effect, and a guard on commit/release | lost answers, late reports, reconciliation, other grants asking for the same consequence | one live owner of an effect; its money stays until it is settled; a consequence happens once |
| Grant model and tokens (`model.py`, `policy.py`, `token.py`) | the signing key: environment, file, or one process's memory | compile a policy, attenuate, sign, verify, mint and accept bearer tokens, init-key | narrowing in every dimension at once, from a reading that may be stale; empty and zero values that mean "unlimited"; keys that differ between processes; two token formats that cover different fields | a delegated grant is never wider than its parent; an accepted token carries the stored authority |
| PDP (`pdp.py`) | none of its own; writes store and ledger | decide, commit, decide_and_mint_pccb | works on a grant read earlier; several steps, each of which may fail | ALLOW only for live, funded authority with approval where a rule asks for it; failures deny |
| Gateway (`gateway.py`, `enforce.py`) | tools; nothing durable | call_tool, execute_intent | concurrent callers, revocation in between, blocked on a person, a provider that fails half way | no call without approval and live authority at the edge; an unclear outcome keeps its hold |
| Edge (`kernel_bridge.py`, `revocation.py`) | none | mint, verify, revocation check, effect claim | the check walks the ancestors one read at a time | a proof is honoured only for its action, its window and unrevoked authority |
| Control plane (`control.py`) | in-memory approvals | issue, revoke (cascade), attenuate, approve, deny | check-then-act handlers running in a thread pool | a decision is for a pending request; a revoked root stops all descendants |
| Intents (`intent.py`) | intent records, in memory or SQLite | create, transition, link, execute, submit_to_resource | the SQLite store reads, validates and writes in separate steps | an intent executes at most once; terminal states are terminal |
| Broker and modes (`broker.py`, `execution_modes.py`, `credentials.py`) | live credentials | resolve, execute, destroy, map outcomes | exceptions at every step; credentials shared by a cache | a credential lives for one call; uncertain outcomes never refund |
| Decision ledger (`ledger.py`) | a table that is a hash chain | open and migrate, append, list, verify | several writers and crashes; rows of three formats in one chain; columns that are not hashed | one chain; verification fails on damage it can see, and on nothing else |
| Boundary (`boundary/`) | the manifest; each server's memory of used proofs | handle a request in observe, warn or enforce mode; mint proofs; deploy a mode | requests that are altered, repeated, late; restarts; refusals that do not block | a proof is used once; a receipt means the handler was asked what the proof says |
| Provider adapters (`adapters/`) | the OpenAPI adapter's journal (file or memory), GitHub's cache | compile an API description, validate, execute, reconcile | timeouts after execution, crashes between journal and network, several processes, redirects | one dispatch per key; no blind repeat; answers that are real |
| Submission and SDK (`execution_modes.py`, `sdk/`) | none durable | submit, retry | timeouts after execution | an unknown outcome is never reported as refused or succeeded |

Interactions: the gateway calls the PDP, which reads and writes the store and
the ledger; the gateway blocks on the approval store, which the control plane
writes; the edge reads the store (revocation) and, for effects, claims in it;
the control plane changes grants under the feet of all of them. The store is
the only shared durable state, which is why it comes first.

## Modules

```
ConsequenceOnce  <-- refines --  EffectLedger  -- extends, refines -->  AuthorityStore
                                                                         |   ^
                                          BudgetEscrow  <-- refines -----+   |
                                                                             ^
                                                        ControlPlane  -- extends
                                                             ^
 ConsequenceOnce  <-- refines --  Gateway  -- extends, refines --------------+
                                                                             |
 IntentExecution  -- extends -->  CredentialBroker  -- extends --------------+
        (refines AuthorityStore)

 ConsequenceOnce  <-- refines --  AdapterCalls  -- extends -->  AdapterSchemas
                                       ^                             ^
                 Delivery  -- extends -+--------->  Boundary  -- extends

 Records  -- extends -->  DecisionLedger,  Issuance  -- extends -->  AuthorityStore
```

A definition whose comment begins with "variant:" is not used by any
specification. Each is the neighbouring definition with a plausible mistake in
it (a dropped check, an off-by-one, a forgotten reset); replacing the real one
by it makes TLC report the property it belongs to, which is how each property
has been shown to depend on the code.

### AuthorityStore

The four tables are the variables `grants`, `rateEvents`, `owners` and
`overrun`; `now` is the wall clock and `opening` a history variable. Every
public operation of `SQLiteStore` runs in one `BEGIN IMMEDIATE` transaction
under a lock, so each is one action; a refused operation rolls back and is no
step. The callers are left free: `Next` lets anybody reserve, commit and
release anything, with wrong amounts, stale claims and repeated calls, which
covers all threads and processes on one file. A grant row carries what its
signature covers (`Authority`); a signature is a boolean that merges "unsigned"
with "badly signed", and strings, scopes and rules are members of small sets.

Points that are easy to get wrong and are therefore in the model:

* `reserve` reads its timestamp before it waits for the lock, so its stamp may
  be older than that of a reservation already stored. The rate window has to
  hold for stamps in any order.
* A settlement charges the owners recorded at reservation time, not the lineage
  of the moment.
* A provider may charge more than was reserved. The difference becomes debt in
  `budget_overruns`, and refunds pay debt before they restore the balance.
* A refund wakes an exhausted grant, and nothing else changes a status.
* The lineage walk gives up after `MaxOwners` links; that is also how a cycle
  is refused.

`BudgetEscrow` says what the store is for, without grants, delegation, statuses,
rates, clocks, balances or debts: an account is opened once with a deposit, an
attempt is charged to all who pay for it or to none and only while each has the
amount left, and its hold ends once, given back or paid. What is left of an account
is the deposit less the units charged to it, not a counter. The store implements
it (`StoreIsEscrow`).

Left out: `review_expires_at`, a second deadline of the same kind as
`expires_at`; the one-off migration of databases with float amounts.

### EffectLedger and ConsequenceOnce

`effectRows` and `effectEvents` are the tables of `effects.py`. The actions are
reserve, claim, and settle in its three forms (the dispatcher's report, a
reconciliation of an unclear outcome, a repeated report), plus the legacy commit
and release with the guard that keeps them away from the money of an effect.
`ConsequenceOnce` says what this is for, one phase per effect, and the ledger
implements it under the mapping `phaseBar`. It also implements
`AuthorityStore`, so it inherits the theorems about money.

### ControlPlane and Gateway

The control plane's approval store is two dictionaries, `pending` and
`decisions`; FastAPI runs its handlers in a thread pool, so approve and deny
are check-then-resolve pairs (`judging`) and revoke is a sequence of store
calls (`revoking`), each of which others can get between. At most one revoke
handler per grant is in flight.

`Gateway` gives each concurrent `call_tool` a record in `calls` with a place:

```
screen -> reserve -> rules -> mint -> edge -> walk -> dispatch -> called -> allowed
                       |       ^                          |          |
                       v       |                          +--------> unknown
                     gate -> poll -> reload (-> screen)         any -> denied, lost
```

A place is where another call, a person, the clock, a store error or a crash
can come in. Store operations that raise are nondeterministic failures
(`ScreenDeny`, `CallNotReserved`, `EdgeRefuse`, `AppendFails` and so on have no
guard beyond the place, because any check or any write may fail there).
`fault` records that an error made the code keep a hold it would have given
back; `barred`, `doomed` and `landed` are history variables for the properties.
A restart loses calls, handlers and the approval store and keeps the database.
A finished call forgets its local variables, which only shrinks the state
space.

Simplifications: the clock never goes back; a verdict for an id that is not
pending is left out, because nobody reads it; a `CredentialMissing` raised by
the real call itself is treated like any other exception; the adapter path of
`call_tool` and `execute_intent` are in the next two modules.

### CredentialBroker

The adapter path of a call: `attempts` holds the local state of each attempt,
named after the action id under which it reserves.

```
reserve -> edge -> cleared -> ready -> resolved -> sent -> settle -> succeeded
   |        |                   |         |         |         |
   v        v                   v         v         v         v
 denied   denied         refused/failed refused  failed/unknown  crashed     any -> lost
```

The decision and the edge are as small as they can be here, because `Gateway`
has them in detail: `reserve` and `edge` either pass, refuse and give the hold
back, or refuse and fail to give it back (`fault`). Everything after `cleared`
is `Broker.execute_via_adapter` and the coordinator, step by step. The states
in which an attempt ends are the coordinator's answers, and each error path of
the code ends in the one it is mapped to, with the hold returned or not.
`landed` is history: the provider has acted. `AdapterSends` needs a secret that
is still there for that, because a request with a blank token is turned down.

A credential object is named after the attempt that had it made. `live` is the
broker's map of objects in use, `secrets` those whose value has not been
blanked, `cache` the object the token-exchange provider keeps for `CacheLife`
and its age. Two attempts can hold the same cached object; the first to finish
blanks it for both. Time spent waiting for a lock and the choice of provider
are nondeterministic; redaction and evidence are left out.

### IntentExecution

`intents` is the store of intent records and `profile` says which of the two
stores the deployment injected; it is chosen initially and never changes.
`runs` has a record for each call that works on an intent: `execute_intent`,
`submit_intent_to_resource`, or a developer's `transition`. A run shares the
name of its attempt, so that one action id is one call.

The manager's methods are sequences of transitions and of `link_` operations
that rewrite a record without changing its state. `Plans` lists them, and a run
walks its plan one item at a time:

* in the memory store an item is one step under the lock (`Advance`);
* in the SQLite store it is a read with the validation (`ReadRecord`), and later
  a write of the whole record as it was read (`WriteRecord`), because
  `update_state` takes no transaction around the two.

`Execute` checks CREATED before anything is reserved, as the code does, and the
first transition comes after the decision; what happens in between is the point
of the module. An item that the transition table forbids ends the run
(`TransitionRefused`). `Post` is the request to a resource boundary, which is
outside the repository. `Answers` states what is assumed of it: it refuses (a
4xx, or a body that says so) only what it has not done, and a receipt that
verifies comes only from a resource that has acted; every other answer, or
none, can come either way. `SubmissionOutcome` is the client's classification.

Simplifications: a link never fails; an intent's grant, parameters and proof
are not told apart; listing and deleting (which nothing calls) are left out.

### AdapterSchemas and AdapterCalls

`AdapterSchemas` is the three parameter validators as one operator,
`Validates`, over tables of declared fields: GitHub's and the payments
adapter's tables as they stand in the code, and the OpenAPI adapter's as
`Compile` makes them from an operation. A value is known by its JSON type,
whether it is a safe path segment, and its size. The one rule in which the
adapters differ, whether a boolean passes for an integer, is a parameter.

`AdapterCalls` is `execute()` of each adapter, one record in `calls` per call:

```
idle -> looked_up -> sending ( -> redirected ) -> answered -> ended
  |         |           |             |              |          ^
  +---------+-----------+-------------+--------------+----------+     any -> dead
 invalid,  not_sent   not_sent, unknown           unknown, done, declined
 conflict, mismatch, replayed
```

`rows` is the OpenAPI adapter's journal, from scopes (a key, or the identity of
a request) to IN_FLIGHT, OUTCOME_UNKNOWN or COMPLETED: one file for the host
when the adapter is durable, else the memory of one process. GitHub's answer
cache is the same table with COMPLETED rows only. The look at the journal and
the reservation are one step, as `BEGIN IMMEDIATE` makes them. `wire` and
`applied` are external: where a call's request is, and whether the provider has
acted; a request arrives whenever it likes, also after its caller timed out or
died. `contacts` collects the places the OpenAPI adapter has handed its
credential to. `adapter` is the deployed configuration, any that the
constructor admits.

A witness is a read after the answer, and what it compares is what the operator
configured (`WitnessSpec`): whether its path holds the answered id (`byId`; if
not, it reads whichever resource the request's own path variables lead to), the
parameters it is bound to, and whether it also compares those that the resource
happens to show, path variables apart (`Compared`, with Python's equality in
`SameValue`). What the provider shows is its own choice, an id included, so of a
parameter nobody bound nothing is promised, and a witness that is bound to nothing
and reads by no id may accept a resource that another request made. The provider
is assumed truthful in one thing only: what it shows of a resource under the name
of a parameter is what that resource was requested with. The `expected_fields`,
which are constants of the operator, are left out. An adapter in test mode makes up
its answers, calls every witness verified and sends nothing
(`openapi.py:1189-1192`); it is not modelled.

Two facts of the code shape the properties. A refused connection means "nothing
was sent" and frees the reservation; the adapter judges that by the error alone,
and when it follows redirects the refused connection may be the second one
(`ConnectionRefused`). The comment at `adapters/openapi.py:1083-1086` promises
otherwise. The promises about dispatch are therefore stated for adapters that
do not follow redirects, which is the default. And there is no operation that
settles an OUTCOME_UNKNOWN row, or an IN_FLIGHT row whose process died: such a
key stays locked.

Also seen while modelling, and in the model as it is: `PaymentsAdapter.reconcile`
is called by nobody, so Stripe's answers are not read back (`CompleteStripe`),
although `adapters/payments.py:33-43` says that they are; the payments validator
takes `true` for an integer; a path parameter declared as an integer can never
pass, because a safe segment is a string.

### Boundary

`servers` has, for each process of the resource, the mode and keys it loaded
from the manifest when it started and the proofs it has used since. `Verdict`
is the sequence of checks in the order the code makes them; the kernel's
verifier is external (`KernelAccepts`). The requests are those of the product's
own self-test (`Probes`: honest, without proof, altered, retyped, with a stray
field, with another target, undecodable, oversized) and two kinds of mixed-up
proofs (`Swapped`). Verification takes no `await`, and the lookup and the
insertion of a replay key are one step under a lock, so a request is one action
up to its handler, and the handler's end is another. `exact` is history: whether
the handler was asked what the proof was minted for.

The replay memory is per process and gone on a restart, whatever the manifest's
`replay_store` says (nothing reads it), which is why `ProofUsedOnce` speaks of
the requests of one server's life. Left out: the path with a verifier passed by
the application, and the observe log. That log counts refusals only, so the
readiness it reports is 0 % after any refusal; the deployment checklist's "> 95 %
readiness" cannot be met with it.

### Delivery

An action is delivered by an adapter or submitted to the resource's boundary.
`Delivery` holds both machines; a deployment moves one of them.

### Issuance

Where grants and tokens come from, on top of the store: `Issue` compiles a
policy, `Attenuate` derives a child from a grant as it was when the handler read
it (`reading`), `Mint` and `SignAndMint` turn one into a bearer token, and
`Spend`, `Refund` and `RevokeByCommand` change the grant in between. `signer` is
the key under which a grant's signature verifies; `SigningKey` says which key a
process uses: the environment's, the one in the key file, or, with development
intent, one of its own that dies with it (a restarted process is another member
of `Processes`). A signature is a term, the key with what it covers, which
differs between version 2 and version 1 tokens.

### DecisionLedger

`rows` is the table, with the columns that matter to the chain: the body (all of
a decision but its cost, as its JSON reads), the exact and the rounded cost, the
version, the previous and the own hash. A hash is a term: the previous one with
what is hashed appended to it. What is hashed is the normalised row (`Hashed`), and
each version's normaliser (`Canonical`) merges bodies that `list_entries` shows as
different: version 3 turns every number into decimal text (`exact_json_numbers`), so
10, 10.0 and the text "1E+1" are one; version 2 does the same, as its docstring
says (`ledger.py:119-123`); the oldest made integers floats, so that 2^53 and
2^53 + 1 are one. Opening migrates;
`Begin` takes the write lock and only then reads the last hash; `CommitRow`,
`Rollback` and `WriterCrashes` end the transaction. `EditRow`, `DeleteRow` and
`SwapRows` are damage done behind the ledger's back, which `verify()` is for. It
is keyless: whoever rewrites all later hashes passes, so damage here leaves the
hashes as they were. Three kinds of damage go unnoticed: removing the last rows,
editing the rounded cost of a version 3 row, which nothing lists or hashes, and
editing a body into one that normalises alike, which `list_entries` then shows.
The last is at odds with the module's docstring, by which tampering with any row,
its params included, breaks the chain (`ledger.py:7-8`): a parameter 10 can be
rewritten to 10.0 or to the text "1E+1", and in a row of the oldest version an
integer above 2^53 to its neighbour, and `verify()` still returns true.

### Records

Both live in one database file, over connections of their own, and share no
row. `Records` holds both and moves one.

## Runs

| Run | Question | Instance | Result |
|---|---|---|---|
| `authority_store` | Can any order of operations lose or mint money, break a rate window, settle twice or revive dead authority? | a root and two delegated siblings, three attempts, amounts -1, 1, 2, clock 0..2 | all properties hold |
| `effect_ledger` | Can a consequence happen twice, or its money go while it is open? | two effects, two attempts, a root and a delegated grant that approves one effect | all properties hold; both abstract specifications are implemented |
| `gateway` | What can two concurrent calls, people, revocation, expiry, errors and restarts do together? | a root, a delegated grant with an approval rule, two calls, costs 0 and 2 | all properties hold |
| `calls_end` | Is every call answered? | one call, either grant, fair scheduling | holds |
| `intents` | Can calls that execute, submit, cancel or expire one intent make it act twice, refuse what has happened, or claim what has not; do adapters ever get money back after acting, or leave a secret? | one intent, two calls, either store, providers that cache and that do not, hand states cancelled and expired | all properties hold |
| `delivery` | Can an adapter send twice under one key, repeat blindly, return another request's answer, send its credential elsewhere, or leave a lock behind? Can a boundary honour a proof twice or for something else? | two calls from two processes, one key, three identities (one invalid), seven configurations (three with a witness, each comparing something else; one the constructor refuses); two requests, two proofs, two intents, three issuers, one server | all properties hold |
| `records` | Can stale readings, key changes or damaged tokens widen authority? Does the ledger's verification notice every damage that survives normalising, and nothing else? | two grants, two processes, two policies, nine attenuations, one key file; two writers, three rows, three bodies of which two or two others normalise alike, depending on the version, two costs that round alike, three decisions to append, a table of two old formats, two damages | all properties hold |
| `terminal_statuses` | Is an exhausted grant terminal, as the state diagram of `SPEC.md` says? | as `authority_store`, one attempt | violated: a release makes it active |
| `exception_refunds` | Is a hold released when the real call raises, as `SPEC.md` says? | one call | violated: the code keeps the hold |
| `cascade_complete` | When a revoke handler has finished, is every descendant inactive, as its comment says? | one call | violated: a descendant that is exhausted while the cascade reads the list is skipped and wakes |
| `executes_once` | Does an intent execute at most once, as the comment in `execute_intent` says, in any store? | as `intents` | violated: with the SQLite store two calls dispatch it |
| `purged_tokens` | Does a cached token that is handed out still have its value, as `purge_cache` promises? | as `intents` | violated: nothing purges the cache, and a blank token is served |

What the properties say, in the order of the runs:

* `BudgetConservation`: balance less debt is opening balance less everything
  held or paid, in every grant of every chain. `NoOverspend`: a grant and its
  descendants exceed its limit only by what providers charged beyond their
  reservations. `RateCeiling`: every window, not only those that end at a
  reservation. `ChargedLineageClosed`: a hold is charged to one complete,
  narrowing chain and nothing else. `DeadStaysDead`, `SettledOnce`: about steps.
* `OneLiveOwner`, `EffectHoldsBudget`: one attempt at an effect is live, and its
  reservation is there and committed exactly when the effect is.
* `LandedIsPaidFor`: nothing that may have happened is refunded.
  `HumanConsent`: an action under an approval rule lands only if a person
  approved that action id. `KillSwitch`: a call begun after a revocation never
  holds money. `EdgeStopsDead`: although the edge reads the chain one grant at a
  time, nothing lands whose chain was dead when the edge began.
  `DenialIsFree`, `WaitsWithoutHold`: a refused or waiting call holds nothing,
  unless an error kept it.
* `SideEffectsFunded`: money is never given back for a request the provider may
  have acted on, whatever the adapter raised. `RefusedIsFree`: a refused or
  denied attempt did not act and holds nothing, unless an error kept the hold.
  `SecretsDestroyed`: a secret is in the hand of an attempt in progress, also
  when two attempts share it.
* `EphemeralExecutesOnce`: in the memory store, of all the calls that race for
  an intent at most one acts. `RefusalIsTrue`: in the memory store, an intent
  recorded as denied, refused or cancelled has not acted. `SuccessIsBacked`: in
  either store, a recorded success has a committed cost or a resource that
  acted behind it. The first two fail in the SQLite store, whose records can be
  overwritten by a stale one; the third does not, because success is written
  only after the fact.
* `CallsEnd`: every running call stops running. `GatewayUsesStore`: every
  behaviour of the gateway is one of the store.

* `OneDispatchPerKey`: of all the calls under one key that share a journal, one
  at most gets a request onto the wire. `NoBlindRepeat`: an identical request
  goes out again only when the earlier one is known to have completed.
  `AnswersAreReal`: a replay is the answer to the same key and parameters; and
  whoever is told of success by an adapter with a witness, at once, from the journal
  or after a crash, has something in place at the provider with the parameters the
  witness is bound to (the answered resource, if the witness reads that one). A
  witness that skips a bound parameter which the provider does not show breaks it,
  and so does a replay that does not compare parameters. `RequestsStayHome`: credentials and
  parameters go only where the declaration says. `LocksAreSettled`: no call that
  ends leaves a row in flight. `JournalImplementsConsequenceOnce`: the durable
  journal keeps, for keys, the same abstract promise as the effect ledger.
* `ProofUsedOnce`: a proof lets one request of a server's life through, in every
  mode. `ProofsBuyWhatTheySay`: what was let through asked for what its proof was
  minted for, by a trusted key, for this audience; and a refused request uses no
  proof up.
* `AuthorityNarrows`: every stored child is as narrow as the store will demand
  when it charges the chain, and every token any process accepts, damaged on the
  way or not, carries the authority stored under its id. `VerifyTellsDamage`:
  verification succeeds exactly when every row says, up to what the normaliser of
  its version merges, what an append wrote, after the row it was written after.

The five violations are disagreements between text and code. In three of them
the code is the more careful side or the consequence is contained: keeping
the hold after an exception is the safe choice, waking an exhausted grant is
how refunds work, and the descendant that outlives the cascade still cannot
spend, because the store checks the whole chain on every reservation.

The other two are faults of the code.

* `executes_once`: `SQLiteIntentStore.update_state` reads, validates and writes
  in separate steps (`intent.py:439-446`). Two calls of `execute_intent` that
  both read CREATED can each find every later transition legal, since each
  validates what the other has just overwritten, and both dispatch. Each has
  reserved its own money, so the budget holds; the effect happens twice. A
  conditional update on the state that was read would close it; with the memory
  store it cannot happen, which is `EphemeralExecutesOnce`.
* `purged_tokens`: the provider hands out the object it has cached
  (`credentials.py:264-269`), and the broker blanks that object after the first
  call (`broker.py:357`). Until the cached age is over, calls go out with an
  empty token and fail. No secret outlives its call, which is
  `SecretsDestroyed`; availability is what suffers.

### Why the bounds are enough

Two siblings below one root are the least in which one grant's money is debited
by another's calls, and three attempts let two of them be settled in different
orders while a third reserves. The limit is 2 and amounts go to 2, so a balance
runs out, is restored and is overrun. The clock passes the child's expiry at 1
and the root's at 2, and the windows are 0 and 1 long, so a stamp can be in one
window and out of the next. One of the siblings may be offered unsigned or wider
than its parent; that is what the narrowing checks are for. `MaxEvents` = 4 is
the longest history an attempt reaches without repeating a reconciliation. Two
calls are the least that can share one grant's money and one approval store; a
third adds another of the same kind and no new kind of step. Costs 0 and 2
separate the free call from the one that needs approval. For intents, two calls
are the least that can race for one, or share one cached token; a second intent
would share nothing with the first but the budget, which `authority_store`
covers. Two adapter calls are the least that can race for a key, retry it or
repeat an identity under another; two processes make the difference between the
file and the memories. Two proofs and two requests are the least that can be
mixed up or repeated, and the clock passes the end of a proof at 1. Two grants
are a parent and a child; a grandchild meets the same comparison with its own
parent. Three ledger rows can be swapped, deleted and edited around an append. The three
decisions appended take each body and each cost once; an edit may write any body
and any cost.
The single amount 1 leaves out the intents that cost nothing, which the
proofs cover; the clock goes to 1, past the life of a cached token. The runs
take from seconds to a few minutes.

`CHECK_DEADLOCK FALSE` is set everywhere because the clock is bounded, every
attempt can be settled and every call ended: the bounded system really stops.

### Fairness

`FairGatewaySpec` assumes weak fairness of each call's next step, and
`AdapterFairness` that a call of an adapter that has looked at the journal goes
on to dispatch and is given up at its timeout (30 s unless set) if nothing else
ends it first. Threads are scheduled, SQLite's lock wait has a timeout, the approval gate
has a deadline (300 s by default), and the real call is assumed to return or
raise. Nothing is assumed of people, operators, the clock or restarts.

## Proofs

The proofs hold for every set of grants, attempts, effects, calls, amounts,
thresholds and clocks that meets the named assumptions: `None` is not a row,
a call, a number, a verdict, an attempt, an intent or a run, amounts are
integers, offered rows are rows, an agent holds tokens of grants only.

* `AuthorityStoreProofs`. `TypeCorrect` contains more than types: balances and
  debts are natural numbers, so no balance is ever negative. `MoneyConserved`
  and `LimitRespected` follow from `MoneyInv`: types, every charged owner is
  stored (`ChargesStored`), and the books of every stored grant balance
  (`Books`). The second part is needed because a settlement looks up owners
  recorded earlier. Sums of amounts are cardinalities of sets of units, so that
  adding, repricing and removing one attempt are lemmas about finite sets
  (`UnitsAdd`, `UnitsReprice`, `UnitsRemove`). `RateLimited` follows from
  `RateInv`, about windows that start anywhere; with stale stamps the set of hits
  a reservation counts contains the window of every interval that the new stamp
  can complete. `DeadForever`, `SettlesOnce` and `LapsedForGood` are about steps;
  the last says that a grant that is revoked, expired or past its expiry, whichever
  comes first, stays so and pays for nothing new.
  The lemmas under these theorems are about `OpenSpec`, in which any grant row may
  be imported at any time; `Spec` implements it (`SpecIsOpen`), and so does
  `Issuance`, whose rows are computed by handlers and cannot be listed in advance.
  `StoreIsEscrow` is the refinement of `BudgetEscrow`, with the stored grants as
  accounts, the opening balances as deposits and the reservations as holds
  (`heldBar`). Each operation maps to one step or none (`EscrowStep`). The step that
  matters is a reservation: the store compares a balance that it counts up and
  down, the escrow the units that are charged, and the two agree because the books
  balance (`EscrowLeft`, from `MoneyInv`) and no owner is in debt. TLC has compared
  the two on the instance of the run `authority_store`; the check takes too long to
  be kept as a run. `StoreIsSafe` collects all this for the modules below.
* `EffectLedgerProofs`. `LedgerIsStore` simulates each effect operation by a
  store operation or a stutter, and gives `LedgerMoney`, which carries all the
  store's theorems over, the escrow included. `SingleOwner` and
  `EffectsBacked` are inductive together with the types. `LedgerIsOnce` is the
  refinement of `ConsequenceOnce`: `phaseBar` reads the phase of an effect off
  its only live attempt, which is well defined because of `SingleOwner`.
  `EffectsArePermitted`: a grant that restricts effects and pays for one that is
  reserved, in flight, unresolved or done approves it under a signature. It is
  checked once, at the reservation; that it stays true is because stored authority
  and a stored signature are never taken back (`ApprovalStays`).
* `GatewayProofs`. `GatewayTypeCorrect` needs that the grant of a call stays
  stored (`GrantLoaded`). `GatewayIsStore` and `GatewayMoney` carry the store's
  theorems over to concurrent calls, handlers and restarts.
  `NoRefundAfterLanding`, `RefusalsAreFree` and `WaitersHoldNothing` follow from
  one invariant, `HoldInv`, that reads off a call's place whether it holds;
  only a call's own step changes that (`HeldByOwnStep`). `ConsentHonoured`
  follows from `ConsentInv`: past the rules, a call needs no approval or has one;
  it needs that the rules of a stored grant never change (`StoredGrantStep`).
  `CallsAreOnce` shows that a single call keeps the promise of `ConsequenceOnce`:
  the hold is its owner, the real call its dispatch, the commit its end, and a call
  that raised, failed to settle or was lost after it landed stays in flight for good
  (`CallPhase`). A call that died in a restart before it reached the provider may
  still be owned; nothing dispatches it any more.
  `SettlementsAccepted` says when the store would refuse a give-back or a commit of
  the gateway: never, except by an error of the database. `MatchInv` keeps the row
  of a reservation equal to what its call will claim and committed exactly when the
  call was allowed; that all who pay are still stored is `MoneyInv`, that the grant
  is one of them is `ChargesClosed`.
* `IntentProofs`, for any number of intents, attempts and runs. `Laws` is
  inductive: types, `AttemptLaw` (what an attempt holds follows from its place),
  `RunLaw` (where a run is says where its attempt is, and what its plan may
  claim) and `SecretLaw` (whatever holds a value is tracked, whatever is tracked
  is in some attempt's hand). A caller's step changes its own attempt, run and
  reservation and nobody else's, so each action is proved once for its caller
  (`AttemptSide`, `RunSide`) and once framed for the others. `EffectsFunded`,
  `RefusalsFree` and `SecretsGone` are parts of `Laws`, and `IntentsAreStore`
  follows from the same steps. `RaceLaw` is about the in-memory store: one run
  at most has opened an intent, which is then no longer CREATED, and while it
  works or has acted the recorded state does not deny it. Only a step that
  writes a record can break that (`QuietSteps`), and of those only the one out
  of CREATED and the legal moves out of EXECUTING and SUBMITTED matter. It gives
  `ExecutesOnceInMemory` and `RefusalsTrue`. `BackedLaw` adds to
  `SuccessIsBacked` the stale records that runs of the SQLite store have read and
  are about to write back, and gives `SuccessesBacked` for both stores; that a
  committed reservation stays committed is `PaidStays`, from the proof of
  `SettlesOnce`.

* `DecisionLedgerProofs`, for any number of writers, rows and legacy rows.
  `LedgerInv` adds to the types that one writer at a time has appended and not
  committed (`Serialised`), that every row written carries the hash of what it says, normalised
  (`WellHashed`), that every hash is in the set `written` keeps (`HashesWritten`),
  and that an undamaged table chains (`Intact`). `LedgerVerifyTellsDamage` follows,
  for any normalisers: hashes are terms, so equal hashes mean equal normalised
  content (`HashInjective`), and no more is claimed.
* `BoundaryProofs`, for any number of servers, proofs and requests, in every mode
  and with restarts. `BoundaryInv` says in both directions that the memory of used
  proofs is the set of proofs this life of the server let through
  (`UsedWasLetThrough`, `LetThroughIsUsed`), which gives `BoundaryProofUsedOnce`
  and `BoundaryProofsBuy`. The proof assumes that a route names the server's own
  audience or none.
* `AdapterProofs`, for any number of calls, keys, processes and crashes, every
  admitted configuration and any table of fields. The heart of `AdapterInv` is
  `JournalInv`: a call that is in flight, lost or unclear *claims* the rows of its
  key and identity, one that is done the row of its key; claimed rows say what
  became of their call (`ClaimsShow`) and no row is claimed twice
  (`ClaimsExclude`). It holds of lost calls too, which is why a crash frees
  nothing in the file. `OneDispatchPerKey` alone is not inductive: it does not say
  that a dead call still holds its key. `KeyDispatchedOnce`,
  `NothingRepeatedBlindly`, `AnswersReal` and `RequestsHome` follow from it, and
  `JournalIsOnce` from the holder of a row in flight being unique (`KeyPhases`).
  For `AnswersReal` the invariant says what is in place for every call that is done
  (`DoneWitnessed`); a replay reads nothing itself, but repeats the answer of a done
  call with the same parameters (`ReplaysBacked`).
  The proof assumes that only the OpenAPI adapter has a durable journal, as the
  constructors have it. `DeliveryIsBoth` composes: each step of `Delivery` is, seen
  through the variables of either side, a step of the adapter or of the boundary or
  none, so `DeliveryIsSafe` and `DeliveryTypes` follow from the theorems about each.

* `IssuanceProofs`, for any number of processes, keys, tokens and grants, over
  the same store. `DelegationOnlyNarrows` (every stored delegated grant is no wider
  than its parent, in every dimension, and every accepted token, garbled or not,
  carries the stored authority) needs more than the comparison made when a grant is
  attenuated: the parent was read earlier, so `ReadingsTrue` says that what a process
  has read is the stored authority up to its signature, `TokensTrue` that what a
  circulating token's signature covers is, and `SignedHaveKeys` that what is signed
  was signed by some key. The proof cites the balances from `MoneyInv`, because a
  child's limit is compared with what its parent has left. It assumes that the placeholder names
  of the model are strings and that `None` is neither a key nor a token, which the
  prover cannot see of string literals and of `None` by itself. `IssuanceIsStore`
  maps every handler to a step of the store's `OpenSpec`, so that the store's theorems
  about money, rates and lapsed authority hold of rows computed from stale readings
  (`IssuanceMoney`). `RecordsAreBoth` composes issuing with the decision ledger as
  `DeliveryIsBoth` does, and gives `RecordsTypes` and `RecordsAreSafe`.

The lineage of a grant is a recursive function, and what it returns is proved by
least counterexample (`LeastNumber`, from the well-foundedness of the naturals):
`WalkIs` shows that the walk satisfies its own equation, `WalkEnds` that it finds
nothing past a root, `WalkKept` that no step of the store changes what it had found,
although an import may lengthen it. Six theorems rest on these. `ChargesClosed`
(in `AuthorityStoreProofs`): a reservation charges a chain that was sound when it
was made (`LineageFacts`), and stored authority is never rewritten (`StoredKept`).
`RevocationStops` (in `GatewayProofs`): a chain with a dead grant stays one
(`WithdrawnStays`), and a call comes to hold money only by a reservation that finds
the whole chain active (`OnlyReserveHolds`). `EdgeIsSound`: while the edge walks up
a chain that was not live when it began, what is wrong with it is still ahead
(`RuinAhead`), so the walk cannot run off the root (`LookAhead`). `ChargesNeverWiden`
and `LineagesOnlyNarrow`: narrowing is checked link by link and composes, in every
dimension but the depth, along a walk of any length (`LineageNoWider`).
`SubtreeStaysWithinLimit`: whatever a descendant holds is charged to every grant of
its chain, so the units of a whole subtree are among those of its root, and those
`LimitRespected` bounds.

`ConsequenceOnce` thus has three implementations: the effect ledger for effects,
the adapter's journal for idempotency keys, the gateway for its own calls. Of
the credential broker none is claimed: an attempt that ended in a crash without
landing does not remember whether its request had been sent, so its phase cannot be
read off its state.

Checked by TLC only: liveness (`CallsEnd`, `LocksAreSettled`), which is beyond
the prover's temporal reasoning. Proved only: what happens on lineages that are
cyclic or too long; no run has one, and `ChargesClosed` covers them.

Seven of the theorems state definitions that no run checks and that live in the
proof modules: `ChargesNoWider`, `SubtreeWithinLimit` and `NothingChargedToLapsed`
in `AuthorityStoreProofs`, `EffectsApproved` in `EffectLedgerProofs`, `CallPhase` and
`HoldsCanSettle` in `GatewayProofs`, `LineageNarrows` in `IssuanceProofs`. Each is
defined, with a comment, right before its first use there.

## Not modelled

* A run for the answers with `ok=False` that the coordinator reports as succeeded
  (`execution_modes.py:171`). `SettleAttempt` and `CompleteStripe` have the
  behaviour; no property can hold of it.
* The SDK's results and its `with_retry` loop. A retry after an unknown outcome
  meets an intent that is no longer CREATED, and the SDK turns the gateway's
  plain denial into `ExecutionRefusedError` (`sdk/client.py:330`), although the
  first attempt may have landed and `sdk/retry.py:7` says that the original
  response would come back.
* Names that resolve to another address between the check and the connection.
  Judging and dialling are one step of `OpenAPISends`, as the code dials the address
  it judged (`openapi.py:249`); what the model lets change is the target of a
  redirect.
* Operators who reconcile effects, and what they reviewed: the ledger's guard on
  the reviewed sequence is modelled, the people are not.
* The migration of databases with float amounts, `review_expires_at`, the
  approval event stream, the admin token (two servers that share a home directory
  rotate it under each other's clients), Ed25519 key files, registration of
  tools, the HTTP routes, redaction and evidence: data, or code that changes no
  state the properties tell apart.
* Cryptography (a signature or hash is a term, or right or wrong), demos, the
  rest of the command lines, the TypeScript client.
