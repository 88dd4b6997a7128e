------------------------------ MODULE Boundary ------------------------------
(***************************************************************************)
(* The boundary a resource puts before its own routes                      *)
(* (boundary/middleware.py): each request must carry a proof, minted for   *)
(* one exact intent (boundary/proofs.py), and the manifest                 *)
(* (boundary/manifest.py) says which routes are protected, how a request   *)
(* is read, whose proofs are trusted and whether a refusal blocks.         *)
(*                                                                         *)
(* A server loads the manifest when it starts and remembers the proofs it  *)
(* has used until it stops.  Clients hold proofs and send what they like,  *)
(* any number of times: a request may be lost, late, altered or repeated.  *)
(*                                                                         *)
(* The kernel's verifier is external: a proof is good for the intent it    *)
(* was minted for, at its audience, until it expires, if its key is        *)
(* trusted.                                                                *)
(***************************************************************************)
EXTENDS AdapterSchemas, FiniteSets

CONSTANTS
    Garbled,     \* a token that does not decode
    Requests,    \* requests a client sends
    Servers,
    ProofIds,
    Routes,      \* [protected routes -> what the manifest says of them]
    TrustedKeys, \* the keys the manifest trusts
    Intents,     \* what a proof may be minted for: action, target, parameters
    Issuers,     \* who mints proofs and for where: [key, audience]
    ProofLife,   \* ttl_seconds
    MaxTime      \* bound on the clock

VARIABLES
    clock,
    manifest,    \* the manifest on disk
    servers,     \* what each server has loaded and remembers
    proofs,      \* the proofs minted so far, or None
    requests     \* what the server does with each request

boundaryVars == <<clock, manifest, servers, proofs, requests>>

Modes == {"observe", "warn", "enforce"}
SigningKeys == {"issuer", "other"}
Manifest == [mode : Modes, keys : SUBSET SigningKeys]
Server == [mode : Modes, keys : SUBSET SigningKeys, used : SUBSET ProofIds]

Audiences == {"here", "elsewhere"}
Proof == [intent : Intents, key : SigningKeys, audience : Audiences, until : Nat]

(* The codes of a failed verification.  CONTENT_MISMATCH stands for        *)
(* TARGET_MISMATCH and PARAMETER_MISMATCH of an intent, PROOF_REFUSED for  *)
(* the kernel's own codes.                                                 *)
Refusals ==
    {"MALFORMED_REQUEST", "PARAMETER_MISMATCH", "PROOF_MISSING", "AUDIENCE_REQUIRED",
     "ISSUER_UNTRUSTED", "INTENT_MISSING", "ACTION_MISMATCH", "TARGET_MISSING",
     "CONTENT_MISMATCH", "PROOF_INVALID", "PROOF_REFUSED", "REPLAY_DETECTED"}

RequestPhases == {"unsent", "refused", "running", "answered", "lost"}
Request ==
    [phase : RequestPhases, server : Servers \cup {None},
     proof : ProofIds \cup {None},      \* the proof it was let through with
     exact : BOOLEAN,                   \* history: its handler was asked what the proof is for
     receipt : BOOLEAN]

Unsent == [phase |-> "unsent", server |-> None, proof |-> None, exact |-> FALSE, receipt |-> FALSE]

ASSUME BoundaryAssumption ==
    /\ None \notin Servers \cup ProofIds \cup Intents \cup Proof \cup Refusals
    /\ \A route \in DOMAIN Routes : Routes[route].audience \in {"here", None}
    /\ Issuers \subseteq [key : SigningKeys, audience : Audiences]
    /\ ProofLife \in Nat /\ MaxTime \in Nat
    /\ TrustedKeys \subseteq SigningKeys

BoundaryTypeOK ==
    /\ clock \in 0..MaxTime
    /\ manifest \in Manifest
    /\ servers \in [Servers -> Server]
    /\ proofs \in [ProofIds -> Proof \cup {None}]
    /\ requests \in [Requests -> Request]

Loaded(m) == [mode |-> m.mode, keys |-> m.keys, used |-> {}]

BoundaryInit ==
    /\ clock = 0
    /\ manifest = [mode |-> "enforce", keys |-> TrustedKeys]
    /\ servers = [s \in Servers |-> Loaded(manifest)]
    /\ proofs = [pr \in ProofIds |-> None]
    /\ requests = [r \in Requests |-> Unsent]

-----------------------------------------------------------------------------
(* mint_boundary_proof: the issuer side. *)
Mint(pr, intent, issuer) ==
    /\ proofs[pr] = None
    /\ proofs' = [proofs EXCEPT ![pr] =
          [intent |-> intent, key |-> issuer.key, audience |-> issuer.audience,
           until |-> clock + ProofLife]]
    /\ UNCHANGED <<clock, manifest, servers, requests>>

Minted == {pr \in ProofIds : proofs[pr] # None}

-----------------------------------------------------------------------------
(* What a client sends.  The boundary reads target and params from where   *)
(* the manifest says they are; body is how the JSON arrived.               *)
Query(route, pr, intent, body) ==
    [route |-> route, proof |-> pr, intent |-> intent, target |-> intent.target,
     params |-> intent.params, body |-> body]

Altered(params) ==
    [name \in DOMAIN params |-> [params[name] EXCEPT !.n = params[name].n * 1000 + 1]]

Retyped(params) ==
    [name \in DOMAIN params |-> [params[name] EXCEPT !.type = "string"]]

(* The requests the self-test sends with a proof (boundary/selftest.py),   *)
(* and those that only tests of the middleware send.  An honest client     *)
(* sends the first.                                                        *)
Probes(route, pr) ==
    LET honest == Query(route, pr, proofs[pr].intent, "json")
    IN {honest,
        [honest EXCEPT !.proof = None],
        [honest EXCEPT !.params = Altered(honest.params)],
        [honest EXCEPT !.params = Retyped(honest.params)],
        [honest EXCEPT !.params = Extend(honest.params, [stray |-> Value("string", TRUE, 0)])],
        [honest EXCEPT !.target = "another"],
        [honest EXCEPT !.target = None],
        [honest EXCEPT !.proof = Garbled],
        [honest EXCEPT !.intent = None],
        [honest EXCEPT !.intent = Garbled],
        [honest EXCEPT !.body = "malformed"],
        [honest EXCEPT !.body = "oversized"],
        [honest EXCEPT !.route = None]}

(* The same request under another proof's intent, or another's proof.      *)
Swapped(route, pr, other) ==
    {Query(route, pr, proofs[other].intent, "json"),
     [Query(route, pr, proofs[pr].intent, "json") EXCEPT !.intent = proofs[other].intent]}

-----------------------------------------------------------------------------
(* _verify: the first check that fails names the refusal; None is a pass.  *)
DeclaredTypes(route, params) ==
    \A name \in DOMAIN params : params[name].type = Routes[route].fields[name]

(* The kernel's verdict on a proof presented with an intent.               *)
KernelAccepts(s, pr, intent, audience) ==
    /\ proofs[pr].key \in servers[s].keys
    /\ proofs[pr].intent = intent
    /\ proofs[pr].audience = audience
    /\ clock <= proofs[pr].until

SameTarget(q) ==   \* variant: the parameters are not compared
    Routes[q.route].targeted => q.intent.target = q.target

SameContent(q) ==
    /\ Routes[q.route].targeted => q.intent.target = q.target
    /\ q.intent.params = q.params

Verdict(s, q) ==
    LET route == Routes[q.route]
    IN CASE q.body = "malformed" -> "MALFORMED_REQUEST"
         [] DOMAIN q.params # DOMAIN route.fields \/ ~DeclaredTypes(q.route, q.params) ->
               "PARAMETER_MISMATCH"
         [] q.proof = None -> "PROOF_MISSING"
         [] route.audience = None -> "AUDIENCE_REQUIRED"
         [] servers[s].keys = {} -> "ISSUER_UNTRUSTED"
         [] q.intent = None -> "INTENT_MISSING"
         [] q.intent = Garbled -> "MALFORMED_REQUEST"
         [] q.intent.action # route.action -> "ACTION_MISMATCH"
         [] route.targeted /\ q.target = None -> "TARGET_MISSING"
         [] ~SameContent(q) -> "CONTENT_MISMATCH"
         [] q.proof = Garbled -> "PROOF_INVALID"
         [] ~KernelAccepts(s, q.proof, q.intent, route.audience) -> "PROOF_REFUSED"
         [] q.proof \in servers[s].used -> "REPLAY_DETECTED"
         [] OTHER -> None

-----------------------------------------------------------------------------
(* dispatch: a request reaches a server.  Verification takes no await, and *)
(* looking a proof up and noting it as used is one step under a lock.      *)
Asked(q, intent) ==   \* what reaches the handler is what intent says
    /\ Routes[q.route].action = intent.action
    /\ Routes[q.route].targeted => q.target = intent.target
    /\ q.params = intent.params

Settle(r, s, phase, pr, exact) ==
    requests' = [requests EXCEPT ![r] =
        [phase |-> phase, server |-> s, proof |-> pr, exact |-> exact, receipt |-> FALSE]]

LeaveUnnoted(s, pr) == UNCHANGED servers   \* variant: the proof is not noted as used

UseUp(s, pr) == servers' = [servers EXCEPT ![s].used = servers[s].used \cup {pr}]

(* Not protected: straight to the handler.                                 *)
PassThrough(r, s, q) ==
    /\ q.route = None
    /\ Settle(r, s, "running", None, FALSE)
    /\ UNCHANGED servers

(* A body that was never read in full is refused in every mode.            *)
RefuseOversized(r, s, q) ==
    /\ q.route # None /\ q.body = "oversized"
    /\ Settle(r, s, "refused", None, FALSE)
    /\ UNCHANGED servers

(* Otherwise a refusal blocks only in enforce mode.                        *)
Refuse(r, s, q) ==
    /\ q.route # None /\ q.body # "oversized" /\ Verdict(s, q) # None
    /\ Settle(r, s, IF servers[s].mode = "enforce" THEN "refused" ELSE "running", None, FALSE)
    /\ UNCHANGED servers

LetThrough(r, s, q) ==
    /\ q.route # None /\ q.body # "oversized" /\ Verdict(s, q) = None
    /\ UseUp(s, q.proof)
    /\ Settle(r, s, "running", q.proof, Asked(q, proofs[q.proof].intent))

Dispatch(r, s, q) ==
    /\ requests[r].phase = "unsent"
    /\ PassThrough(r, s, q) \/ RefuseOversized(r, s, q) \/ Refuse(r, s, q) \/ LetThrough(r, s, q)
    /\ UNCHANGED <<clock, manifest, proofs>>

(* The handler returns: a verified request gets a receipt, whatever the    *)
(* status.  A handler that raises leaves none.                             *)
HandlerReturns(r) ==
    /\ requests[r].phase = "running"
    /\ requests' = [requests EXCEPT ![r].phase = "answered",
                                    ![r].receipt = requests[r].proof # None]
    /\ UNCHANGED <<clock, manifest, servers, proofs>>

HandlerRaises(r) ==
    /\ requests[r].phase = "running"
    /\ requests' = [requests EXCEPT ![r].phase = "lost"]
    /\ UNCHANGED <<clock, manifest, servers, proofs>>

-----------------------------------------------------------------------------
(* protect deploy writes the mode to the manifest; a server takes it up    *)
(* when it is restarted, by an operator or after a crash.                  *)
Deploy(mode) ==
    /\ mode # manifest.mode
    /\ manifest' = [manifest EXCEPT !.mode = mode]
    /\ UNCHANGED <<clock, servers, proofs, requests>>

Restart(s) ==
    /\ servers' = [servers EXCEPT ![s] = Loaded(manifest)]
    /\ requests' = [r \in Requests |->
          IF requests[r].server # s THEN requests[r]
          ELSE IF requests[r].phase = "running" THEN [requests[r] EXCEPT !.phase = "lost", !.server = None]
          ELSE [requests[r] EXCEPT !.server = None]]
    /\ UNCHANGED <<clock, manifest, proofs>>

Tick ==
    /\ clock < MaxTime
    /\ clock' = clock + 1
    /\ UNCHANGED <<manifest, servers, proofs, requests>>

BoundaryNext ==
    \/ \E pr \in ProofIds, intent \in Intents, issuer \in Issuers : Mint(pr, intent, issuer)
    \/ \E r \in Requests, s \in Servers, route \in DOMAIN Routes, pr, other \in Minted :
          \E q \in Probes(route, pr) \cup Swapped(route, pr, other) : Dispatch(r, s, q)
    \/ \E r \in Requests : HandlerReturns(r) \/ HandlerRaises(r)
    \/ \E mode \in Modes : Deploy(mode)
    \/ \E s \in Servers : Restart(s)
    \/ Tick

BoundarySpec == BoundaryInit /\ [][BoundaryNext]_boundaryVars

-----------------------------------------------------------------------------
(* Properties. *)

(* A proof lets one request of a server's life through, however often and  *)
(* in whatever order it is repeated, before or after the first use ended   *)
(* and in every mode: a repeat reaches the handler only unverified, in     *)
(* observe or warn mode, and gets no receipt (middleware.py:333).          *)
ProofUsedOnce ==
    \A r, other \in Requests :
        /\ requests[r].proof # None /\ requests[r].proof = requests[other].proof
        /\ requests[r].server # None /\ requests[r].server = requests[other].server
        => r = other

(* The used proofs of a server are those of the requests it let through: a *)
(* request that is refused, or forwarded unverified, uses no proof up, so  *)
(* the honest request it copies still passes.  And what each asked of its  *)
(* handler is what its proof was minted for, by a trusted key, for here.   *)
ProofsBuyWhatTheySay ==
    /\ \A s \in Servers : \A pr \in servers[s].used :
          \E r \in Requests : requests[r].server = s /\ requests[r].proof = pr
    /\ \A r \in Requests : requests[r].proof # None =>
          LET proof == proofs[requests[r].proof]
          IN requests[r].exact /\ proof.key \in TrustedKeys /\ proof.audience = "here"
=============================================================================
