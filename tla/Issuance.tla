------------------------------ MODULE Issuance ------------------------------
(***************************************************************************)
(* Where authority comes from: policies compiled to grants, grants         *)
(* attenuated for other agents, bearer tokens minted from them, and the    *)
(* signing keys under which one process accepts what another issued        *)
(* (model.py, policy.py, token.py, and the operations of control.py and    *)
(* cli.py that call them).  The grants live in the AuthorityStore, whose   *)
(* own operations (reserving, refunding, revoking) go on meanwhile.        *)
(*                                                                         *)
(* A signature is a term: the key and what it covers.  HMAC, canonical     *)
(* JSON and base64 are not modelled beyond that; which fields are covered  *)
(* is, because it differs between the two token versions.                  *)
(***************************************************************************)
EXTENDS AuthorityStore

CONSTANTS
    Processes,     \* servers and commands sharing the store and the home directory
    Policies,      \* documents an administrator issues
    Requests,      \* attenuations that are asked for; a field is None to inherit
    MaxKeys,       \* bound on runs of `permit init-key`
    MaxTokens      \* bound on minted tokens

VARIABLES
    signer,    \* signature column of a grant: the key it verifies under, or None
    keyFile,   \* ~/.actenon-permit/signing-key: which init-key wrote it, 0 when absent
    config,    \* where each process is told to find a key
    reading,   \* the grant a handler has read and not acted on yet, or None
    tokens     \* bearer tokens in circulation

issuanceVars == <<storeVars, signer, keyFile, config, reading, tokens>>

Configs == {"environment", "development", "bare"}

KeyIds ==
    {<<"environment", 0>>} \cup ({"file"} \X (1..MaxKeys)) \cup (Processes \X {0})

Policy ==
    [limit : Nat, remaining : Nat, expires : Nat, allow : SUBSET STRING,
     deny : SUBSET STRING, rules : SUBSET STRING, rateMax : Nat, ratePer : Nat,
     approved : (SUBSET EffectIds) \cup {None}]

AttenuateRequest ==
    [expires : Nat \cup {None}, allow : (SUBSET STRING) \cup {None},
     deny : (SUBSET STRING) \cup {None}, limit : Nat \cup {None},
     rateMax : Int \cup {None}, ratePer : Int \cup {None},
     rules : (SUBSET STRING) \cup {None}, approved : (SUBSET EffectIds) \cup {None}]

Live == [status : Statuses, remaining : Nat]
Snapshot == [id : GrantIds, row : GrantRow, signer : KeyIds \cup {None}]

ASSUME IssuanceAssumption ==
    /\ Policies \subseteq Policy
    /\ Requests \subseteq AttenuateRequest
    /\ MaxKeys \in Nat /\ MaxTokens \in Nat
    /\ None \notin KeyIds \cup Snapshot
    /\ {"agent", "child", "USD"} \subseteq STRING   \* true of TLA+, unknown to the prover

-----------------------------------------------------------------------------
(* Keys and signatures. *)

(* The environment wins, then the persisted file; an ephemeral key is made *)
(* only under declared development intent, and dies with its process: a    *)
(* restarted process remembers nothing and is another member of Processes. *)
SigningKey(p) ==
    CASE config[p] = "environment" -> <<"environment", 0>>
      [] config[p] # "environment" /\ keyFile > 0 -> <<"file", keyFile>>
      [] config[p] = "development" /\ keyFile = 0 -> <<p, 0>>
      [] config[p] = "bare" /\ keyFile = 0 -> None

Signature(key, covered) == [key |-> key, covered |-> covered]

(* Version 2 covers authority only, version 1 everything but the signature *)
(* itself, the live status and balance included.                           *)
AuthorityPayload(token) == [id |-> token.id, auth |-> token.auth]
LegacyPayload(token) == [id |-> token.id, auth |-> token.auth, live |-> token.live]

Covered(token) ==
    IF token.version = "v2" THEN AuthorityPayload(token) ELSE LegacyPayload(token)

Accepts(p, token) ==
    /\ SigningKey(p) # None
    /\ token.signature = Signature(SigningKey(p), Covered(token))

(* Grant.sign(): the caller has checked that there is a key.               *)
Sign(p, g) == signer' = [signer EXCEPT ![g] = SigningKey(p)]

-----------------------------------------------------------------------------
(* Issuing.  compile_policy makes a root; it may start with less left than *)
(* its limit, and the store refuses one that starts with more.             *)

Compile(policy) ==
    [parent |-> None, depth |-> 0, agent |-> "agent", signed |-> TRUE,
     currency |-> "USD", limit |-> policy.limit, expires |-> policy.expires,
     allow |-> policy.allow, deny |-> policy.deny, rules |-> policy.rules,
     rateMax |-> policy.rateMax, ratePer |-> policy.ratePer, approved |-> policy.approved]

Issue(p, g, policy) ==
    /\ SigningKey(p) # None
    /\ InsertGrant(g, [auth |-> Compile(policy), status |-> "ACTIVE",
                       remaining |-> policy.remaining])
    /\ Sign(p, g)
    /\ UNCHANGED <<keyFile, config, reading, tokens>>

(* A trusted caller may store a grant it has not signed.                   *)
ImportUnsigned(g, policy) ==
    /\ InsertGrant(g, [auth |-> [Compile(policy) EXCEPT !.signed = FALSE],
                       status |-> "ACTIVE", remaining |-> policy.remaining])
    /\ UNCHANGED <<signer, keyFile, config, reading, tokens>>

(* Handlers work on the row as it was when they read it.                   *)
Read(p, g) ==
    /\ reading[p] = None
    /\ g \in Stored
    /\ reading' = [reading EXCEPT ![p] = [id |-> g, row |-> grants[g], signer |-> signer[g]]]
    /\ UNCHANGED <<storeVars, signer, keyFile, config, tokens>>

-----------------------------------------------------------------------------
(* Attenuation. *)

Given(asked, inherited) == IF asked = None THEN inherited ELSE asked
Extra(asked) == IF asked = None THEN {} ELSE asked

(* Variant: the subset test alone, which the empty allow list passes.      *)
NarrowsBySubset(row, request) ==
    /\ Given(request.expires, row.auth.expires) <= row.auth.expires
    /\ Given(request.allow, row.auth.allow) \subseteq row.auth.allow
    /\ Given(request.limit, row.remaining) <= row.remaining
    /\ Given(request.rateMax, row.auth.rateMax) >= 0
    /\ Given(request.ratePer, row.auth.ratePer) >= row.auth.ratePer

(* Variant: a negative rate passes for a limit.                            *)
MayAttenuateAnyRate(row, request) ==
    /\ Given(request.expires, row.auth.expires) <= row.auth.expires
    /\ Given(request.allow, row.auth.allow) \subseteq row.auth.allow
    /\ Given(request.allow, row.auth.allow) = {} => row.auth.allow = {}
    /\ Given(request.limit, row.remaining) <= row.remaining
    /\ row.auth.rateMax > 0 =>
          Given(request.rateMax, row.auth.rateMax) \in 1..row.auth.rateMax
    /\ Given(request.ratePer, row.auth.ratePer) >= row.auth.ratePer
    /\ row.auth.approved # None =>
          Given(request.approved, row.auth.approved) \subseteq row.auth.approved

(* attenuate() raises ValueError unless every field asked for is equal or  *)
(* weaker.  An empty allow list and a zero rate are the widest values.     *)
MayAttenuate(row, request) ==
    /\ Given(request.expires, row.auth.expires) <= row.auth.expires
    /\ Given(request.allow, row.auth.allow) \subseteq row.auth.allow
    /\ Given(request.allow, row.auth.allow) = {} => row.auth.allow = {}
    /\ Given(request.limit, row.remaining) <= row.remaining
    /\ Given(request.rateMax, row.auth.rateMax) >= 0
    /\ row.auth.rateMax > 0 =>
          Given(request.rateMax, row.auth.rateMax) \in 1..row.auth.rateMax
    /\ Given(request.ratePer, row.auth.ratePer) >= row.auth.ratePer
    /\ row.auth.approved # None =>
          Given(request.approved, row.auth.approved) \subseteq row.auth.approved

(* The child inherits what is not asked for; denials and approval rules    *)
(* only accumulate, and its cap is what the parent had left.               *)
Attenuated(parent, row, request) ==
    [parent |-> parent, depth |-> row.auth.depth + 1, agent |-> "child", signed |-> TRUE,
     currency |-> row.auth.currency,
     limit |-> Given(request.limit, row.remaining),
     expires |-> Given(request.expires, row.auth.expires),
     allow |-> Given(request.allow, row.auth.allow),
     deny |-> row.auth.deny \cup Extra(request.deny),
     rules |-> row.auth.rules \cup Extra(request.rules),
     rateMax |-> Given(request.rateMax, row.auth.rateMax),
     ratePer |-> Given(request.ratePer, row.auth.ratePer),
     approved |-> Given(request.approved, row.auth.approved)]

(* The parent was active when it was read.  Whatever happened to it since, *)
(* the child is stored as computed from that reading.                      *)
Attenuate(p, g, request) ==
    /\ reading[p] # None
    /\ reading[p].row.status = "ACTIVE"
    /\ SigningKey(p) # None
    /\ MayAttenuate(reading[p].row, request)
    /\ LET auth == Attenuated(reading[p].id, reading[p].row, request)
       IN  InsertGrant(g, [auth |-> auth, status |-> "ACTIVE", remaining |-> auth.limit])
    /\ Sign(p, g)
    /\ reading' = [reading EXCEPT ![p] = None]
    /\ UNCHANGED <<keyFile, config, tokens>>

(* The command line has no options for rates, rules and effects.           *)
CommandRequests ==
    {r \in Requests : r.rateMax = None /\ r.ratePer = None /\ r.rules = None /\ r.approved = None}

AttenuateByCommand(p, g) == \E request \in CommandRequests : Attenuate(p, g, request)
AttenuateByControlPlane(p, g) == \E request \in Requests : Attenuate(p, g, request)

Decline(p) ==   \* a refused request, an error, or a plain read
    /\ reading[p] # None
    /\ reading' = [reading EXCEPT ![p] = None]
    /\ UNCHANGED <<storeVars, signer, keyFile, config, tokens>>

-----------------------------------------------------------------------------
(* Tokens. *)

TokenOf(snapshot, version) ==
    LET body == [id |-> snapshot.id, auth |-> snapshot.row.auth,
                 live |-> [status |-> snapshot.row.status, remaining |-> snapshot.row.remaining],
                 version |-> version]
    IN  [id |-> body.id, auth |-> body.auth, live |-> body.live, version |-> version,
         signature |-> Signature(snapshot.signer, Covered(body))]

Circulate(token) ==
    /\ Cardinality(tokens) < MaxTokens
    /\ tokens' = tokens \cup {token}

(* grant_to_token of a grant that was signed when it was read: the token   *)
(* carries the stored signature, whatever key this process holds.          *)
Mint(p) ==
    /\ reading[p] # None
    /\ reading[p].row.auth.signed
    /\ Circulate(TokenOf(reading[p], "v2"))
    /\ reading' = [reading EXCEPT ![p] = None]
    /\ UNCHANGED <<storeVars, signer, keyFile, config>>

SignedRow(row) == [row EXCEPT !.auth.signed = TRUE]

(* An unsigned grant is signed first and its signature stored; the store   *)
(* refuses if another process has attached a different one meanwhile.      *)
SignAndMint(p) ==
    /\ reading[p] # None
    /\ ~reading[p].row.auth.signed
    /\ SigningKey(p) # None
    /\ LET g == reading[p].id
           snapshot == [id |-> g, row |-> SignedRow(reading[p].row), signer |-> SigningKey(p)]
       IN  /\ \/ AttachSignature(g, snapshot.row)
              \/ signer[g] = SigningKey(p) /\ UNCHANGED storeVars
           /\ Sign(p, g)
           /\ Circulate(TokenOf(snapshot, "v2"))
    /\ reading' = [reading EXCEPT ![p] = None]
    /\ UNCHANGED <<keyFile, config>>

(* A release before 2.0.0, sharing the key, minted a version 1 token.      *)
MintLegacy(p) ==
    /\ reading[p] # None
    /\ reading[p].signer # None
    /\ Circulate(TokenOf(reading[p], "v1"))
    /\ reading' = [reading EXCEPT ![p] = None]
    /\ UNCHANGED <<storeVars, signer, keyFile, config>>

-----------------------------------------------------------------------------
(* Using and withdrawing grants. *)

(* The PDP and the store check signatures under this process's key: the    *)
(* grant's own, and every one of a delegation lineage.                     *)
Spend(p, g, a, amount) ==
    /\ SigningKey(p) # None
    /\ \A o \in Lineage(g) : o \in Stored => signer[o] = SigningKey(p)
    /\ Reserve(g, a, amount, None, now)
    /\ UNCHANGED <<signer, keyFile, config, reading, tokens>>

Refund(g, a, claimed) ==
    /\ Release(g, a, claimed)
    /\ UNCHANGED <<signer, keyFile, config, reading, tokens>>

(* permit revoke: each listed grant in a transaction of its own, and none  *)
(* of their descendants.                                                   *)
RevokeByCommand(g) ==
    /\ Revoke(g)
    /\ UNCHANGED <<signer, keyFile, config, reading, tokens>>

-----------------------------------------------------------------------------
(* Keys change: init-key refuses to overwrite a file unless forced.        *)
InitKey(force) ==
    /\ keyFile < MaxKeys
    /\ keyFile = 0 \/ force
    /\ keyFile' = keyFile + 1
    /\ UNCHANGED <<storeVars, signer, config, reading, tokens>>

IssuanceInit ==
    /\ Init
    /\ signer = [g \in GrantIds |-> None]
    /\ keyFile = 0
    /\ config \in [Processes -> Configs]
    /\ reading = [p \in Processes |-> None]
    /\ tokens = {}

IssuanceNext ==
    \/ \E p \in Processes, g \in GrantIds, policy \in Policies : Issue(p, g, policy)
    \/ \E g \in GrantIds, policy \in Policies : ImportUnsigned(g, policy)
    \/ \E p \in Processes, g \in GrantIds :
          Read(p, g) \/ AttenuateByCommand(p, g) \/ AttenuateByControlPlane(p, g)
    \/ \E p \in Processes : Decline(p) \/ Mint(p) \/ SignAndMint(p) \/ MintLegacy(p)
    \/ \E p \in Processes, g \in GrantIds, a \in ActionIds, amount \in Amounts :
          Spend(p, g, a, amount)
    \/ \E g \in GrantIds, a \in ActionIds, claimed \in Amounts : Refund(g, a, claimed)
    \/ \E g \in GrantIds : RevokeByCommand(g)
    \/ \E force \in BOOLEAN : InitKey(force)

IssuanceSpec == IssuanceInit /\ [][IssuanceNext]_issuanceVars

-----------------------------------------------------------------------------
(* Properties. *)

Token ==
    [id : GrantIds, auth : Authority, live : Live, version : {"v1", "v2"},
     signature : [key : KeyIds, covered :
         [id : GrantIds, auth : Authority] \cup [id : GrantIds, auth : Authority, live : Live]]]

(* Every variable holds what its column, file or memory can hold.          *)
IssuanceTypeOK ==
    /\ TypeOK
    /\ signer \in [GrantIds -> KeyIds \cup {None}]
    /\ keyFile \in 0..MaxKeys
    /\ config \in [Processes -> Configs]
    /\ reading \in [Processes -> Snapshot \cup {None}]
    /\ tokens \subseteq Token

DelegationNarrows ==
    \A g \in Stored : Auth(g).parent # None =>
        /\ Auth(g).parent \in Stored
        /\ Narrows(Auth(g), Auth(Auth(g).parent))

(* A token as it may arrive: one field garbled on the way, or none.        *)
Damaged(token) ==
    {token}
        \cup {[token EXCEPT !.id = g] : g \in GrantIds}
        \cup {[token EXCEPT !.auth.limit = @ + 1], [token EXCEPT !.auth.expires = @ + 1],
              [token EXCEPT !.auth.allow = {}], [token EXCEPT !.auth.deny = {}],
              [token EXCEPT !.auth.rateMax = 0], [token EXCEPT !.auth.approved = None]}
        \cup {[token EXCEPT !.live = [status |-> s, remaining |-> token.live.remaining]] :
                 s \in Statuses}
        \cup {[token EXCEPT !.version = v] : v \in {"v1", "v2"}}

AcceptedIsStored ==
    \A token \in tokens, p \in Processes :
        \A presented \in Damaged(token) :
            Accepts(p, presented) =>
                /\ presented.id \in Stored
                /\ [presented.auth EXCEPT !.signed = Auth(presented.id).signed]
                      = Auth(presented.id)

(* Delegation only ever narrows, in every dimension, as the store that     *)
(* will charge the chain compares it: also when the parent was spent from, *)
(* refunded or revoked between being read and the child being stored.  And *)
(* a token that any process accepts, intact or damaged, before or after a  *)
(* key changed, carries the authority stored under its id, so no token is  *)
(* a wider grant than the chain it comes from.                             *)
AuthorityNarrows == DelegationNarrows /\ AcceptedIsStored
=============================================================================
