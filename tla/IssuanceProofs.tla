--------------------------- MODULE IssuanceProofs ---------------------------
(***************************************************************************)
(* Theorems about Issuance, for every set of grants, processes, policies   *)
(* and requests and any number of keys and tokens: delegation narrows, at  *)
(* any distance, and an accepted token carries the authority that is       *)
(* stored, however stale what a handler read and whichever keys have       *)
(* changed meanwhile.  At the end, Records, which issues grants and keeps  *)
(* decisions in one database, inherits the theorems about both.            *)
(***************************************************************************)
EXTENDS Records, AuthorityStoreProofs, DecisionLedgerProofs

-----------------------------------------------------------------------------
(* What holds in every reachable state. *)

(* A grant that counts as signed has a signature.                          *)
SignedHaveKeys ==
  \A g \in Stored : Auth(g).signed => signer[g] # None

(* A reading may be old, but not of another authority.                     *)
ReadingTrue(p) ==
  reading[p] # None =>
      /\ reading[p].id \in Stored
      /\ Same(reading[p].row.auth, Auth(reading[p].id))
      /\ reading[p].row.remaining <= reading[p].row.auth.limit
      /\ reading[p].row.auth.signed => reading[p].signer # None

ReadingsTrue == \A p \in Processes : ReadingTrue(p)

TokenTrue(token) ==
  /\ token.signature.covered.id \in Stored
  /\ Same(token.signature.covered.auth, Auth(token.signature.covered.id))

TokensTrue == \A token \in tokens : TokenTrue(token)

(* DelegationNarrows, for one grant.                                       *)
NarrowsParent(g) ==
  Auth(g).parent # None =>
      /\ Auth(g).parent \in Stored
      /\ Narrows(Auth(g), Auth(Auth(g).parent))

IssuanceInv ==
  /\ IssuanceTypeOK /\ MoneyInv /\ SignedHaveKeys /\ ReadingsTrue /\ TokensTrue
  /\ DelegationNarrows

-----------------------------------------------------------------------------
(* Authorities. *)

LEMMA SameSigned ==
  ASSUME NEW a \in Authority, NEW b \in Authority, Same(a, b)
  PROVE  [a EXCEPT !.signed = b.signed] = b
  <1> DEFINE x == [a EXCEPT !.signed = b.signed]
  <1>1. /\ x \in Authority /\ x.signed = b.signed
        /\ x.parent = a.parent /\ x.depth = a.depth /\ x.agent = a.agent
        /\ x.currency = a.currency /\ x.limit = a.limit /\ x.expires = a.expires
        /\ x.allow = a.allow /\ x.deny = a.deny /\ x.rules = a.rules
        /\ x.rateMax = a.rateMax /\ x.ratePer = a.ratePer /\ x.approved = a.approved
    BY DEF Authority
  <1> HIDE DEF x
  <1>2. /\ a.parent = b.parent /\ a.depth = b.depth /\ a.agent = b.agent
        /\ a.currency = b.currency /\ a.limit = b.limit /\ a.expires = b.expires
        /\ a.allow = b.allow /\ a.deny = b.deny /\ a.rules = b.rules
        /\ a.rateMax = b.rateMax /\ a.ratePer = b.ratePer /\ a.approved = b.approved
    BY SameFields
  <1>3. x = b
    BY <1>1, <1>2 DEF Authority
  <1> QED
    BY <1>3 DEF x

(* The record with given fields.                                           *)
LEMMA RecordOfFields ==
  ASSUME NEW x, NEW parent \in GrantIds \cup {None}, NEW depth \in Nat, NEW agent \in STRING,
         NEW signed \in BOOLEAN, NEW currency \in STRING, NEW limit \in Nat,
         NEW expires \in Nat, NEW allow \in SUBSET STRING, NEW deny \in SUBSET STRING,
         NEW rules \in SUBSET STRING, NEW rateMax \in Nat, NEW ratePer \in Nat,
         NEW approved \in (SUBSET EffectIds) \cup {None},
         x = [parent |-> parent, depth |-> depth, agent |-> agent, signed |-> signed,
              currency |-> currency, limit |-> limit, expires |-> expires, allow |-> allow,
              deny |-> deny, rules |-> rules, rateMax |-> rateMax, ratePer |-> ratePer,
              approved |-> approved]
  PROVE  x \in Authority
  BY DEF Authority

(* A child that passes attenuate() narrows what was read.                  *)
LEMMA AttenuatedNarrows ==
  ASSUME NEW parent \in GrantIds, NEW row \in GrantRow, NEW request \in AttenuateRequest,
         row.remaining <= row.auth.limit, MayAttenuate(row, request)
  PROVE  /\ Attenuated(parent, row, request) \in Authority
         /\ Attenuated(parent, row, request).parent = parent
         /\ Attenuated(parent, row, request).signed = TRUE
         /\ Narrows(Attenuated(parent, row, request), row.auth)
  <1> DEFINE child == Attenuated(parent, row, request)
  <1>1. /\ row.auth.depth \in Nat /\ row.auth.currency \in STRING /\ row.auth.limit \in Nat
        /\ row.auth.expires \in Nat /\ row.auth.allow \in SUBSET STRING
        /\ row.auth.deny \in SUBSET STRING /\ row.auth.rules \in SUBSET STRING
        /\ row.auth.rateMax \in Nat /\ row.auth.ratePer \in Nat
        /\ row.auth.approved \in (SUBSET EffectIds) \cup {None} /\ row.remaining \in Nat
    BY DEF GrantRow, Authority
  <1>2. /\ request.expires \in Nat \cup {None} /\ request.allow \in (SUBSET STRING) \cup {None}
        /\ request.deny \in (SUBSET STRING) \cup {None} /\ request.limit \in Nat \cup {None}
        /\ request.rateMax \in Int \cup {None} /\ request.ratePer \in Int \cup {None}
        /\ request.rules \in (SUBSET STRING) \cup {None}
        /\ request.approved \in (SUBSET EffectIds) \cup {None}
    BY DEF AttenuateRequest
  <1>3. /\ child.parent = parent /\ child.depth = row.auth.depth + 1 /\ child.agent = "child"
        /\ child.signed = TRUE /\ child.currency = row.auth.currency
        /\ child.limit = Given(request.limit, row.remaining)
        /\ child.expires = Given(request.expires, row.auth.expires)
        /\ child.allow = Given(request.allow, row.auth.allow)
        /\ child.deny = row.auth.deny \cup Extra(request.deny)
        /\ child.rules = row.auth.rules \cup Extra(request.rules)
        /\ child.rateMax = Given(request.rateMax, row.auth.rateMax)
        /\ child.ratePer = Given(request.ratePer, row.auth.ratePer)
        /\ child.approved = Given(request.approved, row.auth.approved)
    BY DEF Attenuated
  <1>4. child = [parent |-> child.parent, depth |-> child.depth, agent |-> child.agent,
                 signed |-> child.signed, currency |-> child.currency, limit |-> child.limit,
                 expires |-> child.expires, allow |-> child.allow, deny |-> child.deny,
                 rules |-> child.rules, rateMax |-> child.rateMax, ratePer |-> child.ratePer,
                 approved |-> child.approved]
    BY DEF Attenuated
  <1>5. /\ Given(request.expires, row.auth.expires) <= row.auth.expires
        /\ Given(request.allow, row.auth.allow) \subseteq row.auth.allow
        /\ Given(request.allow, row.auth.allow) = {} => row.auth.allow = {}
        /\ Given(request.limit, row.remaining) <= row.remaining
        /\ Given(request.rateMax, row.auth.rateMax) >= 0
        /\ row.auth.rateMax > 0 =>
              Given(request.rateMax, row.auth.rateMax) \in 1..row.auth.rateMax
        /\ Given(request.ratePer, row.auth.ratePer) >= row.auth.ratePer
        /\ row.auth.approved # None =>
              Given(request.approved, row.auth.approved) \subseteq row.auth.approved
    BY DEF MayAttenuate
  <1> HIDE DEF child
  <1>6. /\ child.depth \in Nat /\ child.limit \in Nat /\ child.expires \in Nat
        /\ child.rateMax \in Nat /\ child.ratePer \in Nat
    BY <1>1, <1>2, <1>3, <1>5 DEF Given
  <1>7. /\ child.allow \in SUBSET STRING /\ child.deny \in SUBSET STRING
        /\ child.rules \in SUBSET STRING /\ child.approved \in (SUBSET EffectIds) \cup {None}
    BY <1>1, <1>2, <1>3 DEF Given, Extra
  <1>8. child \in Authority
    <2>1. /\ child.parent \in GrantIds \cup {None} /\ child.agent \in STRING
          /\ child.signed \in BOOLEAN /\ child.currency \in STRING
      BY <1>1, <1>3, IssuanceAssumption
    <2> QED
      BY <1>4, <1>6, <1>7, <2>1, RecordOfFields DEF Authority
  <1>9. row.auth.approved # None => child.approved # None
    BY <1>3 DEF Given
  <1>10. child.limit <= row.auth.limit
    BY <1>1, <1>3, <1>5, <1>6
  <1>11. Narrows(child, row.auth)
    BY <1>1, <1>3, <1>5, <1>6, <1>9, <1>10 DEF Narrows
  <1> QED
    BY <1>3, <1>8, <1>11 DEF child

LEMMA CompiledType ==
  ASSUME NEW policy \in Policies
  PROVE  /\ Compile(policy) \in Authority /\ Compile(policy).parent = None
         /\ [Compile(policy) EXCEPT !.signed = FALSE] \in Authority
         /\ [Compile(policy) EXCEPT !.signed = FALSE].parent = None
         /\ ~[Compile(policy) EXCEPT !.signed = FALSE].signed
         /\ policy.remaining \in Nat
  <1>1. policy \in Policy
    BY IssuanceAssumption
  <1>2. Compile(policy) \in Authority /\ Compile(policy).parent = None
    <2>1. /\ policy.limit \in Nat /\ policy.expires \in Nat /\ policy.allow \in SUBSET STRING
          /\ policy.deny \in SUBSET STRING /\ policy.rules \in SUBSET STRING
          /\ policy.rateMax \in Nat /\ policy.ratePer \in Nat
          /\ policy.approved \in (SUBSET EffectIds) \cup {None}
      BY <1>1 DEF Policy
    <2>2. "agent" \in STRING /\ "USD" \in STRING /\ TRUE \in BOOLEAN
      BY IssuanceAssumption
    <2> QED
      BY <2>1, <2>2, RecordOfFields DEF Compile
  <1>3. policy.remaining \in Nat
    BY <1>1 DEF Policy
  <1> QED
    BY <1>2, <1>3 DEF Authority

LEMMA KeyType ==
  ASSUME IssuanceTypeOK, NEW p \in Processes
  PROVE  SigningKey(p) \in KeyIds \cup {None}
  <1>1. config[p] \in Configs /\ keyFile \in 0..MaxKeys /\ MaxKeys \in Nat
    BY IssuanceAssumption DEF IssuanceTypeOK
  <1>2. CASE config[p] = "environment"
    BY <1>2 DEF SigningKey, KeyIds
  <1>3. CASE config[p] # "environment" /\ keyFile > 0
    BY <1>1, <1>3 DEF SigningKey, KeyIds
  <1>4. CASE config[p] = "development" /\ keyFile = 0
    BY <1>4 DEF SigningKey, KeyIds
  <1>5. CASE config[p] = "bare" /\ keyFile = 0
    BY <1>5 DEF SigningKey
  <1> QED
    BY <1>1, <1>2, <1>3, <1>4, <1>5 DEF Configs

LEMMA ReadingType ==
  ASSUME IssuanceTypeOK, NEW p \in Processes, reading[p] # None
  PROVE  /\ reading[p] \in Snapshot /\ reading[p].id \in GrantIds /\ reading[p].row \in GrantRow
         /\ reading[p].row.auth \in Authority /\ reading[p].row.remaining \in Nat
         /\ reading[p].signer \in KeyIds \cup {None}
  BY DEF IssuanceTypeOK, Snapshot, GrantRow

LEMMA CoveredType ==
  ASSUME NEW token \in Token
  PROVE  /\ token.id \in GrantIds /\ token.auth \in Authority
         /\ token.signature.covered.id \in GrantIds
         /\ token.signature.covered.auth \in Authority
  BY DEF Token

LEMMA TokenType ==
  ASSUME NEW snapshot \in Snapshot, snapshot.signer # None, NEW version \in {"v1", "v2"}
  PROVE  /\ TokenOf(snapshot, version) \in Token
         /\ TokenOf(snapshot, version).signature.covered.id = snapshot.id
         /\ TokenOf(snapshot, version).signature.covered.auth = snapshot.row.auth
  <1> DEFINE live == [status |-> snapshot.row.status, remaining |-> snapshot.row.remaining]
             body == [id |-> snapshot.id, auth |-> snapshot.row.auth, live |-> live,
                      version |-> version]
             token == TokenOf(snapshot, version)
  <1>1. /\ snapshot.id \in GrantIds /\ snapshot.row.auth \in Authority
        /\ snapshot.row.status \in Statuses /\ snapshot.row.remaining \in Nat
        /\ snapshot.signer \in KeyIds
    BY DEF Snapshot, GrantRow
  <1>2. live \in Live
    BY <1>1 DEF Live
  <1>3. body.id = snapshot.id /\ body.auth = snapshot.row.auth /\ body.live = live
        /\ body.version = version
    OBVIOUS
  <1>4. token = [id |-> body.id, auth |-> body.auth, live |-> body.live, version |-> version,
                 signature |-> [key |-> snapshot.signer, covered |-> Covered(body)]]
    BY DEF TokenOf, Signature
  <1>5. /\ Covered(body) \in [id : GrantIds, auth : Authority]
                            \cup [id : GrantIds, auth : Authority, live : Live]
        /\ Covered(body).id = body.id /\ Covered(body).auth = body.auth
    <2> HIDE DEF live
    <2>1. CASE version = "v2"
      <3>1. Covered(body) = [id |-> body.id, auth |-> body.auth]
        BY <1>3, <2>1 DEF Covered, AuthorityPayload
      <3> HIDE DEF body
      <3> QED
        BY <1>1, <1>3, <3>1
    <2>2. CASE version # "v2"
      <3>1. Covered(body) = [id |-> body.id, auth |-> body.auth, live |-> body.live]
        BY <1>3, <2>2 DEF Covered, LegacyPayload
      <3> HIDE DEF body
      <3> QED
        BY <1>1, <1>2, <1>3, <3>1
    <2> QED
      BY <2>1, <2>2
  <1> HIDE DEF live, body, token
  <1> QED
    BY <1>1, <1>2, <1>3, <1>4, <1>5 DEF Token, token

-----------------------------------------------------------------------------
(* What a step of the store does to the stored authorities. *)

LEMMA InsertFacts ==
  ASSUME TypeOK, NEW g \in GrantIds, NEW row \in GrantRow, InsertGrant(g, row)
  PROVE  /\ OpenStep /\ g \notin Stored /\ Stored' = Stored \cup {g} /\ Auth(g)' = row.auth
         /\ \A o \in Stored : Auth(o)' = Auth(o)
  <1>1. Import(g)
    BY DEF Import
  <1>2. OpenStep
    BY <1>1 DEF OpenStep
  <1>3. row # None
    BY StoreAssumption
  <1>4. /\ g \notin Stored /\ grants'[g] = row /\ g \in GrantIds
        /\ \A o \in GrantIds : o # g => grants'[o] = grants[o]
    BY DEF InsertGrant, TypeOK, Stored
  <1>5. Stored' = Stored \cup {g}
    BY <1>3, <1>4 DEF Stored
  <1>6. Stored \subseteq GrantIds
    BY DEF Stored
  <1> QED
    BY <1>2, <1>4, <1>5, <1>6 DEF Auth

(* Spending, refunding and revoking change no authority.                   *)
LEMMA QuietFacts ==
  ASSUME TypeOK, NEW g \in GrantIds, NEW a \in ActionIds, NEW amount \in Amounts,
         Reserve(g, a, amount, None, now) \/ Release(g, a, amount)
  PROVE  /\ OpenStep /\ Stored' = Stored /\ \A o \in Stored : Auth(o)' = Auth(o)
  <1>1. CASE Reserve(g, a, amount, None, now)
    <2>1. OpenStep
      <3>1. now \in 0..now /\ None \in EffectIds \cup {None}
        BY DEF TypeOK
      <3> QED
        BY <1>1, <3>1 DEF OpenStep
    <2>2. ASSUME NEW o \in GrantIds, o \notin Stored
          PROVE  o \notin Stored'
      <3>1. o \notin Lineage(g)
        BY <1>1, <2>2 DEF Reserve, LineageSound
      <3> QED
        BY <1>1, <2>2, <3>1 DEF Reserve, Stored
    <2>3. ASSUME NEW o \in Stored
          PROVE  o \in Stored' /\ Auth(o)' = Auth(o)
      <3>1. o \in GrantIds /\ grants[o] \in GrantRow /\ o \in Stored'
        BY <2>1, StoredKept DEF Stored, TypeOK
      <3>2. CASE o \in Lineage(g)
        <4>1. grants'[o] = Debit(grants[o], amount)
          BY <1>1, <3>1, <3>2 DEF Reserve
        <4> QED
          BY <3>1, <4>1 DEF Debit, GrantRow, Auth
      <3>3. CASE o \notin Lineage(g)
        BY <1>1, <3>1, <3>3 DEF Reserve, Auth
      <3> QED
        BY <3>1, <3>2, <3>3
    <2> QED
      BY <2>1, <2>2, <2>3 DEF Stored
  <1>2. CASE Release(g, a, amount)
    <2>1. OpenStep
      BY <1>2 DEF OpenStep
    <2>2. SettleOwners(g, a, amount) /\ amount \in Int
      BY <1>2, StoreAssumption DEF Release
    <2>3. ASSUME NEW o \in GrantIds
          PROVE  /\ grants[o] = None <=> grants'[o] = None
                 /\ grants[o] # None => grants'[o].auth = grants[o].auth
      BY <2>2, SettleOwner DEF Stored, Auth
    <2> QED
      BY <2>1, <2>3 DEF Stored, Auth
  <1> QED
    BY <1>1, <1>2

LEMMA RevokeFacts ==
  ASSUME TypeOK, NEW g \in GrantIds, Revoke(g)
  PROVE  /\ OpenStep /\ Stored' = Stored /\ \A o \in Stored : Auth(o)' = Auth(o)
  <1>1. OpenStep
    BY DEF OpenStep
  <1>2. /\ grants[g] \in GrantRow /\ g \in Stored
        /\ grants' = [grants EXCEPT ![g].status = "REVOKED"]
    BY DEF Revoke, SetStatus, Stored, TypeOK
  <1>3. g \in Stored' /\ Auth(g)' = Auth(g)
    <2>1. g \in Stored'
      BY <1>1, <1>2, StoredKept
    <2> QED
      BY <1>2, <2>1 DEF TypeOK, GrantRow, Auth
  <1>4. \A o \in GrantIds : o # g => grants'[o] = grants[o]
    BY <1>2 DEF TypeOK
  <1> QED
    BY <1>1, <1>2, <1>3, <1>4 DEF Stored, Auth

(* A grant never has more left than its limit.                             *)
LEMMA RemainingBound ==
  ASSUME MoneyInv, NEW g \in Stored
  PROVE  grants[g].remaining <= Auth(g).limit
  <1>1. g \in GrantIds /\ grants[g] \in GrantRow /\ Books(g) /\ TypeOK
    BY DEF MoneyInv, Stored, TypeOK
  <1>2. /\ grants[g].remaining \in Nat /\ overrun[g] \in Nat /\ opening[g] \in Nat
        /\ Auth(g).limit \in Nat
    BY <1>1 DEF TypeOK, GrantRow, Auth, Authority
  <1>3. ExcessUnits(g) \subseteq ChargedUnits(g)
    <2>1. \A a \in ChargedTo(g) : a \in Held
      BY DEF ChargedTo
    <2>2. \A a \in Held : Excess[a] \in Nat /\ Cost[a] \in Nat /\ Excess[a] <= Cost[a]
      <3> TAKE a \in Held
      <3>1. rateEvents[a].reserved \in Nat /\ Cost[a] \in Nat /\ Excess[a] \in Nat
        BY <1>1, ChargesType
      <3>2. Excess[a] = PosPart(Cost[a] - rateEvents[a].reserved)
        BY DEF Excess
      <3> QED
        BY <3>1, <3>2 DEF PosPart
    <2>3. \A a \in ChargedTo(g) : 1..Excess[a] \subseteq 1..Cost[a]
      BY <2>1, <2>2
    <2> QED
      BY <2>3 DEF ExcessUnits, ChargedUnits, UnitsOf
  <1>4. /\ Cardinality(ExcessUnits(g)) <= Cardinality(ChargedUnits(g))
        /\ Cardinality(ExcessUnits(g)) \in Nat /\ Cardinality(ChargedUnits(g)) \in Nat
    BY <1>1, <1>3, FS_Subset, FS_CardinalityType DEF Books
  <1>5. /\ overrun[g] <= Cardinality(ExcessUnits(g)) /\ opening[g] <= Auth(g).limit
        /\ grants[g].remaining - overrun[g] + Cardinality(ChargedUnits(g)) = opening[g]
    BY <1>1 DEF Books
  <1> QED
    BY <1>2, <1>4, <1>5

-----------------------------------------------------------------------------
(* The invariant is inductive. *)

(* What a step must show: the rest follows from what the store keeps.      *)
LEMMA FrameInv ==
  ASSUME IssuanceInv, [OpenStep]_storeVars, UNCHANGED config, keyFile' \in 0..MaxKeys,
         signer' \in [GrantIds -> KeyIds \cup {None}], SignedHaveKeys',
         reading' \in [Processes -> Snapshot \cup {None}],
         \A p \in Processes : reading'[p] \in {None, reading[p]} \/ ReadingTrue(p)',
         tokens' \subseteq Token,
         \A token \in tokens' : token \in tokens \/ TokenTrue(token)',
         \A g \in Stored' : g \in Stored \/ NarrowsParent(g)'
  PROVE  IssuanceInv'
  <1>1. /\ IssuanceTypeOK /\ TypeOK /\ MoneyInv /\ ReadingsTrue /\ TokensTrue
        /\ DelegationNarrows
    BY DEF IssuanceInv, IssuanceTypeOK
  <1>2. TypeOK' /\ MoneyInv'
    BY <1>1, MoneyKept DEF MoneyInv
  <1>3. IssuanceTypeOK'
    BY <1>1, <1>2 DEF IssuanceTypeOK
  <1>4. ASSUME NEW p \in Processes
        PROVE  ReadingTrue(p)'
    <2>1. CASE reading'[p] = None
      BY <2>1 DEF ReadingTrue
    <2>2. CASE reading'[p] = reading[p] /\ reading[p] # None
      <3>1. ReadingTrue(p)
        BY <1>1 DEF ReadingsTrue
      <3>2. PICK id \in Stored : id = reading[p].id
        BY <2>2, <3>1 DEF ReadingTrue
      <3>3. id \in Stored' /\ Same(Auth(id), Auth(id)')
        BY <1>1, StoredKept
      <3>4. Same(reading[p].row.auth, Auth(id)')
        BY <2>2, <3>1, <3>2, <3>3 DEF ReadingTrue, Same
      <3> QED
        BY <2>2, <3>1, <3>2, <3>3, <3>4 DEF ReadingTrue, Auth
    <2> QED
      BY <2>1, <2>2
  <1>5. ASSUME NEW token \in tokens'
        PROVE  TokenTrue(token)'
    <2>1. CASE token \in tokens
      <3>1. TokenTrue(token)
        BY <1>1, <2>1 DEF TokensTrue
      <3>2. PICK id \in Stored : id = token.signature.covered.id
        BY <3>1 DEF TokenTrue
      <3>3. id \in Stored' /\ Same(Auth(id), Auth(id)')
        BY <1>1, StoredKept
      <3>4. Same(token.signature.covered.auth, Auth(id)')
        BY <3>1, <3>2, <3>3 DEF TokenTrue, Same
      <3> QED
        BY <3>2, <3>3, <3>4 DEF TokenTrue, Auth
    <2> QED
      BY <2>1
  <1>6. ASSUME NEW g \in Stored'
        PROVE  NarrowsParent(g)'
    <2>1. CASE g \in Stored
      <3>1. /\ Auth(g) \in Authority /\ Auth(g)' \in Authority
            /\ Same(Auth(g), Auth(g)')
        BY <1>1, <2>1, StoredKept
      <3>2. Auth(g)'.parent = Auth(g).parent
        BY <3>1, SameFields
      <3>3. CASE Auth(g).parent # None
        <4>1. PICK o \in Stored : o = Auth(g).parent
          BY <1>1, <2>1, <3>3 DEF DelegationNarrows
        <4>2. Narrows(Auth(g), Auth(o))
          BY <1>1, <2>1, <3>3, <4>1 DEF DelegationNarrows
        <4>3. /\ o \in Stored' /\ Auth(o) \in Authority /\ Auth(o)' \in Authority
              /\ Same(Auth(o), Auth(o)')
          BY <1>1, StoredKept
        <4>4. Narrows(Auth(g)', Auth(o)')
          BY <3>1, <4>2, <4>3, SameNarrows
        <4> QED
          BY <3>2, <4>1, <4>3, <4>4 DEF NarrowsParent, Auth
      <3>4. CASE Auth(g).parent = None
        BY <3>2, <3>4 DEF NarrowsParent
      <3> QED
        BY <3>3, <3>4
    <2> QED
      BY <2>1
  <1>7. ReadingsTrue' /\ TokensTrue' /\ DelegationNarrows'
    BY <1>4, <1>5, <1>6 DEF ReadingsTrue, TokensTrue, DelegationNarrows, NarrowsParent
  <1> QED
    BY <1>2, <1>3, <1>7 DEF IssuanceInv

LEMMA SameSelf ==
  ASSUME NEW a
  PROVE  Same(a, a)
  BY DEF Same

LEMMA InvFacts ==
  ASSUME IssuanceInv
  PROVE  /\ IssuanceTypeOK /\ TypeOK /\ MoneyInv /\ SignedHaveKeys /\ ReadingsTrue /\ TokensTrue
         /\ DelegationNarrows /\ Stored \subseteq GrantIds
         /\ keyFile \in 0..MaxKeys /\ tokens \subseteq Token
         /\ signer \in [GrantIds -> KeyIds \cup {None}]
         /\ reading \in [Processes -> Snapshot \cup {None}]
  BY DEF IssuanceInv, IssuanceTypeOK, Stored

(* A grant is stored, with a signature or without one.                     *)
LEMMA InsertedInv ==
  ASSUME IssuanceInv, NEW g \in GrantIds, NEW row \in GrantRow, InsertGrant(g, row),
         NEW key \in KeyIds \cup {None}, signer' = [signer EXCEPT ![g] = key],
         row.auth.signed => key # None,
         UNCHANGED <<keyFile, config, tokens>>,
         reading' \in [Processes -> Snapshot \cup {None}],
         \A p \in Processes : reading'[p] \in {None, reading[p]},
         row.auth.parent # None =>
             row.auth.parent \in Stored /\ Narrows(row.auth, Auth(row.auth.parent))
  PROVE  IssuanceInv' /\ [OpenStep]_storeVars
  <1>1. /\ OpenStep /\ g \notin Stored /\ Stored' = Stored \cup {g} /\ Auth(g)' = row.auth
        /\ \A o \in Stored : Auth(o)' = Auth(o)
    BY InvFacts, InsertFacts
  <1>2. /\ signer' \in [GrantIds -> KeyIds \cup {None}] /\ signer'[g] = key
        /\ \A o \in GrantIds : o # g => signer'[o] = signer[o]
    BY InvFacts
  <1>3. SignedHaveKeys'
    <2>1. ASSUME NEW o \in Stored'
          PROVE  Auth(o)'.signed => signer'[o] # None
      <3>1. CASE o = g
        BY <1>1, <1>2, <3>1
      <3>2. CASE o \in Stored
        BY <1>1, <1>2, <3>2, InvFacts DEF SignedHaveKeys
      <3> QED
        BY <1>1, <3>1, <3>2
    <2> QED
      BY <2>1 DEF SignedHaveKeys
  <1>4. NarrowsParent(g)'
    <2>1. CASE row.auth.parent = None
      BY <1>1, <2>1 DEF NarrowsParent
    <2>2. CASE row.auth.parent # None
      <3>1. PICK o \in Stored : o = row.auth.parent
        BY <2>2
      <3>2. o \in Stored' /\ Auth(o)' = Auth(o) /\ Narrows(row.auth, Auth(o))
        BY <1>1, <2>2, <3>1
      <3> QED
        BY <1>1, <3>1, <3>2 DEF NarrowsParent, Auth
    <2> QED
      BY <2>1, <2>2
  <1>5. \A o \in Stored' : o \in Stored \/ NarrowsParent(o)'
    BY <1>1, <1>4
  <1>6. keyFile' \in 0..MaxKeys /\ tokens' \subseteq Token
    BY InvFacts
  <1>7. \A p \in Processes : reading'[p] \in {None, reading[p]} \/ ReadingTrue(p)'
    OBVIOUS
  <1>8. \A token \in tokens' : token \in tokens \/ TokenTrue(token)'
    OBVIOUS
  <1> QED
    BY <1>1, <1>2, <1>3, <1>5, <1>6, <1>7, <1>8, FrameInv

LEMMA IssueInv ==
  ASSUME IssuanceInv, NEW p \in Processes, NEW g \in GrantIds, NEW policy \in Policies,
         Issue(p, g, policy)
  PROVE  IssuanceInv' /\ [OpenStep]_storeVars
  <1> DEFINE row == [auth |-> Compile(policy), status |-> "ACTIVE",
                     remaining |-> policy.remaining]
  <1>1. row \in GrantRow /\ row.auth.parent = None
    BY CompiledType DEF GrantRow, Statuses
  <1>2. PICK key \in KeyIds \cup {None} : key = SigningKey(p)
    BY InvFacts, KeyType
  <1>3. /\ InsertGrant(g, row) /\ key # None /\ signer' = [signer EXCEPT ![g] = key]
        /\ UNCHANGED <<keyFile, config, reading, tokens>>
    BY <1>2 DEF Issue, Sign
  <1>4. /\ reading' \in [Processes -> Snapshot \cup {None}]
        /\ \A q \in Processes : reading'[q] \in {None, reading[q]}
    BY <1>3, InvFacts
  <1> HIDE DEF row
  <1> QED
    BY <1>1, <1>3, <1>4, InsertedInv

LEMMA ImportUnsignedInv ==
  ASSUME IssuanceInv, NEW g \in GrantIds, NEW policy \in Policies, ImportUnsigned(g, policy)
  PROVE  IssuanceInv' /\ [OpenStep]_storeVars
  <1> DEFINE row == [auth |-> [Compile(policy) EXCEPT !.signed = FALSE], status |-> "ACTIVE",
                     remaining |-> policy.remaining]
  <1>1. row \in GrantRow /\ row.auth.parent = None /\ ~row.auth.signed
    BY CompiledType DEF GrantRow, Statuses
  <1>2. /\ InsertGrant(g, row) /\ UNCHANGED <<signer, keyFile, config, reading, tokens>>
    BY DEF ImportUnsigned
  <1>3. PICK key \in KeyIds \cup {None} : key = signer[g]
    BY InvFacts
  <1>4. signer' = [signer EXCEPT ![g] = key]
    BY <1>2, <1>3, InvFacts
  <1>5. /\ reading' \in [Processes -> Snapshot \cup {None}]
        /\ \A q \in Processes : reading'[q] \in {None, reading[q]}
    BY <1>2, InvFacts
  <1> HIDE DEF row
  <1> QED
    BY <1>1, <1>2, <1>4, <1>5, InsertedInv

LEMMA AttenuateInv ==
  ASSUME IssuanceInv, NEW p \in Processes, NEW g \in GrantIds, NEW request \in Requests,
         Attenuate(p, g, request)
  PROVE  IssuanceInv' /\ [OpenStep]_storeVars
  <1>1. reading[p] # None /\ ReadingTrue(p) /\ request \in AttenuateRequest
    BY InvFacts, IssuanceAssumption DEF Attenuate, ReadingsTrue
  <1>2. PICK id \in Stored : id = reading[p].id
    BY <1>1 DEF ReadingTrue
  <1>3. PICK old \in GrantRow : old = reading[p].row
    BY <1>1, InvFacts, ReadingType
  <1>4. PICK auth : auth = Attenuated(id, old, request)
    OBVIOUS
  <1> DEFINE row == [auth |-> auth, status |-> "ACTIVE", remaining |-> auth.limit]
  <1>5. id \in GrantIds /\ old.remaining <= old.auth.limit /\ MayAttenuate(old, request)
    BY <1>1, <1>2, <1>3, InvFacts DEF Attenuate, ReadingTrue
  <1>6. auth \in Authority /\ auth.parent = id /\ auth.signed = TRUE /\ Narrows(auth, old.auth)
    BY <1>1, <1>4, <1>5, AttenuatedNarrows
  <1>7. Same(old.auth, Auth(id)) /\ old.auth \in Authority /\ Auth(id) \in Authority
    BY <1>1, <1>2, <1>3, InvFacts DEF ReadingTrue, Stored, Auth, TypeOK, GrantRow
  <1>8. Narrows(auth, Auth(id))
    BY <1>6, <1>7, SameSelf, SameNarrows
  <1>9. PICK key \in KeyIds \cup {None} : key = SigningKey(p)
    BY InvFacts, KeyType
  <1>10. /\ InsertGrant(g, row) /\ key # None /\ signer' = [signer EXCEPT ![g] = key]
         /\ reading' = [reading EXCEPT ![p] = None] /\ UNCHANGED <<keyFile, config, tokens>>
    BY <1>2, <1>3, <1>4, <1>9 DEF Attenuate, Sign
  <1>11. row \in GrantRow /\ row.auth = auth
    <2>1. auth.limit \in Nat
      BY <1>6 DEF Authority
    <2> QED
      BY <1>6, <2>1 DEF GrantRow, Statuses
  <1>12. /\ reading' \in [Processes -> Snapshot \cup {None}]
         /\ \A q \in Processes : reading'[q] \in {None, reading[q]}
    BY <1>10, InvFacts
  <1> HIDE DEF row
  <1> QED
    BY <1>6, <1>8, <1>10, <1>11, <1>12, InsertedInv

(* Nothing is stored and no authority changes.                             *)
LEMMA QuietInv ==
  ASSUME IssuanceInv, [OpenStep]_storeVars, Stored' = Stored,
         \A o \in Stored : Auth(o)' = Auth(o),
         UNCHANGED <<signer, config>>, keyFile' \in 0..MaxKeys,
         reading' \in [Processes -> Snapshot \cup {None}],
         \A p \in Processes : reading'[p] \in {None, reading[p]} \/ ReadingTrue(p)',
         tokens' \subseteq Token,
         \A token \in tokens' : token \in tokens \/ TokenTrue(token)'
  PROVE  IssuanceInv' /\ [OpenStep]_storeVars
  <1>1. SignedHaveKeys'
    <2>1. \A o \in Stored' : Auth(o)'.signed => signer'[o] # None
      BY InvFacts DEF SignedHaveKeys
    <2> QED
      BY <2>1 DEF SignedHaveKeys
  <1>2. signer' \in [GrantIds -> KeyIds \cup {None}]
    BY InvFacts
  <1>3. \A o \in Stored' : o \in Stored \/ NarrowsParent(o)'
    OBVIOUS
  <1> QED
    BY <1>1, <1>2, <1>3, FrameInv

LEMMA UseInv ==
  ASSUME IssuanceInv, NEW g \in GrantIds,
         \/ \E p \in Processes, a \in ActionIds, amount \in Amounts : Spend(p, g, a, amount)
         \/ \E a \in ActionIds, claimed \in Amounts : Refund(g, a, claimed)
         \/ RevokeByCommand(g)
  PROVE  IssuanceInv' /\ [OpenStep]_storeVars
  <1>1. /\ OpenStep /\ Stored' = Stored /\ \A o \in Stored : Auth(o)' = Auth(o)
        /\ UNCHANGED <<signer, keyFile, config, reading, tokens>>
    <2>1. CASE \E p \in Processes, a \in ActionIds, amount \in Amounts : Spend(p, g, a, amount)
      BY <2>1, InvFacts, QuietFacts DEF Spend
    <2>2. CASE \E a \in ActionIds, claimed \in Amounts : Refund(g, a, claimed)
      BY <2>2, InvFacts, QuietFacts DEF Refund
    <2>3. CASE RevokeByCommand(g)
      BY <2>3, InvFacts, RevokeFacts DEF RevokeByCommand
    <2> QED
      BY <2>1, <2>2, <2>3
  <1>2. /\ keyFile' \in 0..MaxKeys /\ tokens' \subseteq Token
        /\ reading' \in [Processes -> Snapshot \cup {None}]
        /\ \A p \in Processes : reading'[p] \in {None, reading[p]} \/ ReadingTrue(p)'
        /\ \A token \in tokens' : token \in tokens \/ TokenTrue(token)'
    BY <1>1, InvFacts
  <1> QED
    BY <1>1, <1>2, QuietInv

LEMMA StoreSame ==
  ASSUME UNCHANGED storeVars
  PROVE  /\ [OpenStep]_storeVars /\ Stored' = Stored /\ \A o \in Stored : Auth(o)' = Auth(o)
  BY DEF storeVars, Stored, Auth

LEMMA SnapshotType ==
  ASSUME NEW g \in GrantIds, NEW row \in GrantRow, NEW key \in KeyIds \cup {None}
  PROVE  [id |-> g, row |-> row, signer |-> key] \in Snapshot
  BY DEF Snapshot

LEMMA SignedRowType ==
  ASSUME NEW row \in GrantRow
  PROVE  /\ SignedRow(row) \in GrantRow
         /\ SignedRow(row).auth = [row.auth EXCEPT !.signed = TRUE]
  <1>1. row.auth \in Authority
    BY DEF GrantRow
  <1>2. [row.auth EXCEPT !.signed = TRUE] \in Authority
    BY <1>1, SignedSame
  <1>3. SignedRow(row) \in GrantRow
    BY <1>2 DEF SignedRow, GrantRow
  <1>4. SignedRow(row).auth = [row.auth EXCEPT !.signed = TRUE]
    BY DEF SignedRow, GrantRow
  <1> QED
    BY <1>3, <1>4

LEMMA ReadInv ==
  ASSUME IssuanceInv, NEW p \in Processes, NEW g \in GrantIds, Read(p, g)
  PROVE  IssuanceInv' /\ [OpenStep]_storeVars
  <1>1. /\ g \in Stored /\ UNCHANGED <<storeVars, signer, keyFile, config, tokens>>
        /\ reading' = [reading EXCEPT ![p] = [id |-> g, row |-> grants[g], signer |-> signer[g]]]
    BY DEF Read
  <1>2. PICK row \in GrantRow : row = grants[g]
    BY <1>1, InvFacts DEF Stored, TypeOK
  <1>3. PICK snapshot \in Snapshot :
           /\ snapshot = [id |-> g, row |-> row, signer |-> signer[g]]
           /\ snapshot.id = g /\ snapshot.row = row /\ snapshot.signer = signer[g]
    <2>1. signer[g] \in KeyIds \cup {None}
      BY InvFacts
    <2>2. PICK snapshot \in Snapshot : snapshot = [id |-> g, row |-> row, signer |-> signer[g]]
      BY <2>1, SnapshotType
    <2>3. snapshot.id = g /\ snapshot.row = row /\ snapshot.signer = signer[g]
      BY <2>2
    <2> QED
      BY <2>2, <2>3
  <1>4. /\ reading'[p] = snapshot /\ reading' \in [Processes -> Snapshot \cup {None}]
        /\ \A q \in Processes : q # p => reading'[q] = reading[q]
    BY <1>1, <1>2, <1>3, InvFacts
  <1>5. /\ row.auth = Auth(g) /\ row.remaining <= row.auth.limit
        /\ row.auth.signed => signer[g] # None
    BY <1>1, <1>2, InvFacts, RemainingBound DEF Auth, SignedHaveKeys
  <1>6. Stored' = Stored /\ Auth(g)' = Auth(g)
    BY <1>1, StoreSame
  <1>7. ReadingTrue(p)'
    <2>1. Same(snapshot.row.auth, Auth(g)')
      BY <1>3, <1>5, <1>6, SameSelf
    <2> QED
      BY <1>1, <1>3, <1>4, <1>5, <1>6, <2>1 DEF ReadingTrue, Auth
  <1>8. /\ keyFile' \in 0..MaxKeys /\ tokens' \subseteq Token
        /\ \A q \in Processes : reading'[q] \in {None, reading[q]} \/ ReadingTrue(q)'
        /\ \A token \in tokens' : token \in tokens \/ TokenTrue(token)'
    BY <1>1, <1>4, <1>7, InvFacts
  <1> QED
    BY <1>1, <1>4, <1>8, StoreSame, QuietInv

LEMMA DeclineInv ==
  ASSUME IssuanceInv, NEW p \in Processes, Decline(p)
  PROVE  IssuanceInv' /\ [OpenStep]_storeVars
  <1>1. /\ UNCHANGED <<storeVars, signer, keyFile, config, tokens>>
        /\ reading' = [reading EXCEPT ![p] = None]
    BY DEF Decline
  <1>2. /\ reading' \in [Processes -> Snapshot \cup {None}]
        /\ \A q \in Processes : reading'[q] \in {None, reading[q]} \/ ReadingTrue(q)'
        /\ keyFile' \in 0..MaxKeys /\ tokens' \subseteq Token
        /\ \A token \in tokens' : token \in tokens \/ TokenTrue(token)'
    BY <1>1, InvFacts
  <1> QED
    BY <1>1, <1>2, StoreSame, QuietInv

LEMMA MintInv ==
  ASSUME IssuanceInv, NEW p \in Processes, Mint(p) \/ MintLegacy(p)
  PROVE  IssuanceInv' /\ [OpenStep]_storeVars
  <1>1. PICK version \in {"v1", "v2"} :
           /\ reading[p] # None /\ Circulate(TokenOf(reading[p], version))
           /\ reading[p].row.auth.signed \/ reading[p].signer # None
           /\ reading' = [reading EXCEPT ![p] = None]
           /\ UNCHANGED <<storeVars, signer, keyFile, config>>
    BY DEF Mint, MintLegacy
  <1>2. ReadingTrue(p) /\ reading[p] \in Snapshot
    BY <1>1, InvFacts DEF ReadingsTrue
  <1>3. PICK snapshot \in Snapshot : snapshot = reading[p]
    BY <1>2
  <1>4. snapshot.signer # None
    BY <1>1, <1>2, <1>3 DEF ReadingTrue
  <1>5. PICK new \in Token : /\ new = TokenOf(snapshot, version)
                             /\ new.signature.covered.id = snapshot.id
                             /\ new.signature.covered.auth = snapshot.row.auth
    BY <1>4, TokenType
  <1>6. tokens' = tokens \cup {new}
    BY <1>1, <1>3, <1>5 DEF Circulate
  <1>7. Stored' = Stored /\ \A o \in Stored : Auth(o)' = Auth(o)
    BY <1>1, StoreSame
  <1>8. TokenTrue(new)'
    <2>1. PICK id \in Stored : id = snapshot.id
      BY <1>1, <1>2, <1>3 DEF ReadingTrue
    <2>2. Same(snapshot.row.auth, Auth(id)')
      BY <1>1, <1>2, <1>3, <1>7, <2>1 DEF ReadingTrue
    <2> QED
      BY <1>5, <1>7, <2>1, <2>2 DEF TokenTrue, Auth
  <1>9. /\ reading' \in [Processes -> Snapshot \cup {None}]
        /\ \A q \in Processes : reading'[q] \in {None, reading[q]} \/ ReadingTrue(q)'
        /\ keyFile' \in 0..MaxKeys /\ tokens' \subseteq Token
        /\ \A token \in tokens' : token \in tokens \/ TokenTrue(token)'
    BY <1>1, <1>6, <1>8, InvFacts
  <1> QED
    BY <1>1, <1>7, <1>9, StoreSame, QuietInv

LEMMA InitKeyInv ==
  ASSUME IssuanceInv, NEW force \in BOOLEAN, InitKey(force)
  PROVE  IssuanceInv' /\ [OpenStep]_storeVars
  <1>1. keyFile' \in 0..MaxKeys /\ UNCHANGED <<storeVars, signer, config, reading, tokens>>
    BY InvFacts, IssuanceAssumption DEF InitKey
  <1>2. /\ reading' \in [Processes -> Snapshot \cup {None}]
        /\ \A q \in Processes : reading'[q] \in {None, reading[q]} \/ ReadingTrue(q)'
        /\ tokens' \subseteq Token
        /\ \A token \in tokens' : token \in tokens \/ TokenTrue(token)'
    BY <1>1, InvFacts
  <1> QED
    BY <1>1, <1>2, StoreSame, QuietInv

(* An unsigned grant gets its signature, or had the same one already.      *)
LEMMA SignAndMintInv ==
  ASSUME IssuanceInv, NEW p \in Processes, SignAndMint(p)
  PROVE  IssuanceInv' /\ [OpenStep]_storeVars
  <1>1. reading[p] # None /\ ReadingTrue(p) /\ reading[p] \in Snapshot
    BY InvFacts DEF SignAndMint, ReadingsTrue
  <1>2. PICK g \in Stored : g = reading[p].id
    BY <1>1 DEF ReadingTrue
  <1>3. PICK old \in GrantRow : old = reading[p].row
    BY <1>1, InvFacts, ReadingType
  <1>4. PICK key \in KeyIds : key = SigningKey(p)
    BY InvFacts, KeyType DEF SignAndMint
  <1>5. PICK row \in GrantRow : row = SignedRow(old) /\ row.auth = [old.auth EXCEPT !.signed = TRUE]
    BY SignedRowType
  <1>6. PICK snapshot \in Snapshot :
           /\ snapshot = [id |-> g, row |-> row, signer |-> key]
           /\ snapshot.id = g /\ snapshot.row = row /\ snapshot.signer = key
    <2>1. g \in GrantIds /\ key \in KeyIds \cup {None}
      BY DEF Stored
    <2>2. PICK snapshot \in Snapshot : snapshot = [id |-> g, row |-> row, signer |-> key]
      BY <2>1, SnapshotType
    <2>3. snapshot.id = g /\ snapshot.row = row /\ snapshot.signer = key
      BY <2>2
    <2> QED
      BY <2>2, <2>3
  <1>7. /\ AttachSignature(g, row) \/ UNCHANGED storeVars
        /\ signer' = [signer EXCEPT ![g] = key] /\ Circulate(TokenOf(snapshot, "v2"))
        /\ reading' = [reading EXCEPT ![p] = None] /\ UNCHANGED <<keyFile, config>>
    BY <1>2, <1>3, <1>4, <1>5, <1>6 DEF SignAndMint, Sign
  <1>8. /\ [OpenStep]_storeVars /\ Stored' = Stored
        /\ \A o \in Stored : o # g => Auth(o)' = Auth(o)
    <2>1. CASE UNCHANGED storeVars
      BY <2>1, StoreSame
    <2>2. CASE AttachSignature(g, row)
      <3>1. g \in GrantIds /\ grants[g] \in GrantRow
        BY InvFacts DEF Stored, TypeOK
      <3>2. OpenStep
        BY <2>2, <3>1 DEF OpenStep, Import
      <3>3. g \in Stored'
        BY <3>2, InvFacts, StoredKept
      <3>4. \A o \in GrantIds : o # g => grants'[o] = grants[o]
        BY <2>2, InvFacts DEF AttachSignature, TypeOK
      <3> QED
        BY <3>2, <3>3, <3>4 DEF Stored, Auth
    <2> QED
      BY <1>7, <2>1, <2>2
  <1>9. /\ key # None /\ signer' \in [GrantIds -> KeyIds \cup {None}] /\ signer'[g] = key
        /\ \A o \in Stored : o # g => signer'[o] = signer[o]
    BY <1>7, InvFacts, IssuanceAssumption
  <1>10. SignedHaveKeys'
    <2>1. \A o \in Stored' : Auth(o)'.signed => signer'[o] # None
      BY <1>8, <1>9, InvFacts DEF SignedHaveKeys
    <2> QED
      BY <2>1 DEF SignedHaveKeys
  <1>11. PICK new \in Token : /\ new = TokenOf(snapshot, "v2")
                              /\ new.signature.covered.id = g
                              /\ new.signature.covered.auth = row.auth
    BY <1>6, <1>9, TokenType
  <1>12. tokens' = tokens \cup {new}
    BY <1>7, <1>11 DEF Circulate
  <1>13. TokenTrue(new)'
    <2>1. Same(row.auth, old.auth)
      <3>1. old.auth \in Authority
        BY DEF GrantRow
      <3> QED
        BY <1>5, <3>1, SignedSame DEF Same
    <2>2. Same(old.auth, Auth(g)) /\ Same(Auth(g), Auth(g)')
      BY <1>1, <1>2, <1>3, <1>8, InvFacts, StoredKept DEF ReadingTrue
    <2>3. Same(row.auth, Auth(g)')
      BY <2>1, <2>2 DEF Same
    <2> QED
      BY <1>8, <1>11, <2>3 DEF TokenTrue, Auth
  <1>14. /\ reading' \in [Processes -> Snapshot \cup {None}]
         /\ \A q \in Processes : reading'[q] \in {None, reading[q]} \/ ReadingTrue(q)'
         /\ keyFile' \in 0..MaxKeys /\ tokens' \subseteq Token
         /\ \A token \in tokens' : token \in tokens \/ TokenTrue(token)'
         /\ \A o \in Stored' : o \in Stored \/ NarrowsParent(o)'
    BY <1>7, <1>8, <1>12, <1>13, InvFacts
  <1> QED
    BY <1>7, <1>8, <1>9, <1>10, <1>14, FrameInv

LEMMA IssuanceStep ==
  ASSUME IssuanceInv, [IssuanceNext]_issuanceVars
  PROVE  IssuanceInv' /\ [OpenStep]_storeVars
  <1>1. CASE UNCHANGED issuanceVars
    <2>1. UNCHANGED <<storeVars, signer, keyFile, config, reading, tokens>>
      BY <1>1 DEF issuanceVars
    <2>2. /\ reading' \in [Processes -> Snapshot \cup {None}]
          /\ \A q \in Processes : reading'[q] \in {None, reading[q]} \/ ReadingTrue(q)'
          /\ keyFile' \in 0..MaxKeys /\ tokens' \subseteq Token
          /\ \A token \in tokens' : token \in tokens \/ TokenTrue(token)'
      BY <2>1, InvFacts
    <2> QED
      BY <2>1, <2>2, StoreSame, QuietInv
  <1>2. ASSUME NEW p \in Processes, NEW g \in GrantIds, NEW policy \in Policies,
               Issue(p, g, policy)
        PROVE  IssuanceInv' /\ [OpenStep]_storeVars
    BY <1>2, IssueInv
  <1>3. ASSUME NEW g \in GrantIds, NEW policy \in Policies, ImportUnsigned(g, policy)
        PROVE  IssuanceInv' /\ [OpenStep]_storeVars
    BY <1>3, ImportUnsignedInv
  <1>4. ASSUME NEW p \in Processes, NEW g \in GrantIds,
               Read(p, g) \/ AttenuateByCommand(p, g) \/ AttenuateByControlPlane(p, g)
        PROVE  IssuanceInv' /\ [OpenStep]_storeVars
    <2>1. CASE Read(p, g)
      BY <2>1, ReadInv
    <2>2. CASE AttenuateByCommand(p, g) \/ AttenuateByControlPlane(p, g)
      <3>1. PICK request \in Requests : Attenuate(p, g, request)
        BY <2>2 DEF AttenuateByCommand, AttenuateByControlPlane, CommandRequests
      <3> QED
        BY <3>1, AttenuateInv
    <2> QED
      BY <1>4, <2>1, <2>2
  <1>5. ASSUME NEW p \in Processes, Decline(p) \/ Mint(p) \/ SignAndMint(p) \/ MintLegacy(p)
        PROVE  IssuanceInv' /\ [OpenStep]_storeVars
    BY <1>5, DeclineInv, MintInv, SignAndMintInv
  <1>6. ASSUME NEW g \in GrantIds,
               \/ \E p \in Processes, a \in ActionIds, amount \in Amounts :
                     Spend(p, g, a, amount)
               \/ \E a \in ActionIds, claimed \in Amounts : Refund(g, a, claimed)
               \/ RevokeByCommand(g)
        PROVE  IssuanceInv' /\ [OpenStep]_storeVars
    BY <1>6, UseInv
  <1>7. ASSUME NEW force \in BOOLEAN, InitKey(force)
        PROVE  IssuanceInv' /\ [OpenStep]_storeVars
    BY <1>7, InitKeyInv
  <1> QED
    BY <1>1, <1>2, <1>3, <1>4, <1>5, <1>6, <1>7 DEF IssuanceNext

LEMMA IssuanceStarts == IssuanceInit => IssuanceInv
  <1> SUFFICES ASSUME IssuanceInit PROVE IssuanceInv
    OBVIOUS
  <1>1. MoneyInv /\ TypeOK
    BY MoneyInit DEF IssuanceInit, MoneyInv
  <1>2. Stored = {}
    BY DEF IssuanceInit, Init, Stored
  <1>3. IssuanceTypeOK
    BY <1>1, IssuanceAssumption DEF IssuanceInit, IssuanceTypeOK
  <1>4. ReadingsTrue /\ TokensTrue
    BY DEF IssuanceInit, ReadingsTrue, ReadingTrue, TokensTrue
  <1>5. SignedHaveKeys /\ DelegationNarrows
    BY <1>2 DEF SignedHaveKeys, DelegationNarrows
  <1> QED
    BY <1>1, <1>3, <1>4, <1>5 DEF IssuanceInv

LEMMA IssuanceSafe == IssuanceSpec => []IssuanceInv
  <1>1. IssuanceInv /\ [IssuanceNext]_issuanceVars => IssuanceInv'
    BY IssuanceStep
  <1> QED
    BY <1>1, IssuanceStarts, PTL DEF IssuanceSpec

-----------------------------------------------------------------------------
(* What damage in transit cannot touch is the signature.                   *)
LEMMA DamagedKeepsSignature ==
  ASSUME NEW token \in Token, NEW presented \in Damaged(token)
  PROVE  presented.signature = token.signature
  <1>1. \A g \in GrantIds : [token EXCEPT !.id = g].signature = token.signature
    BY DEF Token
  <1>2. /\ [token EXCEPT !.auth.limit = @ + 1].signature = token.signature
        /\ [token EXCEPT !.auth.expires = @ + 1].signature = token.signature
    BY DEF Token
  <1>3. /\ [token EXCEPT !.auth.allow = {}].signature = token.signature
        /\ [token EXCEPT !.auth.deny = {}].signature = token.signature
    BY DEF Token
  <1>4. /\ [token EXCEPT !.auth.rateMax = 0].signature = token.signature
        /\ [token EXCEPT !.auth.approved = None].signature = token.signature
    BY DEF Token
  <1>5. \A s \in Statuses :
           [token EXCEPT !.live = [status |-> s, remaining |-> token.live.remaining]].signature
              = token.signature
    BY DEF Token
  <1>6. \A v \in {"v1", "v2"} : [token EXCEPT !.version = v].signature = token.signature
    BY DEF Token
  <1> QED
    BY <1>1, <1>2, <1>3, <1>4, <1>5, <1>6 DEF Damaged

(* An accepted token carries what is stored under its id.                  *)
LEMMA PresentedIsTrue ==
  ASSUME IssuanceInv, NEW token \in tokens, NEW p \in Processes,
         NEW presented \in Damaged(token), Accepts(p, presented)
  PROVE  /\ presented.id \in Stored /\ presented.auth \in Authority
         /\ Same(presented.auth, Auth(presented.id))
  <1>1. token \in Token /\ TokenTrue(token)
    BY InvFacts DEF TokensTrue
  <1>2. presented.signature = token.signature
    BY <1>1, DamagedKeepsSignature
  <1>3. token.signature.covered = Covered(presented)
    BY <1>2 DEF Accepts, Signature
  <1>4. Covered(presented).id = presented.id /\ Covered(presented).auth = presented.auth
    BY DEF Covered, AuthorityPayload, LegacyPayload
  <1> QED
    BY <1>1, <1>3, <1>4, CoveredType DEF TokenTrue

LEMMA AcceptedIsTrue ==
  ASSUME IssuanceInv
  PROVE  AcceptedIsStored
  <1> SUFFICES ASSUME NEW token \in tokens, NEW p \in Processes,
                      NEW presented \in Damaged(token), Accepts(p, presented)
               PROVE  /\ presented.id \in Stored
                      /\ [presented.auth EXCEPT !.signed = Auth(presented.id).signed]
                            = Auth(presented.id)
    BY DEF AcceptedIsStored
  <1>1. PICK id \in Stored : /\ id = presented.id /\ presented.auth \in Authority
                             /\ Same(presented.auth, Auth(id))
    BY PresentedIsTrue
  <1>2. Auth(id) \in Authority
    BY InvFacts DEF Stored, TypeOK, GrantRow, Auth
  <1>3. [presented.auth EXCEPT !.signed = Auth(id).signed] = Auth(id)
    BY <1>1, <1>2, SameSigned
  <1> QED
    BY <1>1, <1>3

-----------------------------------------------------------------------------
(* Every grant, key, reading and token is one its column, file or memory   *)
(* can hold, also when a handler works on a row it read long ago.          *)
THEOREM IssuanceTypes == IssuanceSpec => []IssuanceTypeOK
  BY IssuanceSafe, PTL DEF IssuanceInv

(* Delegation only ever narrows, in every dimension, however stale the     *)
(* parent a handler attenuates; and a token that any process accepts,      *)
(* intact or damaged, whichever keys have changed, carries the authority   *)
(* that is stored under its id (model.py, token.py).                       *)
THEOREM DelegationOnlyNarrows == IssuanceSpec => []AuthorityNarrows
  <1>1. IssuanceInv => AuthorityNarrows
    BY AcceptedIsTrue DEF AuthorityNarrows, IssuanceInv
  <1> QED
    BY <1>1, IssuanceSafe, PTL

-----------------------------------------------------------------------------
(* The store underneath. *)

(* Whatever is issued, attenuated and signed, the database behaves as an   *)
(* authority store that is given rows.                                     *)
THEOREM IssuanceIsStore == IssuanceSpec => OpenSpec
  <1>1. IssuanceInit => Init
    BY DEF IssuanceInit
  <1>2. IssuanceInv /\ [IssuanceNext]_issuanceVars => [OpenStep]_storeVars
    BY IssuanceStep
  <1> QED
    BY <1>1, <1>2, IssuanceSafe, PTL DEF IssuanceSpec, OpenSpec

(* So all that is proved of the store's money, rates, charges and statuses *)
(* holds of grants whose rows were computed from stale readings.           *)
COROLLARY IssuanceMoney ==
  IssuanceSpec => /\ [](BudgetConservation /\ NoOverspend /\ RateCeiling)
                  /\ [](ChargedLineageClosed /\ ChargesNoWider /\ SubtreeWithinLimit)
                  /\ DeadStaysDead /\ SettledOnce /\ NothingChargedToLapsed
  <1>1. MoneyInv => BudgetConservation /\ NoOverspend
    BY MoneyConserves
  <1> QED
    BY <1>1, IssuanceIsStore, MoneySafe, OpenRateLimited, OpenChargesClosed, OpenChargesNoWider,
       OpenSubtreeWithinLimit, OpenDeadForever, OpenSettlesOnce, OpenLapsed, PTL

(* No grant, at any depth, is wider than any grant it descends from, and   *)
(* no token that a process accepts presents more than any of them grants.  *)
LineageNarrows ==
    /\ \A g \in Stored : \A o \in Lineage(g) : o \in Stored /\ NoWider(Auth(g), Auth(o))
    /\ \A token \in tokens, p \in Processes :
          \A presented \in Damaged(token) : Accepts(p, presented) =>
              \A o \in Lineage(presented.id) : NoWider(presented.auth, Auth(o))

LEMMA LineagesNarrow ==
  ASSUME IssuanceInv
  PROVE  LineageNarrows
  <1>1. ASSUME NEW g \in Stored
        PROVE  \A o \in Lineage(g) : o \in Stored /\ NoWider(Auth(g), Auth(o))
    <2>1. TypeOK /\ DelegationNarrows
      BY DEF IssuanceInv, IssuanceTypeOK
    <2>2. \A o \in Stored : Auth(o).parent # None =>
             Auth(o).parent \in Stored /\ Narrows(Auth(o), Auth(Auth(o).parent))
      BY <2>1 DEF DelegationNarrows
    <2>3. PICK S : S = Stored
      OBVIOUS
    <2>4. \A o \in Lineage(g) : o \in S /\ NoWider(Auth(g), Auth(o))
      BY <2>1, <2>2, <2>3, LineageNoWider
    <2> QED
      BY <2>3, <2>4
  <1>2. ASSUME NEW token \in tokens, NEW p \in Processes, NEW presented \in Damaged(token),
               Accepts(p, presented), NEW o \in Lineage(presented.id)
        PROVE  NoWider(presented.auth, Auth(o))
    <2>1. PICK id \in Stored : /\ id = presented.id /\ presented.auth \in Authority
                               /\ Same(presented.auth, Auth(id))
      BY <1>2, PresentedIsTrue
    <2>2. NoWider(Auth(id), Auth(o)) /\ o \in Stored
      BY <1>1, <1>2, <2>1
    <2>3. Auth(id) \in Authority /\ Auth(o) \in Authority
      BY <2>2, InvFacts DEF Stored, TypeOK, GrantRow, Auth
    <2>4. Same(Auth(id), presented.auth) /\ Same(Auth(o), Auth(o))
      BY <2>1 DEF Same
    <2> QED
      BY <2>1, <2>2, <2>3, <2>4, SameNoWider
  <1> QED
    BY <1>1, <1>2 DEF LineageNarrows

(* DelegationOnlyNarrows compares parent and child; narrowing composes, so *)
(* a delegate's delegate, and whoever bears a token of its grant, never    *)
(* has more of anything than any grant above it (model.py, token.py).      *)
THEOREM LineagesOnlyNarrow == IssuanceSpec => []LineageNarrows
  BY LineagesNarrow, IssuanceSafe, PTL

-----------------------------------------------------------------------------
(* Records: grants and decisions together.                                 *)

(* The two tables share nothing: seen through either one's variables, a    *)
(* step of the database is a step of that one or none.                     *)
LEMMA RecordsStep ==
  ASSUME [RecordsNext]_recordVars
  PROVE  [IssuanceNext]_issuanceVars /\ [LedgerNext]_ledgerVars
  <1>1. CASE UNCHANGED recordVars
    <2>1. UNCHANGED issuanceVars /\ UNCHANGED ledgerVars
      BY <1>1 DEF recordVars
    <2> QED
      BY <2>1
  <1>2. CASE part = "grants" /\ IssuanceNext /\ UNCHANGED <<part, ledgerVars>>
    <2>1. UNCHANGED ledgerVars
      BY <1>2
    <2> QED
      BY <1>2, <2>1
  <1>3. CASE part = "ledger" /\ LedgerNext /\ UNCHANGED <<part, issuanceVars>>
    <2>1. UNCHANGED issuanceVars
      BY <1>3
    <2> QED
      BY <1>3, <2>1
  <1> QED
    BY <1>1, <1>2, <1>3 DEF RecordsNext

LEMMA PartKept ==
  ASSUME part \in {"grants", "ledger"}, [RecordsNext]_recordVars
  PROVE  part' \in {"grants", "ledger"}
  BY DEF RecordsNext, recordVars

(* A database that records grants and decisions is an issuer's and a       *)
(* ledger at the same time: neither can tell that the other is there.      *)
THEOREM RecordsAreBoth == RecordsSpec => IssuanceSpec /\ LedgerSpec
  <1>1. RecordsInit => IssuanceInit /\ LedgerInit
    BY DEF RecordsInit
  <1>2. [RecordsNext]_recordVars => [IssuanceNext]_issuanceVars /\ [LedgerNext]_ledgerVars
    BY RecordsStep
  <1> QED
    BY <1>1, <1>2, PTL DEF RecordsSpec, IssuanceSpec, LedgerSpec

(* Grants, keys, readings, tokens and ledger rows keep their types in one  *)
(* database.                                                               *)
THEOREM RecordsTypes == RecordsSpec => []RecordsTypeOK
  <1> DEFINE Kind == part \in {"grants", "ledger"}
  <1>1. RecordsInit => Kind
    BY DEF RecordsInit
  <1>2. Kind /\ [RecordsNext]_recordVars => Kind'
    BY PartKept
  <1>3. Kind /\ IssuanceTypeOK /\ LedgerTypeOK => RecordsTypeOK
    BY DEF RecordsTypeOK
  <1> HIDE DEF Kind
  <1> QED
    BY <1>1, <1>2, <1>3, RecordsAreBoth, IssuanceTypes, LedgerTypes, PTL DEF RecordsSpec

(* What is proved of issuing and of the ledger holds of the one database:  *)
(* delegation narrows, accepted tokens are true, and verification accepts  *)
(* exactly the tables whose rows say, normalised, what was appended.       *)
THEOREM RecordsAreSafe ==
  RecordsSpec => [](AuthorityNarrows /\ VerifyTellsDamage)
  BY RecordsAreBoth, DelegationOnlyNarrows, LedgerVerifyTellsDamage, PTL
=============================================================================
