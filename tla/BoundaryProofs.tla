--------------------------- MODULE BoundaryProofs ---------------------------
(***************************************************************************)
(* Theorems about Boundary, for every manifest whose protected routes name *)
(* this service (or none) as their audience, every set of issuers, intents *)
(* and servers, and any number of requests and proofs: its types, that a   *)
(* proof is used once, and that it buys exactly what it was minted for.    *)
(***************************************************************************)
EXTENDS Boundary, TLAPS

-----------------------------------------------------------------------------
(* What holds in every reachable state. *)

(* No server ever trusts another key than the manifest's.                  *)
KeysTrusted ==
  /\ manifest.keys = TrustedKeys
  /\ \A s \in Servers : servers[s].keys = TrustedKeys

(* What a server remembers as used is what it let through, and ...         *)
UsedWasLetThrough ==
  \A s \in Servers : \A pr \in servers[s].used :
      \E r \in Requests : requests[r].server = s /\ requests[r].proof = pr

(* ... the other way round, as long as it has not been restarted.          *)
LetThroughIsUsed ==
  \A s \in Servers, r \in Requests :
      requests[r].server = s /\ requests[r].proof # None => requests[r].proof \in servers[s].used

(* A request that was let through asked for what its proof is for.         *)
Bought(r) ==
  requests[r].proof # None =>
      /\ requests[r].exact
      /\ proofs[requests[r].proof] # None
      /\ proofs[requests[r].proof].key \in TrustedKeys
      /\ proofs[requests[r].proof].audience = "here"

(* A request that was not sent has reached no server.                      *)
Fresh ==
  \A r \in Requests :
      requests[r].phase = "unsent" => requests[r].server = None /\ requests[r].proof = None

AllBought == \A r \in Requests : Bought(r)

BoundaryInv ==
  /\ BoundaryTypeOK /\ KeysTrusted /\ UsedWasLetThrough /\ LetThroughIsUsed /\ ProofUsedOnce
  /\ AllBought /\ Fresh

-----------------------------------------------------------------------------
(* Records. *)

LEMMA RefusedRequest ==
  ASSUME NEW phase \in RequestPhases, NEW s \in Servers, NEW rec,
         rec = [phase |-> phase, server |-> s, proof |-> None, exact |-> FALSE, receipt |-> FALSE]
  PROVE  rec \in Request /\ rec.phase = phase /\ rec.server = s /\ rec.proof = None
  BY DEF Request

LEMMA PassedRequest ==
  ASSUME NEW s \in Servers, NEW pr \in ProofIds, NEW rec,
         rec = [phase |-> "running", server |-> s, proof |-> pr, exact |-> TRUE, receipt |-> FALSE]
  PROVE  /\ rec \in Request /\ rec.phase = "running" /\ rec.server = s /\ rec.proof = pr
         /\ rec.exact = TRUE
  BY DEF Request, RequestPhases

(* The verdict of a request that is let through.                           *)
LEMMA VerdictNone ==
  ASSUME NEW s \in Servers, NEW q, Verdict(s, q) = None
  PROVE  /\ q.proof # None /\ q.proof # Garbled
         /\ Routes[q.route].audience # None
         /\ q.intent.action = Routes[q.route].action
         /\ SameContent(q)
         /\ KernelAccepts(s, q.proof, q.intent, Routes[q.route].audience)
         /\ q.proof \notin servers[s].used
  <1>1. \A x \in Refusals : x # None
    BY BoundaryAssumption
  <1> QED
    BY <1>1 DEF Verdict, Refusals

(* Whatever a client sends carries a proof that was minted, or none.       *)
LEMMA SentProof ==
  ASSUME NEW route, NEW pr \in Minted, NEW other \in Minted,
         NEW q \in Probes(route, pr) \cup Swapped(route, pr, other)
  PROVE  q.proof \in {pr, None, Garbled} /\ q.route \in {route, None}
  <1>1. \A x : x \in {Query(route, pr, proofs[pr].intent, "json"),
                      Query(route, pr, proofs[other].intent, "json")}
               => x.proof = pr /\ x.route = route
    BY DEF Query
  <1> QED
    BY <1>1 DEF Probes, Swapped, Query

-----------------------------------------------------------------------------
(* Steps. *)

LEMMA BoundaryInitInv ==
  ASSUME BoundaryInit
  PROVE  BoundaryInv
  <1>1. BoundaryTypeOK
    BY BoundaryAssumption DEF BoundaryInit, BoundaryTypeOK, Manifest, Server, Modes, Loaded,
       Request, Unsent, RequestPhases
  <1>6. Fresh
    BY DEF BoundaryInit, Unsent, Fresh
  <1>2. KeysTrusted
    BY DEF BoundaryInit, KeysTrusted, Loaded
  <1>3. UsedWasLetThrough
    BY DEF BoundaryInit, UsedWasLetThrough, Loaded
  <1>4. \A r \in Requests : requests[r].proof = None
    BY DEF BoundaryInit, Unsent
  <1>5. LetThroughIsUsed /\ ProofUsedOnce /\ AllBought
    BY <1>4 DEF LetThroughIsUsed, ProofUsedOnce, AllBought, Bought
  <1> QED
    BY <1>1, <1>2, <1>3, <1>5, <1>6 DEF BoundaryInv

(* A step that leaves servers and each request's server and proof alone.   *)
LEMMA SettledKept ==
  ASSUME BoundaryInv, UNCHANGED <<manifest, servers, proofs>>,
         \A r \in Requests : /\ requests'[r].server = requests[r].server
                             /\ requests'[r].proof = requests[r].proof
                             /\ requests'[r].exact = requests[r].exact
  PROVE  /\ KeysTrusted' /\ UsedWasLetThrough' /\ LetThroughIsUsed' /\ ProofUsedOnce'
         /\ AllBought'
  <1>1. KeysTrusted' /\ UsedWasLetThrough' /\ LetThroughIsUsed'
    BY DEF BoundaryInv, KeysTrusted, UsedWasLetThrough, LetThroughIsUsed
  <1>2. ProofUsedOnce'
    BY DEF BoundaryInv, ProofUsedOnce
  <1>3. AllBought'
    BY DEF BoundaryInv, AllBought, Bought
  <1> QED
    BY <1>1, <1>2, <1>3

LEMMA MintInv ==
  ASSUME BoundaryInv, NEW pr \in ProofIds, NEW intent \in Intents, NEW issuer \in Issuers,
         Mint(pr, intent, issuer)
  PROVE  BoundaryInv'
  <1> DEFINE new == [intent |-> intent, key |-> issuer.key, audience |-> issuer.audience,
                     until |-> clock + ProofLife]
  <1>1. /\ proofs[pr] = None /\ proofs' = [proofs EXCEPT ![pr] = new]
        /\ UNCHANGED <<clock, manifest, servers, requests>>
    BY DEF Mint
  <1>2. new \in Proof
    BY BoundaryAssumption DEF BoundaryInv, BoundaryTypeOK, Proof
  <1> HIDE DEF new
  <1>3. BoundaryTypeOK'
    BY <1>1, <1>2 DEF BoundaryInv, BoundaryTypeOK
  <1>4. KeysTrusted' /\ UsedWasLetThrough' /\ LetThroughIsUsed' /\ ProofUsedOnce'
    BY <1>1 DEF BoundaryInv, KeysTrusted, UsedWasLetThrough, LetThroughIsUsed, ProofUsedOnce
  <1>5. AllBought'
    BY <1>1 DEF BoundaryInv, BoundaryTypeOK, AllBought, Bought, Request
  <1>6. Fresh'
    BY <1>1 DEF BoundaryInv, Fresh
  <1> QED
    BY <1>3, <1>4, <1>5, <1>6 DEF BoundaryInv

(* A request that is refused, or forwarded without a verdict in its favour.*)
LEMMA UnverifiedInv ==
  ASSUME BoundaryInv, NEW r \in Requests, NEW s \in Servers, NEW phase \in RequestPhases,
         phase # "unsent",
         requests[r].phase = "unsent", Settle(r, s, phase, None, FALSE),
         UNCHANGED <<clock, manifest, servers, proofs>>
  PROVE  BoundaryInv'
  <1>1. PICK rec : rec = [phase |-> phase, server |-> s, proof |-> None, exact |-> FALSE,
                         receipt |-> FALSE]
    OBVIOUS
  <1>2. rec \in Request /\ rec.phase = phase /\ rec.server = s /\ rec.proof = None
    BY <1>1, RefusedRequest
  <1>3. requests' = [requests EXCEPT ![r] = rec]
    BY <1>1 DEF Settle
  <1>4. \A x \in Requests : requests'[x] = IF x = r THEN rec ELSE requests[x]
    BY <1>3 DEF BoundaryInv, BoundaryTypeOK
  <1>5. BoundaryTypeOK'
    BY <1>2, <1>3 DEF BoundaryInv, BoundaryTypeOK
  <1>6. KeysTrusted'
    BY DEF BoundaryInv, KeysTrusted
  <1>7. UsedWasLetThrough'
    <2>1. requests[r].server = None
      BY DEF BoundaryInv, Fresh
    <2>2. \A x \in Servers : x # None
      BY BoundaryAssumption
    <2> QED
      BY <1>4, <2>1, <2>2 DEF BoundaryInv, UsedWasLetThrough
  <1>8. LetThroughIsUsed' /\ ProofUsedOnce'
    BY <1>2, <1>4 DEF BoundaryInv, LetThroughIsUsed, ProofUsedOnce
  <1>9. AllBought' /\ Fresh'
    BY <1>2, <1>4 DEF BoundaryInv, AllBought, Bought, Fresh
  <1> QED
    BY <1>5, <1>6, <1>7, <1>8, <1>9 DEF BoundaryInv

(* A request that is let through.                                          *)
LEMMA LetThroughInv ==
  ASSUME BoundaryInv, NEW r \in Requests, NEW s \in Servers, NEW route \in DOMAIN Routes,
         NEW pr \in Minted, NEW other \in Minted,
         NEW q \in Probes(route, pr) \cup Swapped(route, pr, other),
         requests[r].phase = "unsent", LetThrough(r, s, q),
         UNCHANGED <<clock, manifest, proofs>>
  PROVE  BoundaryInv'
  <1> DEFINE exact == Asked(q, proofs[q.proof].intent)
  <1>1. /\ q.proof = pr /\ q.route = route
        /\ KernelAccepts(s, pr, q.intent, Routes[route].audience)
        /\ q.intent.action = Routes[route].action
        /\ SameContent(q) /\ pr \notin servers[s].used
        /\ Routes[route].audience = "here"
    <2>1. q.proof \in {pr, None, Garbled} /\ q.route \in {route, None}
      BY SentProof
    <2>2. q.proof = pr /\ q.route = route
      BY <2>1, VerdictNone DEF LetThrough
    <2> QED
      BY <2>2, VerdictNone, BoundaryAssumption DEF LetThrough
  <1>2. exact
    BY <1>1 DEF KernelAccepts, SameContent, Asked
  <1>3. pr \in ProofIds /\ proofs[pr] # None
    BY DEF Minted
  <1>4. PICK rec : rec = [phase |-> "running", server |-> s, proof |-> pr, exact |-> TRUE,
                         receipt |-> FALSE]
    OBVIOUS
  <1>5. requests' = [requests EXCEPT ![r] = rec]
    <2>1. exact = TRUE
      BY <1>2, Zenon DEF Asked
    <2>2. requests' = [requests EXCEPT ![r] = rec]
      <3>1. Settle(r, s, "running", pr, TRUE)
        BY <1>1, <2>1, Zenon DEF LetThrough
      <3> QED
        BY <1>4, <3>1 DEF Settle
    <2> QED
      BY <2>2
  <1>6. rec \in Request /\ rec.phase = "running" /\ rec.server = s /\ rec.proof = pr /\ rec.exact = TRUE
    BY <1>3, <1>4, PassedRequest
  <1>7. \A x \in Requests : requests'[x] = IF x = r THEN rec ELSE requests[x]
    BY <1>5 DEF BoundaryInv, BoundaryTypeOK
  <1>8. /\ servers' = [servers EXCEPT ![s].used = servers[s].used \cup {pr}]
        /\ UNCHANGED <<clock, manifest, proofs>>
    BY <1>1 DEF LetThrough, UseUp
  <1>9. servers' \in [Servers -> Server]
    BY <1>3, <1>8 DEF BoundaryInv, BoundaryTypeOK, Server
  <1>10. \A x \in Servers : /\ servers'[x].keys = servers[x].keys
                            /\ servers'[x].used = IF x = s THEN servers[s].used \cup {pr}
                                                 ELSE servers[x].used
    BY <1>8 DEF BoundaryInv, BoundaryTypeOK, Server
  <1>11. requests[r].server = None /\ requests[r].proof = None /\ s # None /\ pr # None
    BY <1>3, BoundaryAssumption DEF BoundaryInv, Fresh
  <1>12. BoundaryTypeOK'
    BY <1>5, <1>6, <1>8, <1>9 DEF BoundaryInv, BoundaryTypeOK
  <1>13. KeysTrusted'
    BY <1>8, <1>10 DEF BoundaryInv, KeysTrusted
  <1>14. UsedWasLetThrough'
    <2> SUFFICES ASSUME NEW x \in Servers, NEW p \in servers'[x].used
                 PROVE  \E y \in Requests : requests'[y].server = x /\ requests'[y].proof = p
      BY DEF UsedWasLetThrough
    <2>1. CASE x = s /\ p = pr
      BY <1>6, <1>7, <2>1
    <2>2. CASE ~(x = s /\ p = pr)
      <3>1. p \in servers[x].used
        BY <1>10, <2>2
      <3>2. PICK y \in Requests : requests[y].server = x /\ requests[y].proof = p
        BY <3>1 DEF BoundaryInv, UsedWasLetThrough
      <3>3. y # r
        BY <1>11, <3>2, BoundaryAssumption
      <3> QED
        BY <1>7, <3>2, <3>3
    <2> QED
      BY <2>1, <2>2
  <1>15. LetThroughIsUsed'
    BY <1>6, <1>7, <1>10 DEF BoundaryInv, LetThroughIsUsed
  <1>16. ProofUsedOnce'
    <2>1. \A x \in Requests : requests[x].server = s => requests[x].proof # pr
      BY <1>1, <1>11 DEF BoundaryInv, LetThroughIsUsed
    <2> QED
      BY <1>6, <1>7, <2>1 DEF BoundaryInv, ProofUsedOnce
  <1>17. Bought(r)'
    <2>1. proofs[pr].key \in TrustedKeys /\ proofs[pr].audience = "here"
      BY <1>1 DEF KernelAccepts, BoundaryInv, KeysTrusted
    <2> QED
      BY <1>3, <1>6, <1>7, <1>8, <2>1 DEF Bought
  <1>18. AllBought'
    <2> SUFFICES ASSUME NEW x \in Requests PROVE Bought(x)'
      BY DEF AllBought
    <2>1. CASE x = r
      BY <1>17, <2>1
    <2>2. CASE x # r
      BY <1>7, <1>8, <2>2 DEF BoundaryInv, AllBought, Bought
    <2> QED
      BY <2>1, <2>2
  <1>19. Fresh'
    BY <1>6, <1>7 DEF BoundaryInv, Fresh
  <1> QED
    BY <1>12, <1>13, <1>14, <1>15, <1>16, <1>18, <1>19 DEF BoundaryInv

LEMMA DispatchInv ==
  ASSUME BoundaryInv, NEW r \in Requests, NEW s \in Servers, NEW route \in DOMAIN Routes,
         NEW pr \in Minted, NEW other \in Minted,
         NEW q \in Probes(route, pr) \cup Swapped(route, pr, other), Dispatch(r, s, q)
  PROVE  BoundaryInv'
  <1>1. requests[r].phase = "unsent" /\ UNCHANGED <<clock, manifest, proofs>>
    BY DEF Dispatch
  <1>2. CASE LetThrough(r, s, q)
    BY <1>1, <1>2, LetThroughInv
  <1>3. ASSUME NEW phase \in {"running", "refused"}, Settle(r, s, phase, None, FALSE),
               UNCHANGED servers
        PROVE  BoundaryInv'
    <2>1. phase \in RequestPhases /\ phase # "unsent"
      BY DEF RequestPhases
    <2> QED
      BY <1>1, <1>3, <2>1, UnverifiedInv
  <1>4. CASE PassThrough(r, s, q)
    BY <1>3, <1>4 DEF PassThrough
  <1>5. CASE RefuseOversized(r, s, q)
    BY <1>3, <1>5 DEF RefuseOversized
  <1>6. CASE Refuse(r, s, q)
    BY <1>3, <1>6 DEF Refuse
  <1> QED
    BY <1>2, <1>4, <1>5, <1>6 DEF Dispatch

LEMMA HandlerInv ==
  ASSUME BoundaryInv, NEW r \in Requests, HandlerReturns(r) \/ HandlerRaises(r)
  PROVE  BoundaryInv'
  <1> DEFINE returned == [requests EXCEPT ![r].phase = "answered"]
  <1>1. UNCHANGED <<clock, manifest, servers, proofs>>
    BY DEF HandlerReturns, HandlerRaises
  <1>2. PICK rec : /\ rec \in Request /\ rec.phase # "unsent"
                   /\ rec.server = requests[r].server
                   /\ rec.proof = requests[r].proof /\ rec.exact = requests[r].exact
                   /\ requests' = [requests EXCEPT ![r] = rec]
    <2>1. requests[r] \in Request
      BY DEF BoundaryInv, BoundaryTypeOK
    <2>2. CASE HandlerReturns(r)
      <3>1. PICK b \in BOOLEAN : b = (requests[r].proof # None)
        OBVIOUS
      <3>2. PICK rec : rec = [requests[r] EXCEPT !.phase = "answered", !.receipt = b]
        OBVIOUS
      <3>3. requests' = [requests EXCEPT ![r] = rec]
        BY <2>2, <3>1, <3>2 DEF HandlerReturns
      <3>4. rec \in Request
        BY <2>1, <3>2 DEF Request, RequestPhases
      <3>5. /\ rec.phase = "answered" /\ rec.server = requests[r].server
            /\ rec.proof = requests[r].proof /\ rec.exact = requests[r].exact
        BY <2>1, <3>2 DEF Request
      <3> QED
        BY <3>3, <3>4, <3>5
    <2>3. CASE HandlerRaises(r)
      <3>1. PICK rec : rec = [requests[r] EXCEPT !.phase = "lost"]
        OBVIOUS
      <3>2. requests' = [requests EXCEPT ![r] = rec]
        BY <2>3, <3>1 DEF HandlerRaises
      <3>3. rec \in Request
        BY <2>1, <3>1 DEF Request, RequestPhases
      <3>4. /\ rec.phase = "lost" /\ rec.server = requests[r].server
            /\ rec.proof = requests[r].proof /\ rec.exact = requests[r].exact
        BY <2>1, <3>1 DEF Request
      <3> QED
        BY <3>2, <3>3, <3>4
    <2> QED
      BY <2>2, <2>3
  <1>3. \A x \in Requests : requests'[x] = IF x = r THEN rec ELSE requests[x]
    BY <1>2 DEF BoundaryInv, BoundaryTypeOK
  <1>4. BoundaryTypeOK'
    BY <1>1, <1>2 DEF BoundaryInv, BoundaryTypeOK
  <1>5. KeysTrusted' /\ UsedWasLetThrough' /\ LetThroughIsUsed' /\ ProofUsedOnce' /\ AllBought'
    BY <1>1, <1>2, <1>3, SettledKept
  <1>6. Fresh'
    BY <1>2, <1>3 DEF BoundaryInv, Fresh
  <1> QED
    BY <1>4, <1>5, <1>6 DEF BoundaryInv

LEMMA DeployInv ==
  ASSUME BoundaryInv, NEW mode \in Modes, Deploy(mode)
  PROVE  BoundaryInv'
  <1>1. manifest' = [manifest EXCEPT !.mode = mode] /\ UNCHANGED <<clock, servers, proofs, requests>>
    BY DEF Deploy
  <1>2. manifest' \in Manifest /\ manifest'.keys = manifest.keys
    BY <1>1 DEF BoundaryInv, BoundaryTypeOK, Manifest
  <1>3. BoundaryTypeOK'
    BY <1>1, <1>2 DEF BoundaryInv, BoundaryTypeOK
  <1>4. KeysTrusted' /\ UsedWasLetThrough' /\ LetThroughIsUsed'
    BY <1>1, <1>2 DEF BoundaryInv, KeysTrusted, UsedWasLetThrough, LetThroughIsUsed
  <1>5. ProofUsedOnce' /\ AllBought' /\ Fresh'
    BY <1>1 DEF BoundaryInv, ProofUsedOnce, AllBought, Bought, Fresh
  <1> QED
    BY <1>3, <1>4, <1>5 DEF BoundaryInv

(* A restarted server has forgotten the proofs it used, and its requests   *)
(* are no longer its own.                                                  *)
LEMMA RestartInv ==
  ASSUME BoundaryInv, NEW s \in Servers, Restart(s)
  PROVE  BoundaryInv'
  <1>1. /\ servers' = [servers EXCEPT ![s] = Loaded(manifest)]
        /\ UNCHANGED <<clock, manifest, proofs>>
    BY DEF Restart
  <1>2. Loaded(manifest) \in Server /\ Loaded(manifest).keys = TrustedKeys /\ Loaded(manifest).used = {}
    BY DEF BoundaryInv, BoundaryTypeOK, KeysTrusted, Loaded, Server, Manifest
  <1>3. servers' \in [Servers -> Server]
    BY <1>1, <1>2 DEF BoundaryInv, BoundaryTypeOK
  <1>4. \A x \in Servers : servers'[x] = IF x = s THEN Loaded(manifest) ELSE servers[x]
    BY <1>1 DEF BoundaryInv, BoundaryTypeOK
  <1> DEFINE after(x) == IF requests[x].server # s THEN requests[x]
                         ELSE IF requests[x].phase = "running"
                         THEN [requests[x] EXCEPT !.phase = "lost", !.server = None]
                         ELSE [requests[x] EXCEPT !.server = None]
  <1>5. requests' = [x \in Requests |-> after(x)]
    BY DEF Restart
  <1>6. ASSUME NEW x \in Requests
        PROVE  /\ after(x) \in Request
               /\ after(x).proof = requests[x].proof
               /\ after(x).exact = requests[x].exact
               /\ after(x).server = IF requests[x].server = s THEN None ELSE requests[x].server
               /\ after(x).phase \in {requests[x].phase, "lost"}
    <2>1. requests[x] \in Request
      BY DEF BoundaryInv, BoundaryTypeOK
    <2> QED
      BY <2>1 DEF Request, RequestPhases
  <1> HIDE DEF after
  <1>7. \A x \in Requests : requests'[x] = after(x)
    BY <1>5
  <1>8. requests' \in [Requests -> Request]
    BY <1>5, <1>6
  <1>9. BoundaryTypeOK'
    BY <1>1, <1>3, <1>8 DEF BoundaryInv, BoundaryTypeOK
  <1>10. KeysTrusted'
    BY <1>1, <1>2, <1>4 DEF BoundaryInv, KeysTrusted
  <1>11. \A x \in Servers : x # None
    BY BoundaryAssumption
  <1>12. UsedWasLetThrough'
    BY <1>2, <1>4, <1>6, <1>7 DEF BoundaryInv, UsedWasLetThrough
  <1>13. LetThroughIsUsed'
    BY <1>4, <1>6, <1>7, <1>11 DEF BoundaryInv, LetThroughIsUsed
  <1>14. ProofUsedOnce'
    BY <1>6, <1>7 DEF BoundaryInv, ProofUsedOnce
  <1>15. AllBought'
    <2> SUFFICES ASSUME NEW x \in Requests PROVE Bought(x)'
      BY DEF AllBought
    <2>1. requests'[x].proof = requests[x].proof /\ requests'[x].exact = requests[x].exact
      BY <1>6, <1>7
    <2> QED
      BY <1>1, <2>1 DEF BoundaryInv, AllBought, Bought
  <1>16. Fresh'
    BY <1>6, <1>7 DEF BoundaryInv, Fresh
  <1> QED
    BY <1>9, <1>10, <1>12, <1>13, <1>14, <1>15, <1>16 DEF BoundaryInv

LEMMA ClockInv ==
  ASSUME BoundaryInv, Tick \/ UNCHANGED boundaryVars
  PROVE  BoundaryInv'
  <1>1. UNCHANGED manifest /\ UNCHANGED servers /\ UNCHANGED proofs /\ UNCHANGED requests
    BY DEF Tick, boundaryVars
  <1>2. clock' \in 0..MaxTime
    BY BoundaryAssumption DEF BoundaryInv, BoundaryTypeOK, Tick, boundaryVars
  <1>3. BoundaryTypeOK'
    BY <1>1, <1>2 DEF BoundaryInv, BoundaryTypeOK
  <1>4. /\ KeysTrusted' /\ UsedWasLetThrough' /\ LetThroughIsUsed' /\ ProofUsedOnce'
        /\ AllBought'
    BY <1>1, SettledKept
  <1>5. Fresh'
    BY <1>1 DEF BoundaryInv, Fresh
  <1> QED
    BY <1>3, <1>4, <1>5 DEF BoundaryInv

LEMMA BoundaryStepInv ==
  ASSUME BoundaryInv, [BoundaryNext]_boundaryVars
  PROVE  BoundaryInv'
  <1>1. CASE BoundaryNext
    BY <1>1, MintInv, DispatchInv, HandlerInv, DeployInv, RestartInv, ClockInv DEF BoundaryNext
  <1>2. CASE UNCHANGED boundaryVars
    BY <1>2, ClockInv
  <1> QED
    BY <1>1, <1>2

-----------------------------------------------------------------------------
(* Every variable keeps its type.                                          *)
THEOREM BoundaryTypes == BoundarySpec => []BoundaryTypeOK
  <1>1. BoundaryInit => BoundaryInv
    BY BoundaryInitInv
  <1>2. BoundaryInv /\ [BoundaryNext]_boundaryVars => BoundaryInv'
    BY BoundaryStepInv
  <1>3. BoundaryInv => BoundaryTypeOK
    BY DEF BoundaryInv
  <1> QED
    BY <1>1, <1>2, <1>3, PTL DEF BoundarySpec

(* A proof lets one request of a server's life through, in every mode and  *)
(* whatever is repeated, altered or delayed.                               *)
THEOREM BoundaryProofUsedOnce == BoundarySpec => []ProofUsedOnce
  <1>1. BoundaryInit => BoundaryInv
    BY BoundaryInitInv
  <1>2. BoundaryInv /\ [BoundaryNext]_boundaryVars => BoundaryInv'
    BY BoundaryStepInv
  <1>3. BoundaryInv => ProofUsedOnce
    BY DEF BoundaryInv
  <1> QED
    BY <1>1, <1>2, <1>3, PTL DEF BoundarySpec

(* Only requests that pass use their proof up, and what passes asks of the *)
(* handler what a trusted issuer minted the proof for, here.               *)
THEOREM BoundaryProofsBuy == BoundarySpec => []ProofsBuyWhatTheySay
  <1>1. BoundaryInit => BoundaryInv
    BY BoundaryInitInv
  <1>2. BoundaryInv /\ [BoundaryNext]_boundaryVars => BoundaryInv'
    BY BoundaryStepInv
  <1>3. BoundaryInv => ProofsBuyWhatTheySay
    BY DEF BoundaryInv, UsedWasLetThrough, AllBought, Bought, ProofsBuyWhatTheySay
  <1> QED
    BY <1>1, <1>2, <1>3, PTL DEF BoundarySpec
=============================================================================
