------------------------------ MODULE MCGateway ------------------------------
(***************************************************************************)
(* TLC instance of Gateway: a root grant, a grant delegated from it whose  *)
(* refunds need a person above one unit, and two concurrent calls.         *)
(***************************************************************************)
EXTENDS Gateway, TLC

CONSTANTS root, kid

RootAuth ==
    [parent |-> None, depth |-> 0, agent |-> "agent", signed |-> TRUE,
     currency |-> "GBP", limit |-> 2, expires |-> 2, allow |-> {"refund"}, deny |-> {},
     rules |-> {}, rateMax |-> 0, ratePer |-> 0, approved |-> None]

KidAuth ==
    [RootAuth EXCEPT !.parent = root, !.depth = 1, !.expires = 1, !.rules = {"refund > 1"}]

Row(auth) == [auth |-> auth, status |-> "ACTIVE", remaining |-> auth.limit]

MCOffered == [g \in GrantIds |-> IF g = root THEN {Row(RootAuth)} ELSE {Row(KidAuth)}]

MCThresholds == [rule \in {"refund > 1"} |-> [kind |-> "refund", above |-> 1]]

MCRequests == {[kind |-> "refund", asked |-> None, cost |-> n] : n \in {0, 2}}

CallSymmetry == Permutations(ActionIds)
=============================================================================
