-------------------------- MODULE MCIntentExecution --------------------------
(***************************************************************************)
(* TLC instance of IntentExecution: one root grant, one intent and two     *)
(* concurrent calls, each of which may execute, submit or cancel the       *)
(* intent or call an adapter tool without it.                              *)
(***************************************************************************)
EXTENDS IntentExecution, TLC

RootAuth ==
    [parent |-> None, depth |-> 0, agent |-> "agent", signed |-> TRUE,
     currency |-> "GBP", limit |-> 2, expires |-> 2, allow |-> {"refund"}, deny |-> {},
     rules |-> {}, rateMax |-> 0, ratePer |-> 0, approved |-> None]

MCOffered ==
    [g \in GrantIds |-> {[auth |-> RootAuth, status |-> "ACTIVE", remaining |-> 2]}]

RunSymmetry == Permutations(ActionIds)
=============================================================================
