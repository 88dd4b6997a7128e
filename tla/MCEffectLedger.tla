--------------------------- MODULE MCEffectLedger ---------------------------
(***************************************************************************)
(* TLC instance of EffectLedger: a root grant, a grant delegated from it   *)
(* that approves one effect only, and attempts that compete for effects.   *)
(***************************************************************************)
EXTENDS EffectLedger, TLC

CONSTANTS root, kid, pay, mail

RootAuth ==
    [parent |-> None, depth |-> 0, agent |-> "agent", signed |-> TRUE,
     currency |-> "GBP", limit |-> 2, expires |-> 1, allow |-> {"act"}, deny |-> {},
     rules |-> {}, rateMax |-> 0, ratePer |-> 1, approved |-> None]

KidAuth == [RootAuth EXCEPT !.parent = root, !.depth = 1, !.approved = {pay}]

Row(auth) == [auth |-> auth, status |-> "ACTIVE", remaining |-> auth.limit]

(* The kid may be imported before it is signed.                            *)
MCOffered ==
    [g \in GrantIds |->
        IF g = root THEN {Row(RootAuth)}
        ELSE {Row(KidAuth), Row([KidAuth EXCEPT !.signed = FALSE])}]

AttemptSymmetry == Permutations(ActionIds)
=============================================================================
