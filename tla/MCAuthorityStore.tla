-------------------------- MODULE MCAuthorityStore --------------------------
(***************************************************************************)
(* TLC instance of AuthorityStore: a root grant with two delegated         *)
(* siblings, and attempts that race for the root's money.                  *)
(***************************************************************************)
EXTENDS AuthorityStore, TLC

CONSTANTS root, kid, sib

RootAuth ==
    [parent |-> None, depth |-> 0, agent |-> "agent", signed |-> TRUE,
     currency |-> "GBP", limit |-> 2, expires |-> 2, allow |-> {"pay"}, deny |-> {},
     rules |-> {}, rateMax |-> 2, ratePer |-> 0, approved |-> None]

(* The kid expires first and has the longer rate window.                   *)
KidAuth ==
    [RootAuth EXCEPT !.parent = root, !.depth = 1, !.expires = 1, !.rateMax = 1,
                     !.ratePer = 1]

SibAuth == [RootAuth EXCEPT !.parent = root, !.depth = 1, !.limit = 1]

Row(auth) == [auth |-> auth, status |-> "ACTIVE", remaining |-> auth.limit]

(* The sibling may also be offered unsigned, or wider than its parent.     *)
MCOffered ==
    [g \in GrantIds |->
        CASE g = root -> {Row(RootAuth)}
          [] g = kid  -> {Row(KidAuth)}
          [] g = sib  -> {Row([SibAuth EXCEPT !.signed = FALSE]), Row(SibAuth),
                          Row([SibAuth EXCEPT !.limit = 3])}]

MCAmounts == {-1, 1, 2}

AttemptSymmetry == Permutations(ActionIds)
=============================================================================
