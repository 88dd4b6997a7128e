------------------------------ MODULE MCRecords -----------------------------
(***************************************************************************)
(* Grants: two grants, each a root or a child of the other, two processes, *)
(* one key file.  Ledger: two writers, an old table of two ages, two costs *)
(* that round to the same REAL, and bodies that differ in one parameter,   *)
(* two integers that are the same float and the decimal text of the second *)
(* one: versions 2 and 3 make that text of it too.                         *)
(***************************************************************************)
EXTENDS Records, TLC

MCOffered == [g \in GrantIds |-> {}]
MCAmounts == {1}

(* A narrow policy that starts with less than its limit, and the widest.   *)
Narrow ==
    [limit |-> 2, remaining |-> 2, expires |-> 2, allow |-> {"pay", "mail"}, deny |-> {},
     rules |-> {}, rateMax |-> 2, ratePer |-> 1, approved |-> {"effect"}]
Wide == [Narrow EXCEPT !.remaining = 1, !.allow = {}, !.rateMax = 0, !.approved = None]
MCPolicies == {Narrow, Wide}

Inherit ==
    [expires |-> None, allow |-> None, deny |-> None, limit |-> None, rateMax |-> None,
     ratePer |-> None, rules |-> None, approved |-> None]
MCRequests ==
    {Inherit,
     [expires |-> 1, allow |-> {"pay"}, deny |-> {"post"}, limit |-> 1, rateMax |-> 1,
      ratePer |-> 2, rules |-> {"ask"}, approved |-> {}],
     [Inherit EXCEPT !.expires = 3], [Inherit EXCEPT !.allow = {}], [Inherit EXCEPT !.limit = 2],
     [Inherit EXCEPT !.rateMax = 0], [Inherit EXCEPT !.rateMax = -1],
     [Inherit EXCEPT !.ratePer = 0], [Inherit EXCEPT !.approved = {"effect", "other"}, !.limit = 2]}

Symmetry ==
    Permutations(Writers) \cup Permutations(Processes) \cup Permutations(GrantIds)

MCDecisions ==
    {[body |-> "2^53", cost |-> 101], [body |-> "2^53 + 1", cost |-> 102],
     [body |-> "text of 2^53 + 1", cost |-> Null]}
MCRounded == [c \in Costs |-> 100]
MCCanonical ==
    [v \in Versions |-> [b \in Bodies |->
        IF b # "2^53 + 1" THEN b ELSE IF v = Null THEN "2^53" ELSE "text of 2^53 + 1"]]
MCOldRows ==
    {<<>>, <<[body |-> "2^53", cost |-> 101, version |-> Null],
             [body |-> "2^53 + 1", cost |-> 101, version |-> 2]>>}
=============================================================================
