----------------------------- MODULE MCDelivery -----------------------------
(***************************************************************************)
(* Brokered: two calls of execute() from two processes, sharing a key and  *)
(* three identities, under seven adapter configurations: one that the      *)
(* constructor refuses, and three with a witness, which reads the answered *)
(* resource and is bound to the amount, is bound to the amount and reads   *)
(* what it finds, or is bound to nothing.  Resource-owned: two requests to *)
(* one server, with two proofs for two intents.                            *)
(***************************************************************************)
EXTENDS Delivery
CONSTANTS pay, alter, stray

Word == Value("string", TRUE, 0)
Elsewhere == Value("string", FALSE, 0)   \* a value such as "../../other"
Number(n) == Value("integer", TRUE, n)

(* POST /accounts/{account}/payments {amount}, the amount bounded below.   *)
PayOperation ==
    [pathVars |-> {"account"},
     parameters |-> [account |-> Schema("string", FALSE, TRUE)],
     body |-> [amount |-> [Schema("integer", FALSE, TRUE) EXCEPT !.bounds = AtLeast(1)]]]

MCFields ==
    [openapi |-> [act \in Acts |-> Compile(PayOperation)],
     github |-> [act \in Acts |-> GitHubActions.issue_comment],
     stripe |-> [act \in Acts |-> PaymentActions.refund]]

MCParams ==
    [openapi |-> [act \in Acts |->
        CASE act = pay -> [account |-> Word, amount |-> Number(1)]
          [] act = alter -> [account |-> Word, amount |-> Number(2)]
          [] act = stray -> [account |-> Elsewhere, amount |-> Number(1)]],
     github |-> [act \in Acts |->
        LET base == [owner |-> Word, repo |-> Word, issue_number |-> Number(1), body |-> Word]
        IN CASE act = pay -> base
             [] act = alter -> [base EXCEPT !.issue_number = Number(2)]
             [] act = stray -> Extend(base, [labels |-> Word])],
     stripe |-> [act \in Acts |->
        LET base == [charge_id |-> Word, amount |-> Number(1), currency |-> Word]
        IN CASE act = pay -> base
             [] act = alter -> [base EXCEPT !.amount = Value("boolean", TRUE, 1)]
             [] act = stray -> [base EXCEPT !.amount = Number(-1)]]]

Config(kind, durable, redirects, witness) ==
    [kind |-> kind, production |-> durable, optIn |-> TRUE, durable |-> durable,
     block |-> TRUE, redirects |-> redirects, witness |-> witness]

Witness(byId, bound, shared) == [byId |-> byId, bound |-> bound, shared |-> shared]

MCAdapters ==
    {Config("openapi", TRUE, FALSE, Witness(TRUE, {"amount"}, TRUE)),
     Config("openapi", FALSE, FALSE, Witness(FALSE, {"amount"}, FALSE)),
     [Config("openapi", TRUE, TRUE, Witness(FALSE, {}, TRUE)) EXCEPT !.block = FALSE],
     [Config("openapi", FALSE, FALSE, None) EXCEPT !.block = FALSE],
     [Config("openapi", FALSE, FALSE, None) EXCEPT !.production = TRUE],
     Config("github", FALSE, FALSE, None), Config("stripe", FALSE, FALSE, None)}

MCRoutes ==
    [refunds |-> [action |-> "refund", audience |-> "here", targeted |-> TRUE,
                  fields |-> [amount |-> "integer"]]]

MCIntents ==
    {[action |-> "refund", target |-> "charge", params |-> [amount |-> Number(n)]] : n \in 1..2}

(* An honest issuer, one whose key is not trusted, and proofs for another  *)
(* service.                                                                *)
MCIssuers ==
    {[key |-> "issuer", audience |-> "here"], [key |-> "other", audience |-> "here"],
     [key |-> "issuer", audience |-> "elsewhere"]}
=============================================================================
