---------------------------- MODULE BudgetEscrow ----------------------------
(***************************************************************************)
(* What a budget promises, whatever grants, delegation, statuses, rates    *)
(* and clocks are.  An account is opened once, with a deposit.  An attempt *)
(* is charged to all the accounts that pay for it or to none, only while   *)
(* each of them has the amount left, and its hold ends once: given back in *)
(* full, or paid, for whatever the provider took.  Nothing is counted up   *)
(* or down: what is left is always the deposit less all that is charged.   *)
(***************************************************************************)
EXTENDS Integers, FiniteSets

CONSTANTS
    Accounts,
    Attempts,
    Sums        \* the amounts of money there are, natural numbers

VARIABLES
    accounts,   \* the accounts that have been opened
    deposits,   \* what was paid in, 0 before
    holds       \* what each attempt holds or has paid, and who pays

escrowVars == <<accounts, deposits, holds>>

NoHold == [phase |-> "free", payers |-> {}, amount |-> 0]

Init ==
    /\ accounts = {}
    /\ deposits = [account \in Accounts |-> 0]
    /\ holds = [a \in Attempts |-> NoHold]

(* One element for each unit of money charged to an account.               *)
Charged(account) ==
    UNION {{a} \X (1..holds[a].amount) :
              a \in {b \in Attempts : account \in holds[b].payers}}

Left(account) == deposits[account] - Cardinality(Charged(account))

Open(account, deposit) ==
    /\ account \notin accounts
    /\ accounts' = accounts \cup {account}
    /\ deposits' = [deposits EXCEPT ![account] = deposit]
    /\ UNCHANGED holds

Turn(a, from, hold) ==
    /\ holds[a].phase = from
    /\ holds' = [holds EXCEPT ![a] = hold]
    /\ UNCHANGED <<accounts, deposits>>

Hold(a, payers, amount) ==
    /\ payers # {}
    /\ \A account \in payers : Left(account) >= amount
    /\ Turn(a, "free", [phase |-> "held", payers |-> payers, amount |-> amount])

GiveBack(a) == Turn(a, "held", NoHold)

Pay(a, cost) ==
    Turn(a, "held", [phase |-> "paid", payers |-> holds[a].payers, amount |-> cost])

Next ==
    \/ \E account \in Accounts, deposit \in Sums : Open(account, deposit)
    \/ \E a \in Attempts, payers \in SUBSET accounts, amount \in Sums : Hold(a, payers, amount)
    \/ \E a \in Attempts : GiveBack(a)
    \/ \E a \in Attempts, cost \in Sums : Pay(a, cost)

Spec == Init /\ [][Next]_escrowVars
=============================================================================
