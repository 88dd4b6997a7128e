--------------------------- MODULE ConsequenceOnce ---------------------------
(***************************************************************************)
(* What the effect ledger promises about one consequential effect, however *)
(* many grants, proofs, processes and retries ask for it: it has at most   *)
(* one owner, it is dispatched only by that owner, an unclear outcome      *)
(* blocks every other attempt until it is reconciled, and once it has      *)
(* happened it never happens again.                                        *)
(***************************************************************************)
CONSTANT EffectIds

VARIABLE phase

Phases == {"free", "owned", "inflight", "unresolved", "done"}

Init == phase = [e \in EffectIds |-> "free"]

Move(e, from, to) ==
    /\ phase[e] \in from
    /\ \E p \in to : phase' = [phase EXCEPT ![e] = p]

Own(e) == Move(e, {"free"}, {"owned"})
Abandon(e) == Move(e, {"owned"}, {"free"})
Dispatch(e) == Move(e, {"owned"}, {"inflight"})
Lose(e) == Move(e, {"inflight"}, {"unresolved"})
Resolve(e) == Move(e, {"inflight", "unresolved"}, {"free", "done"})

Next ==
    \E e \in EffectIds : Own(e) \/ Abandon(e) \/ Dispatch(e) \/ Lose(e) \/ Resolve(e)

Spec == Init /\ [][Next]_phase
=============================================================================
