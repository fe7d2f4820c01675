----------------------------- MODULE ApprovalGate -----------------------------
(***************************************************************************)
(* What the agent interface promises a human: an irreversible action is    *)
(* carried out only after it was asked for and granted, at most once, and  *)
(* every request comes to an end.                                          *)
(***************************************************************************)
CONSTANT Runs
VARIABLES
    phase,  \* how far a run has come
    gated   \* whether it needs a human's consent, fixed when it starts
vars == <<phase, gated>>

Phase == {"new", "asked", "granted", "refused", "acting", "ended"}

Init == phase = [r \in Runs |-> "new"] /\ gated = [r \in Runs |-> TRUE]

Move(r, from, to) == phase[r] \in from /\ phase' = [phase EXCEPT ![r] = to]

Start(r) ==
    \/ Move(r, {"new"}, "asked") /\ gated' = [gated EXCEPT ![r] = TRUE]
    \/ \E to \in {"acting", "ended"} :
        Move(r, {"new"}, to) /\ gated' = [gated EXCEPT ![r] = FALSE]
    \* Over before anybody was asked.
    \/ Move(r, {"new"}, "ended") /\ gated' = [gated EXCEPT ![r] = TRUE]

Decide(r) ==
    /\ Move(r, {"asked"}, "granted") \/ Move(r, {"asked"}, "refused")
    /\ UNCHANGED gated
Act(r) == Move(r, {"granted"}, "acting") /\ UNCHANGED gated
End(r) == Move(r, {"granted", "refused", "acting"}, "ended") /\ UNCHANGED gated

Next == \E r \in Runs : Start(r) \/ Decide(r) \/ Act(r) \/ End(r)

Spec == /\ Init /\ [][Next]_vars
        /\ \A r \in Runs : WF_vars(Decide(r)) /\ WF_vars(Act(r) \/ End(r))
=============================================================================
