----------------------------- MODULE AtLeastOnce -----------------------------
(***************************************************************************)
(* What the webhook engine promises the callers of enqueue: an accepted    *)
(* event is delivered or given up for good, and neither verdict changes.   *)
(* A crash may lose events that were being sent.                           *)
(***************************************************************************)
CONSTANT Keys
VARIABLE phase

Phase == {"none", "accepted", "delivered", "dead", "lost"}
Init == phase = [k \in Keys |-> "none"]

Move(k, from, to) == phase[k] = from /\ phase' = [phase EXCEPT ![k] = to]
Accept(k)  == Move(k, "none", "accepted")
Deliver(k) == Move(k, "accepted", "delivered")
GiveUp(k)  == Move(k, "accepted", "dead")
Forget(k)  == Move(k, "delivered", "none")

Lose ==
    \E lost \in SUBSET {k \in Keys : phase[k] = "accepted"} :
        phase' = [k \in Keys |-> IF k \in lost THEN "lost" ELSE phase[k]]

Next ==
    \/ \E k \in Keys : Accept(k) \/ Deliver(k) \/ GiveUp(k) \/ Forget(k)
    \/ Lose

Spec == /\ Init /\ [][Next]_phase
        /\ \A k \in Keys : WF_phase(Deliver(k) \/ GiveUp(k))
=============================================================================
