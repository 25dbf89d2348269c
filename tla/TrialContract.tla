--------------------------- MODULE TrialContract ---------------------------
(***************************************************************************)
(* What runner.py promises its operator, whatever Harbor, the agent and the*)
(* verifier do: a run publishes one publishable bundle or none, an attempt *)
(* follows only a bundle that allows it, and a published bundle stays.     *)
(***************************************************************************)
EXTENDS Results, Sequences

VARIABLES
    progress,   \* "running", "done" or "lost"
    published   \* the bundles so far, one per attempt

Init == progress = "running" /\ published = <<>>

\* The bundle is read off the next state, so that TLC need not enumerate them all.
Publish ==
    /\ progress = "running"
    /\ progress' = "done"
    /\ Len(published') = Len(published) + 1
    /\ LET bundle == published'[Len(published')]
       IN  /\ published' = Append(published, bundle)
           /\ Publishable(bundle, Len(published'))

Lose ==
    /\ progress = "running"
    /\ progress' = "lost"
    /\ UNCHANGED published

Retry ==
    /\ progress = "done"
    /\ published[Len(published)].retry.eligible
    /\ progress' = "running"
    /\ UNCHANGED published

Next == Publish \/ Lose \/ Retry

Spec == Init /\ [][Next]_<<progress, published>>
=============================================================================
