------------------------ MODULE MCCommandLifecycle ------------------------
(* Instances of CommandLifecycle for TLC.                                  *)
EXTENDS CommandLifecycle, TLC

CONSTANTS h1, h2

OneHandler == {h1}
TwoHandlers == {h1, h2}
\* "failed" adds nothing "refused" and "completed" do not show: an execution
\* that ends, and a failed result.
SomeOutcomes == {"completed", "refused"}
OnlyCompleted == {"completed"}
AllOutcomes == {"completed", "failed", "refused"}
Symmetry == Permutations(TwoHandlers)
=============================================================================
