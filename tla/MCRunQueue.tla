----------------------------- MODULE MCRunQueue -----------------------------
(* RunQueue for TLC.                                                        *)
EXTENDS RunQueue

\* A run that passes and one that fails in the engine; amber and fail are
\* treated like pass.
TwoOutcomes == {"pass", "error"}

=============================================================================
