-------------------------- MODULE MCEvidenceBundle --------------------------
(* EvidenceBundle for TLC: requests are interchangeable, and a behaviour is *)
(* followed with a stop or with an overlap, not with both.                  *)
EXTENDS EvidenceBundle, TLC

Symmetry == Permutations(Clients)

StopOrOverlap == crashes + overlaps <= 1

=============================================================================
