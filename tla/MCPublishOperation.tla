------------------------- MODULE MCPublishOperation -------------------------
(* PublishOperation on small instances for TLC.                            *)
EXTENDS PublishOperation, TLC

\* Requests and inputs are interchangeable: no action or property names one.
Symmetry == Permutations(Requests) \cup Permutations(Inputs)

=============================================================================
