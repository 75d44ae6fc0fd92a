--------------------------- MODULE MCSiteVersions ---------------------------
(* SiteVersions on small instances for TLC.                                *)
EXTENDS SiteVersions, TLC

\* Bound: what becomes of a torn site when it is deleted once more is not followed (the proofs do).
TornOnce == fate = "torn" => ~deleted

\* Requests and purgers are interchangeable: no action or property names one.
Symmetry == Permutations(Requests) \cup Permutations(Purgers)

=============================================================================
