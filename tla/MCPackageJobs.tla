--------------------------- MODULE MCPackageJobs ---------------------------
(* PackageJobs on small instances for TLC.                                 *)
EXTENDS PackageJobs, TLC

\* Requests, keys and workers are interchangeable: no action or invariant names one.
Symmetry == Permutations(Requests) \cup Permutations(Keys) \cup Permutations(Workers)

=============================================================================
