-------------------------- MODULE MCUploadSession --------------------------
(* UploadSession on small instances for TLC.                               *)
EXTENDS UploadSession, TLC

\* Requests and files are interchangeable: no action or invariant names one.
Symmetry == Permutations(Requests) \cup Permutations(Files)

=============================================================================
