--------------------------- MODULE MCCredentials ---------------------------
(* Credentials on small instances for TLC.                                 *)
EXTENDS Credentials, TLC

\* Requests, consents and devices are interchangeable: no action or property names one.
Symmetry == Permutations(Requests) \cup Permutations(Consents) \cup Permutations(Devices)

=============================================================================
