--------------------------- MODULE MCReaderAccess ---------------------------
(* ReaderAccess on small instances for TLC.                                *)
EXTENDS ReaderAccess, TLC

\* Versions are interchangeable.
Symmetry == Permutations(Versions)

=============================================================================
