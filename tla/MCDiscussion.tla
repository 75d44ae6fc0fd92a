---------------------------- MODULE MCDiscussion ----------------------------
(* Discussion on small instances for TLC.                                  *)
EXTENDS Discussion, TLC

\* Requests, discussions and the keys of others are interchangeable.
Symmetry == Permutations(Requests) \cup Permutations(Threads) \cup Permutations(Keys \ Mine)

=============================================================================
