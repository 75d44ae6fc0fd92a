--------------------------- MODULE MCCommentImages ---------------------------
(* Symmetry of the model values of CommentImages, for runs without liveness. *)
EXTENDS CommentImages, TLC

Symmetry == Permutations(Images) \cup Permutations(Messages) \cup Permutations(Sweepers)

==============================================================================
