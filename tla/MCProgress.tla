------------------------------ MODULE MCProgress ------------------------------
(* Instances of Progress for TLC. *)
EXTENDS Progress

CONSTANTS s1, s2, s3, s4

FourSpeeches == {s1, s2, s3, s4}

\* Rows of one date may come in any order, so no property tells two speeches apart.
SpeechSymmetry == Permutations(FourSpeeches)
=============================================================================
