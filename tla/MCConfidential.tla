--------------------------- MODULE MCConfidential ---------------------------
(* Two clicks on the buttons and one send, in any order and overlapping,   *)
(* on an account that is configured or not, with two amounts and one       *)
(* encrypted transfer from somebody else.                                  *)
EXTENDS Confidential, TLC

CONSTANTS o1, o2, s1

Symmetric == Permutations({o1, o2})
=============================================================================
