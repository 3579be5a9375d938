--------------------------- MODULE MCBondingCurve ---------------------------
(***************************************************************************)
(* A curve at small scale with the shape of the real one: many more tokens *)
(* than lamports, so that one lamport always buys some, fees that round to *)
(* zero on small trades, and a threshold a few buys away.                  *)
(***************************************************************************)
EXTENDS BondingCurve

McSolInputs == 0..5 \cup {8}
McTokenInputs == 0..25
=============================================================================
