--------------------------- MODULE MCAccessories ----------------------------
(***************************************************************************)
(* Accessories for TLC: every quantity up to what two units can use up,    *)
(* and one below zero, which nothing refuses; or one alone, so that an     *)
(* edit sends back the quantity it found.                                  *)
(***************************************************************************)
EXTENDS Accessories

UpToTwo == -1..2
JustOne == {1}
=============================================================================
