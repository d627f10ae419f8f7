----------------------------- MODULE MCIDTo3DMap -----------------------------
(***************************************************************************)
(* IDTo3DMap with two bases and six file indices, the first and the fifth  *)
(* special as 0x00 and 0xFD are: base 0 has both special ids and three     *)
(* others, so an insertion can fall at the front, in the middle and at the *)
(* end of its bucket, and base 1 has one id of its own.                    *)
(***************************************************************************)
EXTENDS IDTo3DMap

MCSpecialIndices == {0, 4}

MCIds == {0 * 2, 1 * 2, 3 * 2, 4 * 2, 5 * 2, 3 * 2 + 1}
=============================================================================
