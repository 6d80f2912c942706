------------------------------ MODULE MCSha256 ------------------------------
(* Bounds for the run of Sha256: pieces around the sizes at which a block  *)
(* is full (64) and the length no longer fits behind the padding (56).     *)
EXTENDS Sha256

Pieces == {0, 1, 8, 55, 56, 63, 64, 65}
=============================================================================
