----------------------------- MODULE MCFraming ------------------------------
(* Payloads for the run of Framing.  With two bytes to a length and four   *)
(* values to a byte, payload taken for a length can be negative (<<2, 0>>),*)
(* too long (<<1, 3>>), reach beyond its message (<<1, 0, 0>>), or fit     *)
(* what follows (<<0, 1, 3>>).                                             *)
EXTENDS Framing

Chosen == {<<>>, <<2, 0>>, <<1, 3>>, <<1, 0, 0>>, <<0, 1, 3>>}

BothReaders == {"leaves", "goes on"}
=============================================================================
