---------------------------- MODULE MCSaveFiles ----------------------------
(* Small instances of SaveFiles. *)
EXTENDS SaveFiles

\* A .sav from elsewhere may be shorter or longer than the chip.
AnyLength == {<<>>, <<0>>, <<0, 1, 0>>}
=============================================================================
