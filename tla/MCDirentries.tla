---------------------------- MODULE MCDirentries ----------------------------
(***************************************************************************)
(* Names for the model checker: one that fits in a slot, and two that take *)
(* two slots, begin with that name and tell apart by their second part,    *)
(* which for one of them is that name again.                               *)
(***************************************************************************)
EXTENDS Direntries

MCName == {<<"h">>, <<"h", "h">>, <<"h", "a">>}
=============================================================================
