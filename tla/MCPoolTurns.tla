----------------------------- MODULE MCPoolTurns -----------------------------
(***************************************************************************)
(* The pool without sandbox cleanup under two loads, of which an initial   *)
(* state picks one: conversations that compete for slots (KeyOf, PolicyOf  *)
(* from the configuration), or the turns of one conversation.  The         *)
(* properties speak of conversations only through arrivals, so they mean   *)
(* the same in both.                                                       *)
(***************************************************************************)
EXTENDS MCSessionPool

VARIABLE load

Order == INSTANCE SessionPool WITH KeyOf <- AllOne, PolicyOf <- SecondDiffers

LoadInit ==
  \/ load = "slots" /\ Init
  \/ load = "order" /\ Order!Init

LoadNext ==
  \/ load = "slots" /\ Next /\ UNCHANGED load
  \/ load = "order" /\ Order!Next /\ UNCHANGED load

LoadSpec == LoadInit /\ [][LoadNext]_<<load, vars>>
=============================================================================
