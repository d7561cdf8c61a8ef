----------------------------- MODULE MCInMemory -----------------------------
(***************************************************************************)
(* A small instance of InMemory for TLC.                                   *)
(***************************************************************************)
EXTENDS InMemory

SmallContents == {<<>>, <<"x">>}
=============================================================================
