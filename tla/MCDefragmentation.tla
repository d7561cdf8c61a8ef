------------------------- MODULE MCDefragmentation -------------------------
(***************************************************************************)
(* Small instances of Defragmentation for TLC.  It names the nodes itself, *)
(* so that the contents of PersistentStorage do not matter.                *)
(***************************************************************************)
EXTENDS Defragmentation

OneContent == {<<>>}
OneLink == {<<>>}
=============================================================================
