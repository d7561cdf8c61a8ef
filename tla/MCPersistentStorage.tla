------------------------ MODULE MCPersistentStorage ------------------------
(***************************************************************************)
(* Small instances of PersistentStorage for TLC.                           *)
(***************************************************************************)
EXTENDS PersistentStorage

SmallContents == {<<>>, <<"x">>}
SmallLinks == {<<>>, <<1, 2>>}
OneContent == {<<>>}
OneLink == {<<>>}
=============================================================================
