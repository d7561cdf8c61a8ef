------------------------------- MODULE MCTree -------------------------------
(***************************************************************************)
(* Small instances of Tree for TLC.                                        *)
(***************************************************************************)
EXTENDS TreeChecker

\* NewId answers the lowest id that is not in use.  Which of the free ids it is
\* makes no difference to Tree; the storages' own choices are modelled in
\* InMemory and PersistentStorage.
LowestFree(used) == {i \in Ids \ used : \A j \in Ids \ used : i <= j}

\* The caller of the deep run fills the tree from one end, without gaps, and
\* deletes any key: enough to make trees whose inner nodes borrow from the right
\* (Ascending) or from the left (Descending), which takes nine keys.
Keyset(pairs) == {t.First : t \in pairs}
Ascending == pc = "idle" /\ req'.op = "Insert" => Keyset(Pairs) = 1 .. req'.key - 1
Descending == pc = "idle" /\ req'.op = "Insert" => Keyset(Pairs) = req'.key + 1 .. 10
\* A caller who began at one end never inserts the key at the other, so that it
\* changes ends only with an empty tree.
FromOneEnd ==
    \/ Ascending /\ (pc = "idle" => req'.op = "Delete" \/ req'.key # 10)
    \/ Descending /\ (pc = "idle" => req'.op = "Delete" \/ req'.key # 1)
\* One that began above deletes no key before there are nine, and then first one that
\* leaves a gap, so that it does not fill the tree up again.
NineFirst ==
    pc = "idle" /\ req'.op = "Delete" =>
        /\ \A k \in 3 .. 10 : Keyset(Pairs) # k .. 10
        /\ Keyset(Pairs) = 2 .. 10 => req'.key > 3
\* Apart from two keys, it calls nothing that leaves the tree as it is.
OnlyChanges ==
    pc = "idle" /\ req'.key \notin {4, 7} =>
        req'.op # "Get" /\ (req'.op = "Delete" => req'.key \in Keyset(Pairs))
\* Calls fail on a tree that was filled from below.
FaultsAscending ==
    faults' = faults \/ before = {} \/ (1 \in Keyset(before) /\ 10 \notin Keyset(before))

\* One key, which the shapes of the tree place in leaves and in the root, takes a
\* second value.
OneKeyChanges == pc = "idle" /\ req'.op = "Insert" => req'.value = "x" \/ req'.key = 4
=============================================================================
