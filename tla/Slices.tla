------------------------------- MODULE Slices -------------------------------
(***************************************************************************)
(* The helpers of slices.go.  Positions are 0-based, as in the source;     *)
(* sequences are 1-based, so position p of a slice is element p + 1.       *)
(* Each operator is the slice the helper returns; a helper that would      *)
(* index outside its slice is only applied where its caller's guard keeps  *)
(* the position inside.                                                    *)
(***************************************************************************)
EXTENDS Integers, Sequences

SX == INSTANCE SequencesExt

\* pop and popFirst also return the removed element, slice[position + 1].
pop(slice, position) == SX!RemoveAt(slice, position + 1)

popFirst(slice) == pop(slice, 0)

popLast(slice) == SubSeq(slice, 1, Len(slice) - 1)

\* swap also returns the old element, slice[position + 1].
swap(slice, position, value) == SX!ReplaceAt(slice, position + 1, value)

prepend(slice, value) == <<value>> \o slice

\* Where prependBefore stops: it scans from the end, so at the last
\* occurrence of target.  Empty exactly when the code panics.
lastOf(slice, target) ==
    {i \in DOMAIN slice : /\ slice[i] = target
                          /\ \A j \in DOMAIN slice : j > i => slice[j] # target}

prependBefore(slice, value, i) == SX!InsertAt(slice, i, value)
=============================================================================
