------------------------------ MODULE KVStore ------------------------------
(***************************************************************************)
(* What eternal promises its user (readme.md, "Now you store, retrieve or  *)
(* delete values"): a finite map from keys to values.  A request is        *)
(* accepted, takes effect at once at some later moment, and is answered.   *)
(* Abstract specification; Tree is shown to implement it.                  *)
(***************************************************************************)
CONSTANTS Keys, Values

VARIABLES dict,     \* the map: a function from the present keys to values
          pending,  \* the request being served
          answer    \* its answer, once it has taken effect

vars == <<dict, pending, answer>>

NoRequest == [op |-> "None"]
NoAnswer == "none"

Request == [op : {"Get", "Delete"}, key : Keys]
             \cup [op : {"Insert"}, key : Keys, value : Values]

Init ==
    /\ dict = [k \in {} |-> k]
    /\ pending = NoRequest
    /\ answer = NoAnswer

Accept(r) ==
    /\ pending = NoRequest
    /\ pending' = r
    /\ UNCHANGED <<dict, answer>>

Serve ==
    /\ pending # NoRequest
    /\ answer = NoAnswer
    /\ \/ /\ pending.op = "Get"
          /\ answer' = IF pending.key \in DOMAIN dict
                         THEN dict[pending.key] ELSE "ErrNotFound"
          /\ UNCHANGED dict
       \/ /\ pending.op = "Insert"
          /\ dict' = [k \in DOMAIN dict \cup {pending.key} |->
                        IF k = pending.key THEN pending.value ELSE dict[k]]
          /\ answer' = "ok"
       \/ /\ pending.op = "Delete"
          /\ dict' = [k \in DOMAIN dict \ {pending.key} |-> dict[k]]
          /\ answer' = "ok"
    /\ UNCHANGED pending

Answered ==
    /\ answer # NoAnswer
    /\ pending' = NoRequest
    /\ answer' = NoAnswer
    /\ UNCHANGED dict

Next == (\E r \in Request : Accept(r)) \/ Serve \/ Answered

Spec == Init /\ [][Next]_vars
=============================================================================
