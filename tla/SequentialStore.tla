-------------------------- MODULE SequentialStore --------------------------
(***************************************************************************)
(* The key-value store as one copy that executes one operation at a time,  *)
(* the way the oracle of raftverified/linearizability.py replays it.       *)
(***************************************************************************)

CONSTANT Key    \* the keys of the store

Absent == ""
EmptyStore == [k \in Key |-> Absent]

Command == [op : {"put", "get", "cas"}, key : Key, value : STRING, expected : STRING]

Matches(store, o) == store[o.key] = o.expected

Result(store, o) ==
    CASE o.op = "put" -> "ok"
      [] o.op = "get" -> store[o.key]
      [] o.op = "cas" -> IF Matches(store, o) THEN "ok" ELSE "fail"

Effect(store, o) ==
    IF o.op = "put" \/ (o.op = "cas" /\ Matches(store, o))
    THEN [store EXCEPT ![o.key] = o.value]
    ELSE store
=============================================================================
