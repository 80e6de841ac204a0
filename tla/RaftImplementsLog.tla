------------------------- MODULE RaftImplementsLog -------------------------
(***************************************************************************)
(* A Raft cluster implements a replicated log: what was agreed on is what  *)
(* the checker saw committed, a replica has consumed what its state        *)
(* machine was fed, and it has saved what its snapshot folds together.     *)
(***************************************************************************)
EXTENDS RaftCluster

AgreedEntries == [k \in 1..Len(committed) |-> committed[k].entry]

Log == INSTANCE ReplicatedLog WITH
    Server <- Node,
    Commands <- Entry,
    agreed <- AgreedEntries,
    consumed <- [i \in Node |-> node[i].machine],
    saved <- [i \in Node |-> node[i].snapshot.image]

(***************************************************************************)
(* Every step of the cluster, whoever leads, crashes, compacts, installs a *)
(* snapshot or changes the membership, is a step of the replicated log or  *)
(* none: no state machine goes back except in a crash, and then to its     *)
(* snapshot (RaftNode._set_commit_index, _maybe_compact, _reset_volatile   *)
(* and _on_install_snapshot).                                              *)
(***************************************************************************)
ImplementsReplicatedLog == Log!Spec
=============================================================================
