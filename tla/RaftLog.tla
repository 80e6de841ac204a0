------------------------------ MODULE RaftLog ------------------------------
(***************************************************************************)
(* The log of one Raft server behind its compaction boundary, and the      *)
(* cluster configuration derived from it (raftverified/node.py, "log       *)
(* helpers" and "membership").                                             *)
(*                                                                         *)
(* Indices are logical and 1-based.  A server holds the live entries above *)
(* snapshot.last_index in `log'; what lies at or below is folded into its  *)
(* snapshot.  The operators here take any record n with the fields log,    *)
(* snapshot, voters and config_index.                                      *)
(***************************************************************************)
EXTENDS Integers, Sequences, FiniteSets

CONSTANTS
    Node,           \* the servers of the cluster
    Client,         \* the clients of the workload
    InitialVoters,  \* the configuration every server starts from
    None            \* stands for Python's None

ASSUME VotersAssumption ==
    /\ IsFiniteSet(Node)
    /\ InitialVoters \subseteq Node
    /\ InitialVoters # {}
ASSUME NoneAssumption == None \notin Node /\ None \notin Client

(***************************************************************************)
(* A command is a client request (voters = {}) or a configuration entry    *)
(* "cfg:..." that names a voting set.                                      *)
(***************************************************************************)
Command == [client : Client \cup {None}, req : Nat, voters : SUBSET Node]
ClientCommand(c, r) == [client |-> c, req |-> r, voters |-> {}]
encode_config(V) == [client |-> None, req |-> 0, voters |-> V]
IsConfig(command) == command.voters # {}

\* A log entry.  Term -1 never occurs in a log: see RaisedEntry.
Entry == [term : Int, command : Command]

\* What the model puts where the code would raise IndexError: NoIndexError
\* (RaftCluster) says that no step ever gets hold of it.
RaisedEntry == [term |-> -1, command |-> ClientCommand(None, 0)]

(***************************************************************************)
(* A snapshot.  `image' is the sequence of entries folded into it, of      *)
(* which the stored key-value image is a function.  NoSnapshot is the      *)
(* code's `snapshot is None' together with base_index = base_term = 0; in  *)
(* every other state base_index and base_term are the snapshot's.          *)
(***************************************************************************)
Snapshot ==
    [last_index : Nat, last_term : Int, image : Seq(Entry), voters : SUBSET Node]
NoSnapshot ==
    [last_index |-> 0, last_term |-> 0, image |-> <<>>, voters |-> InitialVoters]

---------------------------------------------------------------------------
base_index(n) == n.snapshot.last_index
base_term(n)  == n.snapshot.last_term

last_log_index(n) == base_index(n) + Len(n.log)

\* The 0-based offset into the live log, as Python counts.
_phys(n, index) == index - base_index(n) - 1

\* self.log[offset] for an offset the callers keep non-negative.
entry_at(n, index) ==
    IF _phys(n, index) + 1 \in 1..Len(n.log)
    THEN n.log[_phys(n, index) + 1]
    ELSE RaisedEntry

term_at(n, index) ==
    IF index <= base_index(n) THEN base_term(n) ELSE entry_at(n, index).term

log_suffix(n, from_index) ==
    SubSeq(n.log, (IF _phys(n, from_index) > 0 THEN _phys(n, from_index) ELSE 0) + 1,
           Len(n.log))

(***************************************************************************)
(* Python's slices: an offset beyond the end of a list means its end, and  *)
(* a negative one counts back from the end, down to its beginning.         *)
(***************************************************************************)
SliceOffset(log, k) ==
    CASE k > Len(log)              -> Len(log)
      [] k \in 0..Len(log)         -> k
      [] k < 0 /\ k >= -Len(log)   -> Len(log) + k
      [] OTHER                     -> 0

\* `del self.log[offset:]'.
DelFrom(log, offset) == SubSeq(log, 1, SliceOffset(log, offset))

\* `del self.log[: count]'.
DelPrefixBug(log, count) == <<>>   \* bug: drops the live tail as well
DelPrefix(log, count) == SubSeq(log, SliceOffset(log, count) + 1, Len(log))

---------------------------------------------------------------------------
(***************************************************************************)
(* The governing configuration is that of the latest configuration entry   *)
(* in the log, below it the snapshot's (for NoSnapshot the initial one).   *)
(***************************************************************************)
_adopt_config(n, voters, index) ==
    [n EXCEPT !.voters = voters, !.config_index = index]

\* The positions of the live log that hold a configuration entry.
ConfigPositions(n) == {k \in 1..Len(n.log) : IsConfig(n.log[k].command)}
LastOf(positions) == CHOOSE k \in positions : \A j \in positions : j <= k

_rebuild_config(n) ==
    IF ConfigPositions(n) = {}
    THEN _adopt_config(n, n.snapshot.voters, base_index(n))
    ELSE LET k == LastOf(ConfigPositions(n))
         IN  _adopt_config(n, n.log[k].command.voters, base_index(n) + k)

ConfigAtBug(n, upto) == n.voters   \* bug: records a change that is not folded in
_config_at(n, upto) ==
    LET below == {k \in ConfigPositions(n) : base_index(n) + k <= upto}
    IN  IF below = {} THEN n.snapshot.voters ELSE n.log[LastOf(below)].command.voters
=============================================================================
