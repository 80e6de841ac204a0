--------------------------- MODULE InvariantChecker ---------------------------
(***************************************************************************)
(* The run-time checker of raftverified/invariants.py, watching a cluster  *)
(* in which anything may go wrong.                                         *)
(*                                                                         *)
(* The checker sees the servers through NodeView.  Here they change by any *)
(* operation that a handler has on what can be seen: the operations keep   *)
(* the conventions the checker relies on (a changed log has a new version, *)
(* a crash a new incarnation) and nothing of the protocol.  One server     *)
(* changes in a step, and the checker looks after every step.              *)
(***************************************************************************)
EXTENDS Integers, FiniteSets, SequencesExt

CONSTANTS
    Node,               \* identifiers of the servers, which are numbers
    Entry,              \* [term, command]
    Voters,             \* the configuration each server is in
    snapshot_threshold, \* applied entries that make a server compact, 0 for never
    None,
    MaxLog,             \* bound of the model: the indices of the logs
    MaxTerm, MaxVersion, MaxIncarnation     \* bounds of the model, for each server

ASSUME CheckerAssumption ==
    /\ Node \subseteq Nat /\ IsFiniteSet(Node)
    /\ Voters \in [Node -> SUBSET Node]
    /\ snapshot_threshold \in Nat
    /\ MaxLog \in Nat
    /\ {MaxTerm, MaxVersion, MaxIncarnation} \subseteq [Node -> Nat]

Index == 1..MaxLog
Term == 0..Max({MaxTerm[i] : i \in Node})
Larger(a, b) == IF a > b THEN a ELSE b
Smaller(a, b) == IF a < b THEN a ELSE b

VARIABLES
    nodes,      \* what the checker sees of every server
    checker,    \* its observations and caches
    verdict,    \* the violation it has raised, which ends the run
    \* what really happened, kept without any cache
    led,        \* every <<term, server>> that led
    took_effect,\* every commit that could be seen: its index, entry and observer's
                \* term, and whether it was the first at its index
    highest     \* the highest commit index there ever was

vars == <<nodes, checker, verdict, led, took_effect, highest>>

---------------------------------------------------------------------------
(* NodeView. *)

last_log_index(v) == v.base_index + Len(v.log)
entry_at(v, index) == v.log[index - v.base_index]
term_at(v, index) == IF index <= v.base_index THEN v.base_term ELSE entry_at(v, index).term

FreshView(voters) ==
    [role |-> "follower", term |-> 0, log |-> <<>>, commit_index |-> 0, applied |-> <<>>,
     log_version |-> 0, incarnation |-> 0, base_index |-> 0, base_term |-> 0, voters |-> voters]

\* Views that a step of the server may leave.
Elected(v) == {[v EXCEPT !.role = "leader", !.term = t] : t \in {u \in Term : u > v.term}}
StepsDown(v) == {[v EXCEPT !.role = "follower", !.term = t] : t \in {u \in Term : u >= v.term}}

Received(v) == {e \in Entry : e.term <= v.term}
Appends(v) ==
    IF last_log_index(v) < MaxLog
    THEN {[v EXCEPT !.log = Append(@, e), !.log_version = @ + 1] : e \in Received(v)} ELSE {}

Overwrites(v) ==
    {[v EXCEPT !.log = Append(SubSeq(@, 1, k - 1), e), !.log_version = @ + 1] :
        k \in DOMAIN v.log, e \in Received(v)}

Compacted(v) ==
    LET upto == v.commit_index
    IN  IF snapshot_threshold = 0 \/ upto - v.base_index < snapshot_threshold THEN v
        ELSE [v EXCEPT !.log = SubSeq(@, upto - v.base_index + 1, Len(@)), !.applied = <<>>,
                       !.base_index = upto, !.base_term = term_at(v, upto),
                       !.log_version = @ + 1]

Commits(v) ==
    {Compacted([v EXCEPT !.commit_index = k,
                         !.applied = @ \o [j \in 1..(k - v.commit_index) |->
                                             entry_at(v, v.commit_index + j).command]]) :
        k \in (v.commit_index + 1)..last_log_index(v)}

Installs(v) ==
    {LET keep_tail == /\ last_log_index(v) >= w.base_index
                      /\ term_at(v, w.base_index) = w.base_term
     IN  [v EXCEPT !.log = IF keep_tail
                           THEN SubSeq(@, w.base_index - v.base_index + 1, Len(@)) ELSE <<>>,
                   !.base_index = w.base_index, !.base_term = w.base_term,
                   !.commit_index = w.base_index, !.applied = <<>>, !.log_version = @ + 1] :
        w \in {nodes[j] : j \in {k \in Node : nodes[k].base_index > v.base_index}}}

Crashes(v) ==
    {[v EXCEPT !.role = "follower", !.commit_index = v.base_index, !.applied = <<>>,
               !.incarnation = @ + 1]}

Changed(v) ==
    UNION {Elected(v), StepsDown(v), Appends(v), Overwrites(v), Commits(v), Installs(v), Crashes(v)}

---------------------------------------------------------------------------
(***************************************************************************)
(* The checks.  Each has its violations, and what it leaves in the checker *)
(* when there are none.                                                    *)
(***************************************************************************)
InitChecker ==
    [leaders_by_term |-> [t \in Term |-> None], committed |-> [k \in Index |-> None],
     applied_at |-> [k \in Index |-> None], _max_commit |-> 0,
     _prev_commit |-> [i \in Node |-> 0], _applied_seen |-> [i \in Node |-> 0],
     _incarnation |-> [i \in Node |-> None], _leader_snapshot |-> [i \in Node |-> None],
     _pair_checked |-> [p \in Node \X Node |-> None],
     _completeness_checked |-> [i \in Node |-> None]]

ids == SetToSortSeq(Node, <)

NoRebasingBug(c, ns) == [c EXCEPT !._incarnation = [i \in Node |-> ns[i].incarnation]]
_handle_restarts(c, ns) ==
    LET Restarted(i) == c._incarnation[i] \notin {None, ns[i].incarnation}
    IN  [c EXCEPT !._incarnation = [i \in Node |-> ns[i].incarnation],
                  !._prev_commit = [i \in Node |->
                      IF Restarted(i) THEN ns[i].commit_index ELSE @[i]],
                  !._applied_seen = [i \in Node |->
                      IF Restarted(i) THEN ns[i].base_index + Len(ns[i].applied) ELSE @[i]]]

Leading(ns) == {i \in Node : ns[i].role = "leader"}

_check_election_safety(c, ns) ==
    \E i, j \in Leading(ns) :
        \/ i # j /\ ns[i].term = ns[j].term
        \/ c.leaders_by_term[ns[i].term] \notin {None, i}
RecordLeaders(c, ns) ==
    [c EXCEPT !.leaders_by_term = [t \in Term |->
        IF @[t] = None /\ \E i \in Leading(ns) : ns[i].term = t
        THEN CHOOSE i \in Leading(ns) : ns[i].term = t ELSE @[t]]]

Mutated(old, v) ==
    LET old_top == old.base_index + Len(old.log)
    IN  \/ last_log_index(v) < old_top
        \/ \E index \in (Larger(old.base_index, v.base_index) + 1)..old_top :
              entry_at(old, index) # entry_at(v, index)

_check_leader_append_only(c, ns) ==
    \E i \in Leading(ns) :
        LET snap == c._leader_snapshot[i]
        IN  /\ snap # None
            /\ snap.term = ns[i].term
            /\ snap.log_version # ns[i].log_version
            /\ Mutated(snap, ns[i])
RecordLeaderLogs(c, ns) ==
    [c EXCEPT !._leader_snapshot = [i \in Node |->
        IF i \notin Leading(ns) THEN None
        ELSE [term |-> ns[i].term, log_version |-> ns[i].log_version,
              base_index |-> ns[i].base_index, log |-> ns[i].log]]]

Diverge(v, w) ==
    LET low == Larger(v.base_index, w.base_index) + 1
        high == Smaller(last_log_index(v), last_log_index(w))
    IN  \E top \in low..high :
            /\ term_at(v, top) = term_at(w, top)
            /\ \E index \in low..top : entry_at(v, index) # entry_at(w, index)

Pairs == {p \in Node \X Node : p[1] < p[2]}
OneVersion(ns, p) == ns[p[1]].log_version       \* bug: the key forgets one of the logs
Versions(ns, p) == <<ns[p[1]].log_version, ns[p[2]].log_version>>
_check_log_matching(c, ns) ==
    \E p \in Pairs : c._pair_checked[p] # Versions(ns, p) /\ Diverge(ns[p[1]], ns[p[2]])
RecordPairs(c, ns) ==
    [c EXCEPT !._pair_checked = [p \in Node \X Node |-> IF p \in Pairs THEN Versions(ns, p) ELSE @[p]]]

_holds(v, index, entry) ==
    index <= v.base_index \/ (last_log_index(v) >= index /\ entry_at(v, index) = entry)
IsCommitQuorum(v, ns, index) ==
    2 * Cardinality({j \in v.voters \cap Node : _holds(ns[j], index, entry_at(v, index))})
        > Cardinality(v.voters)

\* One server's commits, in the order of _observe_commits.
NewCommits(c, v, i) == (Larger(c._prev_commit[i], v.base_index) + 1)..v.commit_index
Recommitted(c, v, index) ==
    c.committed[index] # None /\ c.committed[index].entry # entry_at(v, index)
NoQuorum(c, v, ns, index) == index > c._max_commit /\ ~IsCommitQuorum(v, ns, index)
CommitProblem(c, ns, i) ==
    LET v == ns[i]
        bad == {k \in NewCommits(c, v, i) : Recommitted(c, v, k) \/ NoQuorum(c, v, ns, k)}
    IN  CASE v.commit_index < c._prev_commit[i] -> "CommitIndexMonotonic"
          [] v.commit_index >= c._prev_commit[i] /\ bad # {} ->
                IF Recommitted(c, v, CHOOSE k \in bad : \A l \in bad : k <= l)
                THEN "StateMachineSafety" ELSE "CommitQuorum"
          [] OTHER -> None
RecordCommits(c, ns, i) ==
    LET v == ns[i]
    IN  [c EXCEPT !.committed = [index \in Index |->
                      IF @[index] = None /\ index \in NewCommits(c, v, i)
                      THEN [entry |-> entry_at(v, index), term |-> v.term] ELSE @[index]],
                  !._max_commit = Larger(@, v.commit_index),
                  !._prev_commit[i] = v.commit_index]

Lacks(v, index, entry) == last_log_index(v) < index \/ entry_at(v, index) # entry
CompletenessKey(c, v) ==
    <<v.term, v.log_version, Cardinality({index \in Index : c.committed[index] # None})>>
_check_leader_completeness(c, ns) ==
    \E i \in Leading(ns) :
        /\ c._completeness_checked[i] # CompletenessKey(c, ns[i])
        /\ \E index \in Index :
              /\ c.committed[index] # None
              /\ ns[i].term >= c.committed[index].term
              /\ index > ns[i].base_index
              /\ Lacks(ns[i], index, c.committed[index].entry)
RecordCompleteness(c, ns) ==
    [c EXCEPT !._completeness_checked = [i \in Node |->
        IF i \in Leading(ns) THEN CompletenessKey(c, ns[i]) ELSE None]]

AppliedTop(v) == v.base_index + Len(v.applied)
NewApplied(c, v, i) == (Larger(c._applied_seen[i], v.base_index) + 1)..AppliedTop(v)
AppliedProblem(c, ns, i) ==
    IF \E index \in NewApplied(c, ns[i], i) :
          c.applied_at[index] \notin {None, ns[i].applied[index - ns[i].base_index]}
    THEN "StateMachineSafety" ELSE None
RecordApplied(c, ns, i) ==
    [c EXCEPT !.applied_at = [index \in Index |->
                  IF @[index] = None /\ index \in NewApplied(c, ns[i], i)
                  THEN ns[i].applied[index - ns[i].base_index] ELSE @[index]],
              !._applied_seen[i] = Larger(@, AppliedTop(ns[i]))]

\* One server after the other: what is recorded, and the problems in their order.
InTurn(c, ns, Record(_, _, _), Problem(_, _, _)) ==
    FoldLeft(LAMBDA so_far, i : [checker |-> Record(so_far.checker, ns, i),
                                 problems |-> Append(so_far.problems, Problem(so_far.checker, ns, i))],
             [checker |-> c, problems |-> <<>>], ids)

_observe_commits(c, ns) == InTurn(c, ns, RecordCommits, CommitProblem)
_check_state_machine_safety(c, ns) == InTurn(c, ns, RecordApplied, AppliedProblem)

\* InvariantChecker.check: what it leaves recorded, and the first violation it raises.
check(c, ns) ==
    LET start == _handle_restarts(c, ns)
        recorded == RecordPairs(RecordLeaderLogs(RecordLeaders(start, ns), ns), ns)
        commits == _observe_commits(recorded, ns)
        complete == RecordCompleteness(commits.checker, ns)
        machine == _check_state_machine_safety(complete, ns)
        If(violated, name) == <<IF violated THEN name ELSE None>>
        raised == If(_check_election_safety(start, ns), "ElectionSafety")
                  \o If(_check_leader_append_only(start, ns), "LeaderAppendOnly")
                  \o If(_check_log_matching(start, ns), "LogMatching")
                  \o commits.problems
                  \o If(_check_leader_completeness(commits.checker, ns), "LeaderCompleteness")
                  \o machine.problems
    IN  [checker |-> machine.checker,
         verdict |-> Head(SelectSeq(raised, LAMBDA problem : problem # None) \o <<None>>)]

---------------------------------------------------------------------------
(* Cluster.step: a server changes, and the checker looks. *)

Init ==
    /\ nodes = [i \in Node |-> FreshView(Voters[i])]
    /\ checker = check(InitChecker, nodes).checker
    /\ verdict = None
    /\ led = {} /\ took_effect = {} /\ highest = 0

\* The commits of server i in this step that it has not compacted.
TakingEffect(i, v) ==
    {[index |-> k, entry |-> entry_at(v, k), term |-> v.term,
      first |-> \A c \in took_effect : c.index # k] :
        k \in (Larger(nodes[i].commit_index, v.base_index) + 1)..v.commit_index}

step(i) ==
    /\ verdict = None
    /\ \E v \in Changed(nodes[i]) :
          /\ v.term <= MaxTerm[i] /\ v.log_version <= MaxVersion[i]
          /\ v.incarnation <= MaxIncarnation[i]
          /\ nodes' = [nodes EXCEPT ![i] = v]
          /\ took_effect' = took_effect \cup TakingEffect(i, v)
          /\ highest' = Larger(highest, v.commit_index)
    /\ led' = led \cup {<<nodes'[j].term, j>> : j \in Leading(nodes')}
    /\ LET looked == check(checker, nodes')
       IN checker' = looked.checker /\ verdict' = looked.verdict

Next == \E i \in Node : step(i)

Spec == Init /\ [][Next]_vars

---------------------------------------------------------------------------
(***************************************************************************)
(* What is wrong with a step, said of the step itself and of what really   *)
(* happened before it, without caches.                                     *)
(***************************************************************************)
SameRun(i) == nodes'[i].incarnation = nodes[i].incarnation
KeepsLeading(i) ==
    /\ nodes[i].role = "leader" /\ nodes'[i].role = "leader"
    /\ nodes[i].term = nodes'[i].term
NewlyCommitted(i) ==
    (Larger(nodes[i].commit_index, nodes'[i].base_index) + 1)..nodes'[i].commit_index

\* A leader lacks an entry committed in its term or before.
Incomplete(commits) ==
    \E i \in Leading(nodes') : \E c \in commits :
        /\ c.term <= nodes'[i].term /\ c.index > nodes'[i].base_index
        /\ Lacks(nodes'[i], c.index, c.entry)

Wrong(violation) ==
    CASE violation = "ElectionSafety" ->
            \E a, b \in led' : a[1] = b[1] /\ a[2] # b[2]
      [] violation = "LeaderAppendOnly" ->
            \E i \in Node : KeepsLeading(i) /\ Mutated(nodes[i], nodes'[i])
      [] violation = "LogMatching" ->
            \E i, j \in Node : Diverge(nodes'[i], nodes'[j])
      [] violation = "CommitIndexMonotonic" ->
            \E i \in Node : SameRun(i) /\ nodes'[i].commit_index < nodes[i].commit_index
      [] violation = "StateMachineSafety" ->
            \E a, b \in took_effect' : a.index = b.index /\ a.entry # b.entry
      [] violation = "CommitQuorum" ->
            \E i \in Node : \E index \in NewlyCommitted(i) :
                index > highest /\ ~IsCommitQuorum(nodes'[i], nodes', index)
      [] violation = "LeaderCompleteness" ->
            Incomplete(took_effect')

Violations ==
    {"ElectionSafety", "LeaderAppendOnly", "LogMatching", "CommitIndexMonotonic",
     "StateMachineSafety", "CommitQuorum", "LeaderCompleteness"}

(***************************************************************************)
(* The checker raises no false alarm: what it says is violated is          *)
(* violated, in a step that may be a restart, a compaction, or the         *)
(* hundredth since a cache was filled (InvariantChecker.check,             *)
(* _handle_restarts "instead of flagging the reset as a regression").      *)
(***************************************************************************)
NoFalseAlarm == [][verdict' # None => Wrong(verdict')]_vars

(***************************************************************************)
(* The checker misses nothing that can be seen, if a commit counts for the *)
(* term in which it was seen first: when a step violates an invariant, in  *)
(* what the servers still have in their logs, it raises one in that very   *)
(* step, and no cache makes it look away (InvariantChecker, "expensive     *)
(* pairwise log comparisons only rerun when one of the logs actually       *)
(* changed").                                                              *)
(*                                                                         *)
(* Without that condition this is false of the code: _observe_commits      *)
(* keeps the term of the first observer alone, so a leader of an earlier   *)
(* term is not held to an entry that another server of its term, or of     *)
(* one before, is seen to commit only later.                               *)
(***************************************************************************)
WrongByFirstTerms(violation) ==
    IF violation = "LeaderCompleteness"
    THEN Incomplete({c \in took_effect' : c.first})
    ELSE Wrong(violation)

MissesNothingFirstSeen ==
    [][verdict' = None => \A violation \in Violations : ~WrongByFirstTerms(violation)]_vars
=============================================================================
