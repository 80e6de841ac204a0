---------------------------- MODULE RaftCluster ----------------------------
(***************************************************************************)
(* A cluster of Raft servers on an unreliable network with the drivers of  *)
(* raftverified/cluster.py: clients that retry, crashes and restarts,      *)
(* membership changes, and the observations of the run-time checker        *)
(* (raftverified/invariants.py).                                           *)
(*                                                                         *)
(* The network is the set of all messages ever sent.  A step may deliver   *)
(* any of them: the simulator drops, duplicates, delays and reorders, and  *)
(* what is not delivered here is lost.  A partition is a period in which   *)
(* nothing is delivered between its sides.  One step here is one event of  *)
(* the simulator: a whole handler runs, then the checker looks.            *)
(***************************************************************************)
EXTENDS RaftNode

CONSTANTS
    \* bounds of the model
    Campaigns,      \* which server may call an election for which term
    MaxLogLength,   \* no command is appended to a log this long
    Requests,       \* the <<client, request>> pairs the workload has
    MaxReads,       \* ReadIndex rounds that may be started
    MaxStaleness,   \* a message this many terms behind its receiver is lost
    \* what the environment does
    Reads,          \* the requests that are ReadIndex reads
    Proposals,      \* voting sets the membership driver may propose
    Crashable,      \* servers that may crash
    Links           \* the <<sender, receiver>> pairs whose link is up

ASSUME BoundsAssumption ==
    /\ Campaigns \subseteq Node \X Nat
    /\ MaxLogLength \in Nat /\ MaxReads \in Nat /\ MaxStaleness \in Nat
    /\ Requests \subseteq Client \X Nat
ASSUME EnvironmentAssumption ==
    /\ Reads \subseteq Requests
    /\ Proposals \subseteq SUBSET Node
    /\ Crashable \subseteq Node
    /\ Links \subseteq Node \X Node

VARIABLES
    node,       \* the record of every server
    msgs,       \* every message ever sent
    next_req,   \* Cluster._next_req: the request each client is working on
    leaders,    \* every <<term, server>> that was seen leading
    committed,  \* every entry seen committed, with the term of its observer
    read_floor  \* for every ReadIndex round, how much was committed when it began

vars == <<node, msgs, next_req, leaders, committed, read_floor>>

Init ==
    /\ node = [i \in Node |-> InitNode]
    /\ msgs = {}
    /\ next_req = [c \in Client |-> 0]
    /\ leaders = {}
    /\ committed = <<>>
    /\ read_floor = [i \in Node |-> <<>>]

---------------------------------------------------------------------------
(***************************************************************************)
(* The checker after a step of server i, whose record is now n: remember   *)
(* who leads which term, and the entries committed for the first time.     *)
(***************************************************************************)
ObserveLeader(i, n) ==
    leaders' = leaders \cup (IF n.role = "leader" THEN {<<n.term, i>>} ELSE {})

ObserveCommits(n) ==
    committed' = committed \o
        [k \in 1..Larger(0, Len(n.machine) - Len(committed)) |->
            [entry |-> n.machine[Len(committed) + k], term |-> n.term]]

\* What the client-history oracle knows of a read: what came before it.
ObserveRead(i, n) ==
    read_floor' = IF n.next_read_id > node[i].next_read_id
                  THEN [read_floor EXCEPT ![i] = Append(@, Len(committed))]
                  ELSE read_floor

\* Cluster._on_apply: the first report of a client's request lets it move on.
_on_apply(reported) ==
    next_req' = [c \in Client |->
        IF ClientCommand(c, next_req[c]) \in reported THEN next_req[c] + 1 ELSE next_req[c]]

\* Server i takes a step with the given effect.
Step(i, effect) ==
    /\ node' = [node EXCEPT ![i] = effect.node]
    /\ msgs' = msgs \cup effect.out
    /\ _on_apply(effect.reported)
    /\ ObserveLeader(i, effect.node)
    /\ ObserveCommits(effect.node)
    /\ ObserveRead(i, effect.node)

Leads(i) == node[i].alive /\ node[i].role = "leader"

---------------------------------------------------------------------------
(* Events. *)

Deliver(m) ==
    /\ node[m.dst].alive
    /\ <<m.src, m.dst>> \in Links
    /\ node[m.dst].term - m.term < MaxStaleness
    /\ Step(m.dst, handle(m.dst, node[m.dst], m))

_on_election_timeout(i) ==
    /\ node[i].alive
    /\ node[i].timer = "election"
    /\ node[i].role # "leader"
    /\ i \in node[i].voters => <<i, node[i].term + 1>> \in Campaigns
    /\ Step(i, start_election(i, node[i]))

_on_heartbeat(i) ==
    /\ node[i].alive
    /\ node[i].timer = "heartbeat"
    /\ node[i].role = "leader"
    /\ Step(i, HeartbeatTimeout(i, node[i]))

ReadRounds == UNION {{i} \X DOMAIN read_floor[i] : i \in Node}

ReadTooEarlyBug(c, i) ==           \* bug: reads before its first commit as well
    /\ Leads(i)
    /\ <<c, next_req[c]>> \in Requests
    /\ IF <<c, next_req[c]>> \in Reads
       THEN /\ Cardinality(ReadRounds) < MaxReads
            /\ Step(i, request_read(i, node[i], c, next_req[c]))
       ELSE /\ last_log_index(node[i]) < MaxLogLength
            /\ Step(i, client_command(i, node[i], c, next_req[c]))
\* Client c tries its current request at server i, a command or a read.
_client_tick(c, i) ==
    /\ Leads(i)
    /\ <<c, next_req[c]>> \in Requests
    /\ \/ /\ <<c, next_req[c]>> \notin Reads
          /\ last_log_index(node[i]) < MaxLogLength
          /\ Step(i, client_command(i, node[i], c, next_req[c]))
       \/ /\ <<c, next_req[c]>> \in Reads
          /\ Cardinality(ReadRounds) < MaxReads
          /\ node[i].committed_this_term
          /\ Step(i, request_read(i, node[i], c, next_req[c]))

_membership_tick(i, proposal) ==
    /\ Leads(i)
    /\ last_log_index(node[i]) < MaxLogLength
    /\ MayChangeConfig(i, node[i], proposal)
    /\ Step(i, change_config(i, node[i], proposal))

Pause(i) ==
    /\ node[i].alive
    /\ i \in Crashable
    /\ Step(i, Silent(pause(node[i])))

Resume(i) ==
    /\ ~node[i].alive
    /\ Step(i, Silent(resume(node[i])))

Next ==
    \/ \E m \in msgs : Deliver(m)
    \/ \E i \in Node :
        \/ _on_election_timeout(i)
        \/ _on_heartbeat(i)
        \/ \E c \in Client : _client_tick(c, i)
        \/ \E proposal \in Proposals : _membership_tick(i, proposal)
        \/ Pause(i)
        \/ Resume(i)

Spec == Init /\ [][Next]_vars

---------------------------------------------------------------------------
(***************************************************************************)
(* The records, messages and observations have their types.                *)
(***************************************************************************)
TypeOK ==
    /\ node \in [Node -> NodeState]
    /\ msgs \subseteq Message
    /\ next_req \in [Client -> Nat]
    /\ leaders \subseteq Nat \X Node
    /\ committed \in Seq([entry : Entry, term : Nat])
    /\ read_floor \in [Node -> Seq(Nat)]

\* The whole log of a server from index 1 on: what it compacted and what is live.
FullLog(n) == n.snapshot.image \o n.log

(***************************************************************************)
(* Election Safety: no two servers are ever seen leading the same term,    *)
(* whatever was lost, duplicated or forgotten in a crash in between        *)
(* (InvariantChecker._check_election_safety).                              *)
(***************************************************************************)
ElectionSafety ==
    \A x, y \in leaders : x[1] = y[1] => x[2] = y[2]

(***************************************************************************)
(* Log Matching: two logs that have entries of the same term at an index   *)
(* are identical up to that index, the compacted prefixes included         *)
(* (InvariantChecker._check_log_matching, which looks above them only).    *)
(***************************************************************************)
LogMatching ==
    \A i, j \in Node :
        LET a == FullLog(node[i])
            b == FullLog(node[j])
        IN  \A k \in DOMAIN a \cap DOMAIN b :
                a[k].term = b[k].term => SubSeq(a, 1, k) = SubSeq(b, 1, k)

(***************************************************************************)
(* Leader Completeness: whoever leads has every entry that was seen        *)
(* committed in its term or an earlier one                                 *)
(* (InvariantChecker._check_leader_completeness).                          *)
(***************************************************************************)
LeaderCompleteness ==
    \A i \in Node : \A k \in 1..Len(committed) :
        node[i].role = "leader" /\ committed[k].term <= node[i].term =>
            /\ k \in DOMAIN FullLog(node[i])
            /\ FullLog(node[i])[k] = committed[k].entry

(***************************************************************************)
(* State Machine Safety: every server has applied a prefix of the one      *)
(* sequence of committed entries, over all incarnations and snapshots      *)
(* (InvariantChecker._check_state_machine_safety and _observe_commits).    *)
(***************************************************************************)
StateMachineSafety ==
    \A i \in Node :
        /\ Len(node[i].machine) <= Len(committed)
        /\ \A k \in 1..Len(node[i].machine) : node[i].machine[k] = committed[k].entry

(***************************************************************************)
(* Leader Append-Only: a server that leads a term before and after a step  *)
(* has kept every entry of its log                                         *)
(* (InvariantChecker._check_leader_append_only).                           *)
(***************************************************************************)
IsPrefixOf(s, t) == Len(s) <= Len(t) /\ SubSeq(t, 1, Len(s)) = s
KeepsItsLog(i) ==
    node[i].role = "leader" /\ node'[i].role = "leader" /\ node'[i].term = node[i].term =>
        IsPrefixOf(FullLog(node[i]), FullLog(node'[i]))
LeaderAppendOnly == [][\A i \in Node : KeepsItsLog(i)]_vars

(***************************************************************************)
(* Commit Index Monotonic: commit_index falls only in a crash              *)
(* (InvariantChecker._observe_commits).                                    *)
(***************************************************************************)
CommitIndexMonotonic ==
    [][\A i \in Node : node[i].alive /\ node'[i].alive =>
            node[i].commit_index <= node'[i].commit_index]_vars

(***************************************************************************)
(* Nothing committed is ever lost: no step of a server, a crash or a       *)
(* duplicated message included, changes an entry that it knows to be       *)
(* committed (RaftNode._on_append_entries: "idempotent and never truncates *)
(* committed entries").                                                    *)
(***************************************************************************)
CommittedIsKept ==
    [][\A i \in Node :
        IsPrefixOf(SubSeq(FullLog(node[i]), 1, node[i].commit_index), FullLog(node'[i]))]_vars

(***************************************************************************)
(* Commit Quorum: an entry is seen committed for the first time at a       *)
(* server whose current configuration has a majority that holds it         *)
(* (InvariantChecker._observe_commits and _holds).                         *)
(***************************************************************************)
Holders(cluster, k, e) ==
    {v \in Node : k \in DOMAIN FullLog(cluster[v]) /\ FullLog(cluster[v])[k] = e}
CommitQuorum ==
    [][\A i \in Node : \A k \in (Len(committed) + 1)..Len(node'[i].machine) :
            IsMajority(Holders(node', k, node'[i].machine[k]), node'[i].voters)]_vars

(***************************************************************************)
(* A ReadIndex read is fresh: the state it is answered from contains every *)
(* entry that was committed anywhere when the read began, so a deposed     *)
(* leader never answers one with old data (RaftNode.request_read,          *)
(* _on_read_ack and _try_serve_read).                                      *)
(***************************************************************************)
Reading(n) == {p.id : p \in n.pending_reads}
Served(i) ==
    IF node'[i].role = "leader" /\ node'[i].term = node[i].term
    THEN {id \in 0..(node'[i].next_read_id - 1) :
            /\ id \in Reading(node[i]) \/ id >= node[i].next_read_id
            /\ id \notin Reading(node'[i])}
    ELSE {}
ReadsAreFresh ==
    [][\A i \in Node : \A id \in Served(i) :
            last_applied(node'[i]) >= read_floor'[i][id + 1]]_vars

(***************************************************************************)
(* A server is never without a way to act: while it is up, the timer that  *)
(* _timer_seq lets through is the one its role waits for.  A handler that  *)
(* armed the wrong one would leave a leader mute or a follower passive.    *)
(***************************************************************************)
TimerMatchesRole ==
    \A i \in Node : node[i].timer =
        IF ~node[i].alive THEN "none"
        ELSE IF node[i].role = "leader" THEN "heartbeat" ELSE "election"

(***************************************************************************)
(* A server may crash at any point and lose nothing it promised: a vote is *)
(* never changed or withdrawn within a term, and terms never go back.      *)
(***************************************************************************)
VoteIsFinal ==
    [][\A i \in Node :
        /\ node[i].term <= node'[i].term
        /\ node[i].term = node'[i].term /\ node[i].voted_for # None =>
               node'[i].voted_for = node[i].voted_for]_vars

(***************************************************************************)
(* Membership is derived state: a server acts on the configuration that    *)
(* its whole log names last, and its snapshot carries the one that the     *)
(* compacted prefix names last, so neither a truncation, a compaction, a   *)
(* crash nor a snapshot from elsewhere can leave it with a configuration   *)
(* nobody logged (RaftNode._adopt_config, _rebuild_config, _config_at).    *)
(***************************************************************************)
ConfigNamedBy(entries) ==
    LET configs == {k \in DOMAIN entries : IsConfig(entries[k].command)}
    IN  IF configs = {} THEN InitialVoters ELSE entries[Maximum(configs)].command.voters
ConfigIsDerived ==
    \A i \in Node :
        /\ node[i].voters = ConfigNamedBy(FullLog(node[i]))
        /\ node[i].snapshot.voters = ConfigNamedBy(node[i].snapshot.image)

(***************************************************************************)
(* What a leader counts is real: the entries up to match_index[v] of its   *)
(* log are in the log of v, for every server v that has not left the       *)
(* leader's term, whatever replies were lost, repeated or overtaken        *)
(* (RaftNode._on_append_reply, which feeds _advance_commit).               *)
(***************************************************************************)
MatchIsHeld ==
    \A i, v \in Node :
        Leads(i) /\ node[v].term = node[i].term =>
            \A k \in 1..node[i].match_index[v] :
                /\ k \in DOMAIN FullLog(node[i]) \cap DOMAIN FullLog(node[v])
                /\ FullLog(node[i])[k] = FullLog(node[v])[k]

(***************************************************************************)
(* No handler indexes a log outside its bounds (IndexError ends the run):  *)
(* what a leader believes of a follower never exceeds its own log.         *)
(***************************************************************************)
NoIndexError ==
    /\ \A m \in msgs : m.type = "AppendEntries" => m.prev_term # -1
    /\ \A i \in Node : \A k \in 1..Len(node[i].machine) : node[i].machine[k] # RaisedEntry

(***************************************************************************)
(* Exactly once in the log: while nothing is compacted, no log holds the   *)
(* same request twice, however often it is retried and at however many     *)
(* leaders (RaftNode.client_command and _rebuild_client_index).            *)
(***************************************************************************)
NoDuplicateRequest ==
    \A i \in Node : \A j, k \in 1..Len(node[i].log) :
        node[i].log[j].command = node[i].log[k].command /\ ~IsConfig(node[i].log[j].command)
            => j = k
=============================================================================
