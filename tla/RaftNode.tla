----------------------------- MODULE RaftNode ------------------------------
(***************************************************************************)
(* One Raft server (class RaftNode of raftverified/node.py).  The state of *)
(* a server is a record; a method is an operator that takes the server's   *)
(* id i, its record n and the arguments, and gives the record after the    *)
(* call, or an effect: the record, the messages sent and the commands the  *)
(* call passed to the on_apply callback.  Timers are part of the record:   *)
(* `timer' is the kind of callback that _timer_seq still lets through.     *)
(* Not kept: leader_id (written, never read), log_version and incarnation  *)
(* (read by the run-time checker only).                                    *)
(***************************************************************************)
EXTENDS RaftLog

CONSTANT SnapshotThreshold    \* RaftConfig.snapshot_threshold; 0 disables snapshots

ASSUME ThresholdAssumption == SnapshotThreshold \in Nat

Role == {"follower", "candidate", "leader"}

\* An in-flight ReadIndex read: self._pending_reads[id] = (command, index, acks).
PendingRead == [id : Nat, command : Command, index : Nat, acks : SUBSET Node]

NodeState ==
    [ \* persistent
      term : Nat, voted_for : Node \cup {None}, log : Seq(Entry), snapshot : Snapshot,
      \* volatile
      role : Role, commit_index : Nat, machine : Seq(Entry), alive : BOOLEAN,
      timer : {"none", "election", "heartbeat"},
      \* derived from the log and the snapshot
      voters : SUBSET Node, config_index : Nat,
      \* candidate and leader bookkeeping
      votes : SUBSET Node, next_index : [Node -> Nat \ {0}], match_index : [Node -> Nat],
      client_index : [Client -> Int], committed_this_term : BOOLEAN,
      pending_reads : SUBSET PendingRead, next_read_id : Nat ]

(***************************************************************************)
(* `machine' is the sequence of all entries ever folded into the key-value *)
(* state; kv.store and kv.sessions are functions of it, `applied' is its   *)
(* part above base_index, and its length is last_applied.                  *)
(***************************************************************************)
last_applied(n) == Len(n.machine)

\* __init__ and start().
InitNode ==
    [ term |-> 0, voted_for |-> None, log |-> <<>>, snapshot |-> NoSnapshot,
      role |-> "follower", commit_index |-> 0, machine |-> <<>>, alive |-> TRUE,
      timer |-> "election", voters |-> InitialVoters, config_index |-> 0,
      votes |-> {}, next_index |-> [p \in Node |-> 1],
      match_index |-> [p \in Node |-> 0], client_index |-> [c \in Client |-> -1],
      committed_this_term |-> FALSE, pending_reads |-> {}, next_read_id |-> 0 ]

---------------------------------------------------------------------------
(* Messages: src is the code's candidate, voter, leader or follower field. *)

RequestVote(i, p, n) ==
    [type |-> "RequestVote", src |-> i, dst |-> p, term |-> n.term,
     last_log_index |-> last_log_index(n), last_log_term |-> term_at(n, last_log_index(n))]
VoteReply(i, p, n, granted) ==
    [type |-> "VoteReply", src |-> i, dst |-> p, term |-> n.term, granted |-> granted]
AppendEntries(i, p, n, prev) ==
    [type |-> "AppendEntries", src |-> i, dst |-> p, term |-> n.term, prev_index |-> prev,
     prev_term |-> term_at(n, prev), entries |-> log_suffix(n, prev + 1),
     leader_commit |-> n.commit_index]
AppendReply(i, p, n, success, match) ==
    [type |-> "AppendReply", src |-> i, dst |-> p, term |-> n.term,
     success |-> success, match_index |-> match]
InstallSnapshot(i, p, n) ==
    [type |-> "InstallSnapshot", src |-> i, dst |-> p, term |-> n.term,
     snapshot |-> n.snapshot]
ReadHeartbeat(i, p, n, read_id) ==
    [type |-> "ReadHeartbeat", src |-> i, dst |-> p, term |-> n.term, read_id |-> read_id]
ReadAck(i, p, n, read_id) ==
    [type |-> "ReadAck", src |-> i, dst |-> p, term |-> n.term, read_id |-> read_id]

Message ==
    [type : {"RequestVote"}, src : Node, dst : Node, term : Nat,
     last_log_index : Nat, last_log_term : Int]
    \cup [type : {"VoteReply"}, src : Node, dst : Node, term : Nat, granted : BOOLEAN]
    \cup [type : {"AppendEntries"}, src : Node, dst : Node, term : Nat, prev_index : Nat,
          prev_term : Int, entries : Seq(Entry), leader_commit : Nat]
    \cup [type : {"AppendReply"}, src : Node, dst : Node, term : Nat,
          success : BOOLEAN, match_index : Nat]
    \cup [type : {"InstallSnapshot"}, src : Node, dst : Node, term : Nat,
          snapshot : Snapshot]
    \cup [type : {"ReadHeartbeat", "ReadAck"}, src : Node, dst : Node, term : Nat,
          read_id : Nat]

\* What a call does: the new record, the messages sent, the commands reported.
Effect(n, out, reported) == [node |-> n, out |-> out, reported |-> reported]
Silent(n) == Effect(n, {}, {})

\* Bug: off by one, half of an odd number of voters is enough.
IsMajorityBug(S, voters) == Cardinality(S \cap voters) >= Cardinality(voters) \div 2
IsMajority(S, voters) == Cardinality(S \cap voters) * 2 > Cardinality(voters)
Maximum(S) == CHOOSE x \in S : \A y \in S : y <= x
Larger(a, b) == IF a > b THEN a ELSE b

---------------------------------------------------------------------------
(* Replication: what a leader sends. *)

_send_append_entries(i, n, peer) ==
    LET prev == n.next_index[peer] - 1
    IN  IF prev < base_index(n)
        THEN InstallSnapshot(i, peer, n)
        ELSE AppendEntries(i, peer, n, prev)

_broadcast_heartbeats(i, n) == {_send_append_entries(i, n, p) : p \in n.voters \ {i}}

---------------------------------------------------------------------------
(* Commit and apply. *)

\* Fold the applied prefix into a snapshot once it is long enough.
_maybe_compact(n) ==
    LET upto == last_applied(n) IN
    IF SnapshotThreshold <= 0 \/ upto - base_index(n) < SnapshotThreshold
    THEN n
    ELSE [n EXCEPT
           !.log = DelPrefix(@, upto - base_index(n)),
           !.snapshot = [last_index |-> upto, last_term |-> term_at(n, upto),
                         image |-> n.machine, voters |-> _config_at(n, upto)]]

\* Raise commit_index and apply everything up to it, in log order.
_set_commit_index(n, index) ==
    IF index <= n.commit_index
    THEN n
    ELSE LET new == [k \in 1..(index - last_applied(n)) |-> entry_at(n, last_applied(n) + k)]
         IN  _maybe_compact([n EXCEPT !.commit_index = index, !.machine = @ \o new])

\* The commands a step from n to m passed to on_apply.
AppliedSince(n, m) ==
    {m.machine[k].command : k \in (last_applied(n) + 1)..last_applied(m)}

\* The entries from index k on are all of the leader's own term.
OfThisTermBug(n, k) == TRUE        \* bug: commits older terms by counting replicas
OfThisTerm(n, k) == \A j \in k..last_log_index(n) : term_at(n, j) = n.term

\* A majority of the current configuration has the entry at index k.
ReplicatedEarlyBug(n, k) == IsMajority({v \in Node : n.match_index[v] >= k - 1}, n.voters)
Replicated(n, k) == IsMajority({v \in Node : n.match_index[v] >= k}, n.voters)

(***************************************************************************)
(* Scanning down from the last entry, the loop gives up at the first entry *)
(* of an older term and commits the first index that a majority of the     *)
(* current configuration has.                                              *)
(***************************************************************************)
_advance_commit(n) ==
    LET ready == {k \in (n.commit_index + 1)..last_log_index(n) :
                    OfThisTerm(n, k) /\ Replicated(n, k)}
    IN  IF ready = {}
        THEN n
        ELSE [_set_commit_index(n, Maximum(ready)) EXCEPT !.committed_this_term = TRUE]

---------------------------------------------------------------------------
(* Role transitions. *)

BecomeFollowerBug(n, term) ==      \* bug: forgets the vote even within the term
    [n EXCEPT !.term = term, !.voted_for = None, !.role = "follower",
              !.pending_reads = {}, !.timer = "election"]
_become_follower(n, term) ==
    [n EXCEPT !.term = term,
              !.voted_for = IF term > n.term THEN None ELSE @,
              !.role = "follower",
              !.pending_reads = {},
              !.timer = "election"]

\* The highest request id of each client among the live entries of the log.
NoClientIndexBug(n) == [c \in Client |-> -1]        \* bug: a new leader starts empty
_rebuild_client_index(n) ==
    [c \in Client |->
        LET ids == {n.log[k].command.req : k \in {j \in 1..Len(n.log) :
                                                   n.log[j].command.client = c}}
        IN  IF ids = {} THEN -1 ELSE Maximum(ids)]

_become_leader(i, n) ==
    LET last == last_log_index(n)
        lead == [n EXCEPT !.role = "leader",
                          !.next_index = [p \in Node |-> last + 1],
                          !.match_index = [p \in Node |-> IF p = i THEN last ELSE 0],
                          !.committed_this_term = FALSE,
                          !.client_index = _rebuild_client_index(n),
                          !.timer = "heartbeat"]
    IN  Effect(lead, _broadcast_heartbeats(i, lead), {})

_maybe_win(i, n) ==
    IF n.role = "candidate" /\ IsMajority(n.votes, n.voters)
    THEN _become_leader(i, n)
    ELSE Silent(n)

\* A server outside its own configuration only re-arms its timer.
start_election(i, n) ==
    IF i \notin n.voters
    THEN Silent([n EXCEPT !.timer = "election"])
    ELSE LET cand == [n EXCEPT !.term = @ + 1, !.role = "candidate", !.voted_for = i,
                               !.votes = {i}, !.timer = "election"]
             win  == _maybe_win(i, cand)
         IN  Effect(win.node, {RequestVote(i, p, cand) : p \in cand.voters \ {i}} \cup win.out, {})

\* _on_heartbeat: replicate to everyone and re-arm.
HeartbeatTimeout(i, n) == Effect([n EXCEPT !.timer = "heartbeat"], _broadcast_heartbeats(i, n), {})

---------------------------------------------------------------------------
(* Crash and restart: only term, voted_for, log and snapshot are on disk. *)

\* The state machine and what is known committed, as of a snapshot.
RestoreBug(n, snap) ==             \* bug: kv.restore is not called
    [n EXCEPT !.machine = <<>>, !.commit_index = snap.last_index]
Restore(n, snap) ==
    [n EXCEPT !.machine = snap.image, !.commit_index = snap.last_index]

pause(n) ==
    _rebuild_config(
        [Restore(n, n.snapshot) EXCEPT
           !.alive = FALSE, !.role = "follower", !.timer = "none",
           !.next_index = [p \in Node |-> 1], !.match_index = [p \in Node |-> 0],
           !.votes = {}, !.client_index = [c \in Client |-> -1],
           !.pending_reads = {}, !.committed_this_term = FALSE])

ResumeNoTimerBug(n) == [n EXCEPT !.alive = TRUE]    \* bug: no timer is armed
ResumeNoVoteBug(n) ==              \* bug: the vote was not on disk
    [n EXCEPT !.alive = TRUE, !.timer = "election", !.voted_for = None]
resume(n) == [n EXCEPT !.alive = TRUE, !.timer = "election"]

---------------------------------------------------------------------------
(* The client interface; the callers check that the server leads and lives. *)

AppendToLog(i, n, command) ==
    LET grown == [n EXCEPT !.log = Append(@, [term |-> n.term, command |-> command])]
    IN  [grown EXCEPT !.match_index[i] = last_log_index(grown)]

\* A request the leader's log is known to hold already is not appended again.
client_command(i, n, c, r) ==
    IF r <= n.client_index[c]
    THEN Silent(n)
    ELSE LET m == AppendToLog(i, [n EXCEPT !.client_index[c] = r], ClientCommand(c, r))
         IN  Effect(m, _broadcast_heartbeats(i, m), {})

\* The guards that make a change effective on append safe.
TwoChangesBug(i, n, new) ==        \* bug: a second change may be in flight
    /\ Cardinality((new \ n.voters) \cup (n.voters \ new)) = 1
    /\ i \in new
    /\ n.committed_this_term
MayChangeConfig(i, n, new) ==
    /\ Cardinality((new \ n.voters) \cup (n.voters \ new)) = 1
    /\ i \in new
    /\ n.config_index <= n.commit_index
    /\ n.committed_this_term

change_config(i, n, new) ==
    LET grown == AppendToLog(i, n, encode_config(new))
        m == _adopt_config(grown, new, last_log_index(grown))
    IN  Effect(m, _broadcast_heartbeats(i, m), {})

---------------------------------------------------------------------------
(* ReadIndex reads: confirm leadership by a round of acks, serve locally. *)

ConfirmedBug(n, p) == TRUE         \* bug: leadership is not confirmed
Confirmed(n, p) == IsMajority(p.acks, n.voters)

_try_serve_read(n, p) ==
    IF Confirmed(n, p) /\ last_applied(n) >= p.index
    THEN Effect([n EXCEPT !.pending_reads = @ \ {p}], {}, {p.command})
    ELSE Silent(n)

request_read(i, n, c, r) ==
    LET p == [id |-> n.next_read_id, command |-> ClientCommand(c, r),
              index |-> n.commit_index, acks |-> {i}]
        asked == [n EXCEPT !.next_read_id = @ + 1, !.pending_reads = @ \cup {p}]
        done == _try_serve_read(asked, p)
    IN  Effect(done.node, {ReadHeartbeat(i, q, n, p.id) : q \in n.voters \ {i}}, done.reported)

_on_read_heartbeat(i, n, m) ==
    LET follow == IF m.term > n.term THEN _become_follower(n, m.term) ELSE n
        armed  == IF m.term >= n.term THEN [follow EXCEPT !.timer = "election"] ELSE follow
    IN  Effect(armed, {ReadAck(i, m.src, armed, m.read_id)}, {})

_on_read_ack(i, n, m) ==
    IF m.term > n.term
    THEN Silent(_become_follower(n, m.term))
    ELSE IF m.term # n.term \/ n.role # "leader"
              \/ ~ \E p \in n.pending_reads : p.id = m.read_id
    THEN Silent(n)
    ELSE LET p == CHOOSE q \in n.pending_reads : q.id = m.read_id
             acked == [p EXCEPT !.acks = @ \cup {m.src}]
         IN  _try_serve_read([n EXCEPT !.pending_reads = (@ \ {p}) \cup {acked}], acked)

---------------------------------------------------------------------------
(* Elections. *)

UpToDateBug(n, m) == TRUE          \* bug: votes for anybody
\* Section 5.4.1: the candidate's log is at least as up to date as ours.
UpToDate(n, m) ==
    LET my_last_term == term_at(n, last_log_index(n))
    IN  \/ m.last_log_term > my_last_term
        \/ m.last_log_term = my_last_term /\ m.last_log_index >= last_log_index(n)

_on_request_vote(i, n, m) ==
    LET at == IF m.term > n.term THEN _become_follower(n, m.term) ELSE n
        granted == /\ m.term = at.term
                   /\ at.voted_for \in {None, m.src}
                   /\ UpToDate(at, m)
        after == IF granted THEN [at EXCEPT !.voted_for = m.src, !.timer = "election"] ELSE at
    IN  Effect(after, {VoteReply(i, m.src, after, granted)}, {})

RefusalCountsBug(i, n, m) ==       \* bug: takes any answer of the term for a vote
    IF m.term > n.term
    THEN Silent(_become_follower(n, m.term))
    ELSE IF n.role # "candidate" \/ m.term < n.term
    THEN Silent(n)
    ELSE _maybe_win(i, [n EXCEPT !.votes = @ \cup {m.src}])
_on_vote_reply(i, n, m) ==
    IF m.term > n.term
    THEN Silent(_become_follower(n, m.term))
    ELSE IF n.role # "candidate" \/ m.term < n.term \/ ~m.granted
    THEN Silent(n)
    ELSE _maybe_win(i, [n EXCEPT !.votes = @ \cup {m.src}])

---------------------------------------------------------------------------
(* AppendEntries. *)

\* Entries after prev_index may be taken only if ours at prev_index matches.
ConsistentBug(n, m) ==             \* bug: looks at the length, not at the term
    m.prev_index = 0 \/ last_log_index(n) >= m.prev_index
Consistent(n, m) ==
    \/ m.prev_index = 0
    \/ /\ last_log_index(n) >= m.prev_index
       /\ term_at(n, m.prev_index) = m.prev_term

\* An entry we have at this index is not the one the leader sends.
ConflictsBug(n, index, e) == TRUE  \* bug: truncates whatever overlaps
Conflicts(n, index, e) == term_at(n, index) # e.term

\* The governing configuration entry may have been truncated.
CheckConfigBug(n, index) == n      \* bug: keeps acting on a truncated configuration
CheckConfig(n, index) == IF n.config_index >= index THEN _rebuild_config(n) ELSE n

\* One turn of the loop over msg.entries, for the entry at a logical index.
TakeEntry(n, index, e) ==
    LET present  == last_log_index(n) >= index
        cut      == [n EXCEPT !.log = DelFrom(@, _phys(n, index))]
        room     == IF present THEN CheckConfig(cut, index) ELSE n
        appended == [room EXCEPT !.log = Append(@, e)]
    IN  IF present /\ ~Conflicts(n, index, e)
        THEN n
        ELSE IF IsConfig(e.command)
        THEN _adopt_config(appended, e.command.voters, index)
        ELSE appended

TakeEntries(n, prev_index, entries) ==
    LET after[k \in 0..Len(entries)] ==
            IF k = 0 THEN n ELSE TakeEntry(after[k - 1], prev_index + k, entries[k])
    IN  after[Len(entries)]

\* The last index that the message vouches for.
MatchBug(m) == m.prev_index + Len(m.entries) + 1        \* bug: off by one
Match(m) == m.prev_index + Len(m.entries)

\* How far the message lets a follower commit.
CommitBound(m) == IF m.leader_commit < Match(m) THEN m.leader_commit ELSE Match(m)

\* Bug: a reordered message lowers the commit index (bugs.allow_commit_regression).
FollowCommitBug(n, m) == [n EXCEPT !.commit_index = CommitBound(m)]
FollowCommit(n, m) ==
    IF m.leader_commit > n.commit_index
    THEN _set_commit_index(n, Larger(n.commit_index, CommitBound(m)))
    ELSE n

_on_append_entries(i, n, m) ==
    LET seen == IF m.term > n.term THEN _become_follower(n, m.term) ELSE n
        follow == IF seen.role # "follower" THEN _become_follower(seen, m.term)
                                            ELSE [seen EXCEPT !.timer = "election"]
        after == FollowCommit(TakeEntries(follow, m.prev_index, m.entries), m)
    IN  IF m.term < n.term
        THEN Effect(n, {AppendReply(i, m.src, n, FALSE, 0)}, {})
        ELSE IF ~Consistent(follow, m)
        THEN Effect(follow, {AppendReply(i, m.src, follow, FALSE, 0)}, {})
        ELSE Effect(after, {AppendReply(i, m.src, after, TRUE, Match(m))}, AppliedSince(n, after))

\* The next index to send after a reply, and after a refusal.
NextAfterBug(match) == match + 2                        \* bug: off by one
NextAfter(match) == match + 1
BackOffBug(next) == next - 1                            \* bug: not bounded below
BackOff(next) == Larger(1, next - 1)

_on_append_reply(i, n, m) ==
    IF m.term > n.term
    THEN Silent(_become_follower(n, m.term))
    ELSE IF n.role # "leader" \/ m.term < n.term
    THEN Silent(n)
    ELSE IF m.success
    THEN LET acked == [n EXCEPT !.match_index[m.src] = Larger(@, m.match_index),
                                !.next_index[m.src] = Larger(@, NextAfter(m.match_index))]
             after == _advance_commit(acked)
         IN  Effect(after, {}, AppliedSince(n, after))
    ELSE LET backed == [n EXCEPT !.next_index[m.src] = BackOff(@)]
         IN  Effect(backed, {_send_append_entries(i, backed, m.src)}, {})

---------------------------------------------------------------------------
(* InstallSnapshot.  The callback on_apply does not hear of what it brings. *)

CoversBug(n, snap) == FALSE        \* bug: installs snapshots older than its own
Covers(n, snap) == snap.last_index <= base_index(n)

_on_install_snapshot(i, n, m) ==
    LET snap == m.snapshot
        follow == IF m.term > n.term \/ n.role # "follower"
                  THEN _become_follower(n, m.term)
                  ELSE [n EXCEPT !.timer = "election"]
        keep_tail == /\ last_log_index(follow) >= snap.last_index
                     /\ term_at(follow, snap.last_index) = snap.last_term
        installed == _rebuild_config(
            [Restore(follow, snap) EXCEPT
               !.log = IF keep_tail
                       THEN DelPrefix(@, snap.last_index - base_index(follow)) ELSE <<>>,
               !.snapshot = snap])
    IN  IF m.term < n.term
        THEN Effect(n, {AppendReply(i, m.src, n, FALSE, 0)}, {})
        ELSE IF Covers(n, snap)
        THEN Effect(follow, {AppendReply(i, m.src, follow, TRUE, last_log_index(follow))}, {})
        ELSE Effect(installed, {AppendReply(i, m.src, installed, TRUE, snap.last_index)}, {})

---------------------------------------------------------------------------
\* Message dispatch; the caller checks that the server is alive.
handle(i, n, m) ==
    CASE m.type = "RequestVote"     -> _on_request_vote(i, n, m)
      [] m.type = "VoteReply"       -> _on_vote_reply(i, n, m)
      [] m.type = "AppendEntries"   -> _on_append_entries(i, n, m)
      [] m.type = "AppendReply"     -> _on_append_reply(i, n, m)
      [] m.type = "InstallSnapshot" -> _on_install_snapshot(i, n, m)
      [] m.type = "ReadHeartbeat"   -> _on_read_heartbeat(i, n, m)
      [] m.type = "ReadAck"         -> _on_read_ack(i, n, m)
=============================================================================
