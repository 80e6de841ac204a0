----------------------------- MODULE MCCluster -----------------------------
(***************************************************************************)
(* What the runs of RaftCluster share: a view that identifies states with  *)
(* the same future.                                                        *)
(*  - The bookkeeping of a role the server no longer has is left out: the  *)
(*    code reads _votes only in a candidate (start_election resets it) and *)
(*    next_index, match_index, _client_index and _committed_this_term only *)
(*    in a leader (_become_leader resets them).                            *)
(*  - Messages that nobody will react to any more are left out: those too  *)
(*    stale to be delivered, and replies of a term or round that is over   *)
(*    for the receiver.  Terms never go back, so over is over.             *)
(***************************************************************************)
EXTENDS RaftImplementsLog, TLC

CONSTANTS n1, n2, n3, n4, n5, c1, c2

SymmetricClients == Permutations(Client)

\* Successive leaders, each of which may come back to find what the other did.
Alternating(terms) == {<<IF t % 2 = 1 THEN n1 ELSE n2, t>> : t \in 1..terms}
OneLeader == Alternating(1)
TwoLeaders == Alternating(2)
ThreeLeaders == Alternating(3)
FourLeaders == Alternating(4)
\* The same, and both servers may campaign for term 1.
Rivals == FourLeaders \cup {<<n2, 1>>}
AllLinks == Node \X Node
BothWays(pairs) == pairs \cup {<<p[2], p[1]>> : p \in pairs}
\* n1 and n3 cannot talk to each other.
Chain == BothWays({<<n1, n2>>, <<n2, n3>>})
OneRequest == {<<c1, 0>>}
TwoRequests == {<<c1, 0>>, <<c1, 1>>}
ThreeRequests == {<<c1, 0>>, <<c1, 1>>, <<c1, 2>>}
\* One request of each of two clients, which may be under way together.
TwoClients == {<<c1, 0>>, <<c2, 0>>}
\* The request of the second client is a ReadIndex read.
OneRead == {<<c2, 0>>}
TwoWritesOneRead == OneRead \cup TwoRequests
AnyVoters == SUBSET Node \ {{}}
\* One end of a Chain is removed, which only n2 could still reach.
FarEndRemoved == {{n1, n2}}

LiveState(n) ==
    [n EXCEPT !.votes = IF n.role = "candidate" THEN @ ELSE {},
              !.next_index = IF n.role = "leader" THEN @ ELSE <<>>,
              !.match_index = IF n.role = "leader" THEN @ ELSE <<>>,
              !.client_index = IF n.role = "leader" THEN @ ELSE <<>>,
              !.committed_this_term = n.role = "leader" /\ @]

Over(m) ==
    LET n == node[m.dst] IN
    \/ n.term - m.term >= MaxStaleness
    \/ <<m.src, m.dst>> \notin Links
    \/ /\ m.type = "VoteReply"
       /\ n.term >= m.term
       /\ n.term > m.term \/ n.role # "candidate" \/ ~m.granted
    \/ /\ m.type = "AppendReply"
       /\ n.term >= m.term
       /\ n.term > m.term \/ n.role # "leader"
    \/ /\ m.type = "ReadAck"
       /\ n.term >= m.term
       /\ \A p \in n.pending_reads : p.id # m.read_id

LiveView ==
    <<[i \in Node |-> LiveState(node[i])], {m \in msgs : ~Over(m)},
      next_req, leaders, committed, read_floor>>

(***************************************************************************)
(* For runs without crashes and snapshots: an AppendEntries that a         *)
(* follower of its term already has in its log and that it has already     *)
(* answered is left out as well.  In its term it will never change         *)
(* anything again, because the leader of the term only appends             *)
(* (LeaderAppendOnly, checked by the other runs without this view).        *)
(***************************************************************************)
Repeated(m) ==
    LET n == node[m.dst]
        match == m.prev_index + Len(m.entries)
    IN  /\ m.type = "AppendEntries"
        /\ m.term = n.term
        /\ n.role = "follower"
        /\ n.commit_index >= m.leader_commit \/ n.commit_index >= match
        /\ Len(n.log) >= match
        /\ SubSeq(n.log, m.prev_index + 1, match) = m.entries
        /\ m.prev_index > 0 => n.log[m.prev_index].term = m.prev_term
        /\ AppendReply(m.dst, m.src, n, TRUE, match) \in msgs

LiveViewNoRepeats ==
    <<[i \in Node |-> LiveState(node[i])], {m \in msgs : ~Over(m) /\ ~Repeated(m)},
      next_req, leaders, committed, read_floor>>
=============================================================================
