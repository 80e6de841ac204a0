--------------------------- MODULE RaftInvariants ---------------------------
(***************************************************************************)
(* The inductive invariants behind the safety of RaftCluster.  First what  *)
(* keeps a configuration the one its log names and elections safe; then,   *)
(* where nothing is compacted, what makes the logs agree, commits last and *)
(* reads fresh while the membership changes.  What is said of the logs     *)
(* speaks of a history H that no server keeps: H[t] is the log of the      *)
(* leader of term t, as long as it ever got in that term.                  *)
(***************************************************************************)
EXTENDS RaftCluster

---------------------------------------------------------------------------
(* Membership: nobody knows of any configuration but the initial one. *)

Plain(log) == \A k \in 1..Len(log) : ~IsConfig(log[k].command)

Settled(n) ==
    /\ n.voters = InitialVoters
    /\ n.snapshot.voters = InitialVoters
    /\ Plain(n.log)

SettledMessage(m) ==
    /\ m.type = "AppendEntries" => Plain(m.entries)
    /\ m.type = "InstallSnapshot" => m.snapshot.voters = InitialVoters

AllSettled ==
    /\ \A i \in Node : Settled(node[i])
    /\ \A m \in msgs : SettledMessage(m)

\* Nothing of the log is compacted.
Bare(n) == n.snapshot = NoSnapshot

\* Configuration V is the one that a log names last, at index k, or the initial one.
Governs(log, V, k) ==
    /\ \A j \in 1..Len(log) : IsConfig(log[j].command) => j <= k
    /\ IF k = 0 THEN V = InitialVoters
       ELSE k <= Len(log) /\ IsConfig(log[k].command) /\ V = log[k].command.voters

(***************************************************************************)
(* With membership changes, but without compaction: a server knows the     *)
(* index of the entry that governs it.  A truncation looks only at that    *)
(* index (RaftNode._on_append_entries, _adopt_config), so that the         *)
(* configuration alone, ConfigIsDerived, is not inductive.                 *)
(***************************************************************************)
ConfigInv ==
    /\ TypeOK
    /\ \A i \in Node : Bare(node[i]) /\ Governs(node[i].log, node[i].voters, node[i].config_index)
    /\ \A m \in msgs : m.type # "InstallSnapshot"

---------------------------------------------------------------------------
(***************************************************************************)
(* Elections.  Server v is pledged to x in term t when it can never again  *)
(* vote for anybody else in that term: it has left the term or has its     *)
(* vote for x on disk, and no granted vote to anybody else is in flight.   *)
(***************************************************************************)
IsGrant(m) == m.type = "VoteReply" /\ m.granted

Pledged(n, M, v, t, x) ==
    /\ t <= n.term
    /\ t = n.term => n.voted_for = x
    /\ \A m \in M : IsGrant(m) /\ m.src = v /\ m.term = t => m.dst = x

\* The voters of server x in term t: x itself and whoever sent it a grant.
Ballots(M, t, x) ==
    {v \in Node : v = x \/ \E m \in M :
                             IsGrant(m) /\ m.src = v /\ m.dst = x /\ m.term = t}

GrantsArePledged ==
    \A m \in msgs : IsGrant(m) => Pledged(node[m.src], msgs, m.src, m.term, m.dst)

\* Whoever does not follow is pledged to itself, and holds only granted votes.
Ambitious(n, M, i) ==
    n.role # "follower" =>
        /\ Pledged(n, M, i, n.term, i)
        /\ n.role = "candidate" => n.votes \subseteq Ballots(M, n.term, i)

(***************************************************************************)
(* Votes bind, whatever the configurations are.  ElectionSafety alone is   *)
(* not inductive: it says nothing of the votes that candidates hold and    *)
(* messages carry.                                                         *)
(***************************************************************************)
VoteInv ==
    /\ TypeOK
    /\ GrantsArePledged
    /\ \A i \in Node : Ambitious(node[i], msgs, i)
    /\ \A i \in Node : node[i].role = "leader" => <<node[i].term, i>> \in leaders
    /\ \A x \in leaders : Pledged(node[x[2]], msgs, x[2], x[1], x[2])

\* Nobody changes the membership: whoever was seen leading a term won it with
\* a majority of the initial voters.
ElectionInv ==
    /\ VoteInv
    /\ AllSettled
    /\ \A x \in leaders : IsMajority(Ballots(msgs, x[1], x[2]), InitialVoters)

(***************************************************************************)
(* TimerMatchesRole is not inductive either: a leader that heard its own   *)
(* ReadHeartbeat, or its own request for a vote, would arm the timer of a  *)
(* follower.  Only others hear them, and no other leads its term.          *)
(***************************************************************************)
Waits(n) ==
    /\ n.timer = IF ~n.alive THEN "none"
                 ELSE IF n.role = "leader" THEN "heartbeat" ELSE "election"
    /\ ~n.alive => n.role = "follower"

CallsOthers(m) ==
    /\ m.type = "RequestVote" => m.src # m.dst
    /\ m.type = "ReadHeartbeat" => m.src # m.dst /\ <<m.term, m.src>> \in leaders

TimerInv ==
    /\ \A i \in Node : Waits(node[i])
    /\ \A m \in msgs : CallsOthers(m)

---------------------------------------------------------------------------
(* The logs of the leaders. *)

\* The terms that have, or had, a leader.
LedTerms == {x[1] : x \in leaders}

\* A log holds the entry that the leader of term t appended at index k.
Holds(log, t, k) == k \in 1..Len(log) /\ log[k].term = t

\* Two logs are the same up to index k, which both reach.
SameUpTo(a, b, k) == k <= Len(a) /\ k <= Len(b) /\ \A j \in 1..k : a[j] = b[j]

\* Every entry of a log was put there by the leader of its term, on top of
\* what that leader had below it.
Backed(H, log) ==
    \A k \in 1..Len(log) : log[k].term \in LedTerms /\ SameUpTo(log, H[log[k].term], k)

LeadersLogs(H) ==
    \A t \in LedTerms :
        /\ Backed(H, H[t])
        /\ \A k \in 1..Len(H[t]) : H[t][k].term <= t
        /\ \A j, k \in 1..Len(H[t]) : j <= k => H[t][j].term <= H[t][k].term

---------------------------------------------------------------------------
(* Servers and messages. *)

ServerLog(H, i, n) ==
    /\ Bare(n)
    /\ Backed(H, n.log)
    /\ \A k \in 1..Len(n.log) : n.log[k].term <= n.term
    /\ n.role = "leader" => n.log = H[n.term]
    /\ n.role = "candidate" =>
           <<n.term, i>> \notin leaders /\ \A k \in 1..Len(n.log) : n.log[k].term < n.term

\* What an AppendEntries carries is a stretch of a log, that of its leader.
StretchOf(log, m) ==
    /\ Match(m) <= Len(log)
    /\ \A j \in 1..Len(m.entries) : m.entries[j] = log[m.prev_index + j]
    /\ m.prev_term = IF m.prev_index = 0 THEN 0 ELSE log[m.prev_index].term

IsAck(m) == m.type = "AppendReply" /\ m.success

\* An acknowledgement is true, at least until its sender leaves the term.
TrueAck(H, m) ==
    /\ m.term \in LedTerms
    /\ m.match_index <= Len(H[m.term])
    /\ m.term <= node[m.src].term
    /\ m.term = node[m.src].term => SameUpTo(node[m.src].log, H[m.term], m.match_index)

LastTerm(log) == IF log = <<>> THEN 0 ELSE log[Len(log)].term

\* A request for votes describes the log of its candidate.
TrueRequest(n, m) ==
    /\ m.term <= n.term
    /\ m.term = n.term /\ n.role = "candidate" =>
           m.last_log_index = Len(n.log) /\ m.last_log_term = LastTerm(n.log)

MessageIsTrue(H, m) ==
    /\ m.src # m.dst
    /\ m.type # "InstallSnapshot"
    /\ m.type = "AppendEntries" =>
            <<m.term, m.src>> \in leaders /\ StretchOf(H[m.term], m)
    /\ IsAck(m) => TrueAck(H, m)
    /\ m.type = "RequestVote" => TrueRequest(node[m.src], m)
    /\ IsGrant(m) => m.term <= node[m.dst].term
    /\ m.type = "ReadHeartbeat" => <<m.term, m.src>> \in leaders

(***************************************************************************)
(* Every log, on a server or in a message, is made of the leaders' logs.   *)
(***************************************************************************)
LogInv(H) ==
    /\ LeadersLogs(H)
    /\ \A i \in Node : ServerLog(H, i, node[i])
    /\ \A m \in msgs : MessageIsTrue(H, m)

---------------------------------------------------------------------------
(* What is chosen. *)

\* Server v has told, or is the leader itself, that it held entry k of term t.
Acked(H, v, t, k) ==
    /\ Holds(H[t], t, k)
    /\ \/ <<t, v>> \in leaders
       \/ \E m \in msgs : IsAck(m) /\ m.src = v /\ m.term = t /\ k <= m.match_index

\* A leader of a later term, up to u, did not have entry k of term t.
Overtaken(H, t, k, u) ==
    \E w \in LedTerms : t < w /\ w <= u /\ ~Holds(H[w], t, k)

\* What a server has acknowledged it still has, unless it was overtaken.
AcksAreKept(H) ==
    \A v \in Node : \A t \in LedTerms : \A k \in 1..Len(H[t]) : Acked(H, v, t, k) =>
        /\ t <= node[v].term
        /\ Holds(node[v].log, t, k) \/ Overtaken(H, t, k, node[v].term)

\* A log of term u has whatever v acknowledged in an earlier term, unless a
\* leader of a term up to w did not.
Carries(H, log, v, u, w) ==
    \A t \in LedTerms : \A k \in 1..Len(H[t]) :
        t < u /\ Acked(H, v, t, k) => Holds(log, t, k) \/ Overtaken(H, t, k, w)

\* A candidate has what its voters had acknowledged.
CandidatesCarry(H) ==
    \A i \in Node : node[i].role = "candidate" =>
        \A v \in Ballots(msgs, node[i].term, i) :
            Carries(H, node[i].log, v, node[i].term, node[i].term)

\* The configuration that the first k entries of a log name last.
VotersAt(log, k) ==
    LET configs == {j \in 1..k : IsConfig(log[j].command)}
    IN  IF configs = {} THEN InitialVoters ELSE log[Maximum(configs)].command.voters

\* The log with which a leader of term u was elected: its first b entries.
StoodWith(log, u, b) == \A k \in 1..Len(log) : k <= b <=> log[k].term < u

\* Server x[2] won term x[1] with voters Q, a majority of the configuration of
\* the log it stood with, and has what they had acknowledged.
WonWith(H, x, b, Q) ==
    /\ StoodWith(H[x[1]], x[1], b)
    /\ IsMajority(Q, VotersAt(H[x[1]], b))
    /\ \A v \in Q : x[1] <= node[v].term /\ Carries(H, H[x[1]], v, x[1], x[1] - 1)

LeadersCarry(H) ==
    \A x \in leaders : \E b \in 0..Len(H[x[1]]) :
        \E Q \in SUBSET Ballots(msgs, x[1], x[2]) : WonWith(H, x, b, Q)

\* A majority of the configuration that the leader of term t had when its log
\* was of length m has acknowledged its entry k: no later leader lacks it.
ChosenBy(H, t, k, m) ==
    /\ Holds(H[t], t, k)
    /\ \E Q \in SUBSET Node : IsMajority(Q, VotersAt(H[t], m)) /\ \A v \in Q : Acked(H, v, t, k)

Chosen(H, t, k) == \E m \in k..Len(H[t]) : ChosenBy(H, t, k, m)

\* Two configurations that differ by one server.
OneApart(V, W) == Cardinality((V \ W) \cup (W \ V)) = 1

\* Before its leader appended configuration entry c of term t, it had an entry
\* of its own term chosen, on top of every earlier configuration entry.
Guarded(H, t, c) ==
    \E j \in 1..(c - 1) :
        /\ \E m \in j..(c - 1) : ChosenBy(H, t, j, m)
        /\ \A d \in (j + 1)..(c - 1) : ~IsConfig(H[t][d].command)
        /\ OneApart(VotersAt(H[t], c - 1), H[t][c].command.voters)

ConfigsAreGuarded(H) ==
    \A t \in LedTerms : \A c \in 1..Len(H[t]) :
        H[t][c].term = t /\ IsConfig(H[t][c].command) => Guarded(H, t, c)

(***************************************************************************)
(* Nobody is elected without what a majority acknowledged before, and no   *)
(* leader changes the configuration before the change that it builds on,   *)
(* and an entry of its own term, are chosen: otherwise two majorities      *)
(* could miss each other.                                                  *)
(***************************************************************************)
AckInv(H) ==
    /\ AcksAreKept(H)
    /\ CandidatesCarry(H)
    /\ LeadersCarry(H)
    /\ ConfigsAreGuarded(H)

---------------------------------------------------------------------------
(* What is committed. *)

\* What a leader of term t has up to index c is chosen by then.
Settles(H, t, c) ==
    \/ c = 0
    \/ \E s \in LedTerms : s <= t /\ \E j \in 1..Len(H[s]) : c <= j /\ Chosen(H, s, j)

CommittedIsSettled(H) ==
    \A k \in 1..Len(committed) :
        LET t == committed[k].term IN
        /\ t \in LedTerms
        /\ k <= Len(H[t])
        /\ H[t][k] = committed[k].entry
        /\ Settles(H, t, k)

\* What was applied is what the log has up to the commit index.
Applied(n) ==
    /\ Len(n.machine) = n.commit_index
    /\ n.commit_index <= Len(n.log)
    /\ \A k \in 1..n.commit_index : n.machine[k] = n.log[k]

AppliedIsCommitted(H, n) ==
    /\ Applied(n)
    /\ n.commit_index <= Len(committed)
    /\ \A k \in 1..n.commit_index : n.log[k] = committed[k].entry
    /\ Settles(H, n.term, n.commit_index)

\* A leader that may change the configuration or take reads has committed an
\* entry of its own term; nobody else has reads under way.
OwnCommits(n) ==
    IF n.role = "leader"
    THEN n.committed_this_term => \E k \in 1..n.commit_index : n.log[k].term = n.term
    ELSE n.pending_reads = {}

\* What a leader believes of the others: it has heard it from them.
Bookkeeping(i, n) ==
    n.role = "leader" => \A v \in Node :
        /\ n.next_index[v] <= Len(n.log) + 1
        /\ \/ n.match_index[v] = 0
           \/ v = i /\ n.match_index[v] <= Len(n.log)
           \/ \E m \in msgs : IsAck(m) /\ m.src = v /\ m.term = n.term
                                /\ n.match_index[v] <= m.match_index

(***************************************************************************)
(* Whatever is committed, applied or announced as committed is settled.    *)
(***************************************************************************)
CommitInv(H) ==
    /\ CommittedIsSettled(H)
    /\ \A i \in Node : AppliedIsCommitted(H, node[i]) /\ OwnCommits(node[i])
                       /\ Bookkeeping(i, node[i])
    /\ \A m \in msgs : m.type = "AppendEntries" =>
            m.leader_commit <= Len(committed) /\ Settles(H, m.term, m.leader_commit)

---------------------------------------------------------------------------
(* Requests. *)

OncePerLog(log) ==
    \A j, k \in 1..Len(log) :
        log[j].command = log[k].command /\ ~IsConfig(log[j].command) => j = k

\* The leader's index is at least as high as every request in its log.
Indexed(n) ==
    \A k \in 1..Len(n.log) : ~IsConfig(n.log[k].command) =>
        n.log[k].command.req <= n.client_index[n.log[k].command.client]

(***************************************************************************)
(* No leader's log has a request twice, and a leader knows what it has.    *)
(***************************************************************************)
RequestInv(H) ==
    /\ \A t \in LedTerms :
        /\ OncePerLog(H[t])
        /\ \A k \in 1..Len(H[t]) :
               ~IsConfig(H[t][k].command) => H[t][k].command.client \in Client
    /\ \A i \in Node : node[i].role = "leader" => Indexed(node[i])

---------------------------------------------------------------------------
(* What is read. *)

\* A leader of a later term than t has been seen.
Deposed(t) == \E u \in LedTerms : t < u

\* Of its own entries a leader is the first to know that they are committed.
KnowsItsCommits(n) ==
    n.role = "leader" =>
        \A k \in 1..Len(committed) :
            committed[k].entry.term = n.term => k <= n.commit_index \/ Deposed(n.term)

\* A round of acknowledgements has a number that no other round has.
RoundsAreNumbered ==
    /\ \A i \in Node : Len(read_floor[i]) = node[i].next_read_id
    /\ \A m \in msgs : /\ m.type = "ReadHeartbeat" => m.read_id < node[m.src].next_read_id
                       /\ m.type = "ReadAck" => m.read_id < node[m.dst].next_read_id

\* Server v will never confirm round p of server i in term t.
Refuses(i, t, p, v) ==
    /\ v \notin p.acks
    /\ t < node[v].term
    /\ \A m \in msgs : m.type = "ReadAck" /\ m.src = v /\ m.dst = i /\ m.read_id = p.id =>
                           m.term # t

\* The leader of a later term u was elected with nothing newer than term t, by
\* the configuration that its log named at length b, and of that configuration
\* the majority Q refuses.
Bars(H, i, t, p, u, b, Q) ==
    /\ t < u /\ StoodWith(H[u], u, b)
    /\ \A k \in 1..b : H[u][k].term <= t
    /\ IsMajority(Q, VotersAt(H[u], b))
    /\ \A v \in Q : Refuses(i, t, p, v)

\* The round will not be confirmed.
Hopeless(H, i, t, p) ==
    \E u \in LedTerms : \E b \in 0..Len(H[u]) : \E Q \in SUBSET Node :
        Bars(H, i, t, p, u, b, Q)

(***************************************************************************)
(* A pending read waits for everything that was committed when it began,   *)
(* or will never be confirmed, because its server had lost its office.     *)
(***************************************************************************)
PendingIsSound(H, i, n) ==
    \A p \in n.pending_reads :
        /\ p.id < n.next_read_id
        /\ read_floor[i][p.id + 1] <= p.index \/ Hopeless(H, i, n.term, p)

(***************************************************************************)
(* ReadIndex: every read that a leader has under way is sound, because a   *)
(* leader takes none before it has committed an entry of its own term      *)
(* (RaftNode.request_read) and drops them all when it loses its office     *)
(* (_become_follower).  This is inductive, on top of what is said above of *)
(* the logs; that the reads it serves are fresh follows from it.           *)
(***************************************************************************)
ReadInv(H) ==
    /\ RoundsAreNumbered
    /\ \A i \in Node : KnowsItsCommits(node[i]) /\ PendingIsSound(H, i, node[i])
=============================================================================
