# RaftVerified in TLA+

A specification of the Raft implementation in `src/raftverified`, its model-checked
properties and its machine-checked theorems. Everything is translated from the Python
code; definitions keep its names (`_on_append_entries`, `_become_leader`, `minimal`, ...),
and `PROJECT.json` gives, for every definition, the lines it stands for.

## 1. The system and its inventory

RaftVerified runs a Raft cluster inside a deterministic simulator, checks its state after
every event, records what the clients saw, judges that history, and shrinks schedules
that fail.

| Component | State | Operations | Talks to | What makes it correct |
|---|---|---|---|---|
| Raft server, `node.py` | persistent: `term`, `voted_for`, `log`, `_snapshot`; volatile: role, `commit_index`, `last_applied`, kv, votes, `next_index`, `match_index`, client index, pending reads, timer number; derived: `voters`, `_config_index` | 7 message handlers, 2 timers, `client_command`, `change_config`, `request_read`, `pause`, `resume` | network (messages), event loop (timers), cluster (`on_apply`) | the Raft safety properties; votes and terms survive a crash; configurations are a function of the log; reads are fresh; it always has the timer of its role |
| Cluster, `cluster.py` | `nodes`, `_outstanding`, `_next_req`, `history`, `_pending`, fault ordinals and mask, crash limit | client, membership and fault ticks, nemesis injection, `pause`/`resume`, partitions, `step` | servers, network, checker | a client has one request under way and moves on once; drivers change no behaviour they only observe |
| Simulated network, `sim.py` | event heap, clock, random stream, partition groups, crashed set, down and lossy links | `schedule`, `send`, `set_partition`, `heal`, links | servers | nothing is delivered to a crashed server or over a cut link; equal times run in order of scheduling |
| Invariant checker, `invariants.py` | leaders per term, committed entries and their terms, previous logs and commit indices, caches by log version and incarnation | `check` after each event | reads every server | it raises no false alarm, and misses no visible violation of its seven invariants, where a commit counts for the term in which it was seen first (section 3 says what that leaves out) |
| Key-value store, `kv.py` | `store`, `sessions` | `apply`, `apply_read`, `capture`, `restore` | server | a request takes effect once; equal logs give equal stores and results |
| Linearizability oracle, `linearizability.py` | a search stack, memo, deepest path | `check` | history of the cluster | verdicts are right in both directions, and the search ends |
| Shrinker, `shrink.py` | the faults kept, the division tried, the search range of steps | `ddmin`, `_min_steps`, `failure_signature`, `shrink` | re-runs the cluster with a mask and a budget | the result still fails, in the same way, and is minimal |
| Nemesis schedules, `nemesis.py` | a list of patterns | expansion to injections, JSON | cluster, which fires and ends them | every fault ends; a suppressed one leaves nothing; declared order holds |
| Injectable bugs, `bugs.py` | six flags | read by server and cluster | | each is caught by what its comment says |
| Rendering and command line, `timeline.py`, `report.py`, `cli.py` | none | format a finished run | | not a matter of state |

Hard behaviours: messages that are lost, doubled, late and reordered; crashes between any
two events, after which only term, vote, log and snapshot are left; several leaders one
after the other and, behind partitions, at the same time; logs whose prefix is compacted
while old messages still speak of it; configurations that take effect on append and can be
truncated; retries of requests at several leaders; reads confirmed by rounds that outlive a
term; results that must reach the right client once; faults whose windows overlap; caches
that must not hide a violation; searches that must not prune the only answer.
`PROJECT.json` lists each as a hazard at the line where it bites, with the properties that
watch it.

## 2. The modules

    RaftLog        entries, commands, compacted logs, configurations in a log
      RaftNode     one server: a record, and one operator per method
        RaftCluster   the servers, the network, clients, crashes, membership, observations
          MCCluster, MCLateSnapshot   instances, views and a mid-run start for TLC
          RaftImplementsLog   refinement: the cluster is a ReplicatedLog
          RaftLiveness        the event loop as fairness, and progress
            MCLiveness           an instance for TLC
          RaftInvariants   the inductive invariants behind the theorems
            RaftHistory      a record of the leaders' logs, with which TLC checks them
              MCHistory         three instances for TLC
          RaftElections    lemmas on every method of RaftNode; theorems: types, votes,
                           leaders, timers, configurations
            RaftSafety     theorems: the logs, commitment, the refinement
              RaftReads    theorems: reads are fresh, the inductive invariants (also of RaftHistory)
    ReplicatedLog         abstract: one agreed sequence, replicas that follow it
      ReplicatedLogProofs    theorem: every replica has a prefix
    SequentialStore       the key-value store as one copy
      AtomicStore            abstract: requests executed exactly once while a client waits
      Linearizability        history recording and the oracle's search, with its definition of right
        MCLinearizability       instances for TLC
        OracleProofs            theorems: the oracle's verdicts are right
    FiniteNats            lemmas: least and greatest elements, sorting, induction over an interval
    ClientSessions        kv.py on every server above a replicated log, and the client driver;
                          refinement: it is an AtomicStore
      MCSessions             an instance for TLC
      SessionProofs          theorems: servers agree, every request takes effect exactly once
    InvariantChecker      the run-time checker with its caches, over arbitrary servers
      MCChecker              three servers for TLC
    Faults                event queue, network state, random fault driver, nemesis schedules
      Shrink                 the shrinker over runs of Faults
        MCShrink               scenarios for TLC
        ShrinkProofs           theorems: every fault ends; what is returned fails, and is minimal

The composition is by layers. `RaftCluster` implements `ReplicatedLog`; `ClientSessions` is
built on a log that grows and servers that follow it, which is what `ReplicatedLog` says,
and implements `AtomicStore`, which is what `Linearizability` judges histories by.

**RaftLog** (`node.py` 43-61, 170-178, 220-278; `kv.py` 37-73, 141-153). The log is a
sequence above `base_index`; `_phys`, `term_at`, `entry_at`, `log_suffix` and the two `del`
statements are operators on it, including what Python does with a negative slice offset
(`SliceOffset`). Commands are records, `client_workload` is a function of client and request.

**RaftNode** (the rest of `node.py`). A method is an operator from a server's record to the
record after the call, or to an effect: record, messages sent, commands reported through
`on_apply`. One handler is one atomic operator, since the simulator runs a handler to its
end. `machine` is the sequence of entries folded into the key-value state, so that
`kv.store` and `kv.sessions` are functions of it, `applied` is its part above `base_index`
and a snapshot carries it as `image`. `timer` is the kind of callback that `_timer_seq`
still lets through. `leader_id` is written and never read; `log_version` and `incarnation`
serve the checker's caches; these three are left out.

**RaftCluster** (`cluster.py`, `sim.py`, `invariants.py`). A step is one simulator event: a
delivery, a timer, a client's or the membership driver's turn, a crash or a restart,
followed by what the checker observes. The network is the set of all messages sent. A step
may deliver any of them, in any order, any number of times or never, which covers drop,
duplication, delay, reordering and every partition (a partition is a time in which nothing
crosses); `Links` holds links that are up at all. Timers carry no time: a server whose timer
is armed may time out whenever it likes. `leaders`, `committed` and `read_floor` are what
the checker and the client history remember; no server reads them.

**Linearizability** (`linearizability.py`, `cluster.py` 239-267, `kv.py` 156-175). The first
phase records a history: clients invoke commands, one event later or many an event returns
some of them, with any results, since the oracle is there to judge clusters that are wrong.
The second phase is `check`: one action for its preamble (drop what is not completed, sort,
cut to `max_ops`) and then one step per iteration of its loop: `Found`, `Backtrack`, `Try`
(reject, prune, give up on the budget, or descend) and `Stuck`. The reference definition
(`IsLinear`, `Linearizable`) quantifies over orders and knows nothing of the search.

**RaftImplementsLog, ReplicatedLog.** The abstract log has three variables: the sequence
agreed on, what each replica consumed, what it saved. Its steps are to agree and consume, to
catch up, and to crash back to what was saved. The mapping: `agreed` is what the checker saw
committed, `consumed` is a server's `machine`, `saved` the image of its snapshot.

**RaftInvariants, RaftHistory.** No model of code, but what is invariant in `RaftCluster` and can be
proved to be so. Half of it speaks of the log that the leader of each term had, which no server
remembers. `RaftHistory` records it in a variable, `term_log`, that is written at every step and
read by none, so that TLC can check the invariants; the theorems quantify over it
(`Explained`) and are about `RaftCluster` itself.

**RaftLiveness** (`sim.py` 33-48). Adds fairness to `RaftCluster`, see below.

**ClientSessions** (`kv.py` 76-138; `node.py` 300-324, 534-545, 659-685, 723-758; `cluster.py`
195-267). The log of committed commands is given and may hold a request any number of times.
A server applies a stretch of it in one step and reports every result; the driver lets a
client move on at the first report of exactly the request it waits for. A server compacts,
crashes back to its snapshot, and installs the snapshot of another, new or late. ReadIndex
reads are served by any server that is recent enough (`ReadsAreFresh`). **AtomicStore** executes
each request once, at some step of the client's wait, and several back to back in one step;
a read tells what the store held at some moment of the wait. The mapping takes the store from
the log up to what anybody applied.

**InvariantChecker** (`invariants.py`). `nodes` is what `NodeView` shows; in a step one server
changes by any operation that handlers have on what can be seen (elected, stepping down,
appending, overwriting, committing with or without compaction, installing, crashing), with
nothing of the protocol to restrain it. Then `check` runs as the code does: its checks in
order, each with the caches that it reads and leaves, and the first violation ends the run.
`led`, `took_effect` and `highest` record what happened without any cache, and `Wrong` says in
those terms what each violation means.

**Faults** (`sim.py` 33-48, 115-154; `cluster.py` 154-175, 269-305, 333-429; `nemesis.py` 65-197). A run
is a record: clock, event heap, network state, ordinals, mask. `injections` is what a schedule
expands to, and `Place` where the sort puts each; `Stepped` takes the earliest event, which injects a fault, ends one, or lets the
random driver draw. Messages and servers are not in it; who leads is given.

**Shrink** (`shrink.py`). One action per decision between two runs: `Original`, `Nothing` (the
first question of `ddmin`), `Ddmin` (one complement), `_min_steps` (one probe), `Report`, and `Step`,
an event of the run in progress. What makes a run fail is part of the scenario: impairments
that must be there together, and impairments that prevent the failure once they have been
there, for each of the two kinds of failure. So the test function need be neither monotone in
the faults nor free of the other failure. The list `kept` of the code is always ascending, so it is a
set here, and an element's position is its `Rank`. A run of the random driver is there for its faults
alone: its draws are open in the model, where the code replays them from the seed, so nothing makes it
fail and it is not shrunk.

## 3. The properties and the runs

Every property has a mutant: a definition with a plausible bug, under which the same run
finds the property violated (`PROJECT.json`, "mutants"; the mutated forms stand beside the
definitions they break). Four of them are flags of `bugs.py`.

| Run | Question | Distinct states |
|---|---|---|
| `Replication` | Three successive leaders, the first of which returns; two clients retry at each. `LogMatching`, `StateMachineSafety`, `NoDuplicateRequest`, `TypeOK` | 351 k |
| `Figure8` | Two servers lead four terms in turn and everybody may crash: the schedule of Figure 8 and all its relatives. `RolesAreEarned`, `LogsAreLeaders`, `AcksBindLeaders`, `CommitsAreSettled` (the inductive invariants of section 4), `LeaderCompleteness`, `MatchIsHeld`, `NoIndexError`, `ElectionSafety`, `TimerMatchesRole`, `VoteIsFinal`, `CommitQuorum` | 438 k |
| `Membership` | Either of two leaders changes the configuration once a request has committed in its term, and a successor truncates. `AcksBindLeaders` (the part of the invariant of section 4 that is about elections and configurations), `CommittedIsKept` | 203 k |
| `Snapshots` | Compaction after every commit with configuration changes in the live tail, crashes, restarts, late `InstallSnapshot`. `ImplementsReplicatedLog`, `ConfigIsDerived`, `CommitIndexMonotonic`, `LeaderAppendOnly` | 138 k |
| `Reads` | One read, taken by a leader that may be deposed behind a dead link or by its successor; either may remove the server at the far end, and its entry may be truncated. `ReadsAreFresh`, `ReadsAreSound` (the invariant behind it, section 4), `ConfigInv` (the one behind `ConfigIsDerived`) | 278 k |
| `Oracle` | Every history of three operations of three clients on a register, every combination of results, with a full and an insufficient budget, whole and cut. `WitnessIsLinearization`, `AccusationIsRight`, `DeepestIsLongest`, `CheckTerminates` | 299 k |
| `Sessions` | Two clients, two servers, retries that commit again, crashes and snapshots, reads through the log or not. `ReplicasAgree`, `ImplementsAtomicStore` | 184 k |
| `Shrinking` | Six schedules with every pair of causes of failure shrunk from start to end, and the random driver. `EveryFaultEnds`, `NoOrphanRecovery`, `DeclaredOrder`, `ResultReproduces`, `OneMinimal`, `EarliestStep`, `ShrinkTerminates`, `TypeOK` | 42 k |
| `Checker` | Three servers that perform visible operations of handlers in any order, watched by the checker; one may lead while two others commit in different terms. `NoFalseAlarm`, `MissesNothingFirstSeen` | 305 k |
| `StaleDuplicate` | *violation*, see below | |
| `LateSnapshot` | *violation*, see below | |
| `Progress` | *violation*, see below | |

Deadlock is checked in every safety run of the cluster: a timer can always fire, until the
bounds are used up, and heartbeats and refused deliveries go on after that. It is not checked
where the system ends: when the oracle or the shrinker has answered, when the checker has
raised a violation or the servers are at their bounds, when all requests are answered and the
log of `Sessions` is full, and in `Progress`, where campaigns and requests are used up.

### Bounds

All bounds are constants, read only in guards.

* `Campaigns` lists who may call an election for which term; it bounds terms. The
  interesting number is that of leaders in succession: one for crash and snapshot
  questions, two for divergence and truncation, three for back-off over a repaired log,
  four (two servers in turn) for Figure 8.
* `MaxLogLength` bounds appends, not replication. One client entry is enough for Figure 8,
  since nothing here appends a no-op on election; two give a conflict above a match; three
  give two configuration changes and a request, or an entry on each side of a boundary.
* `MaxStaleness` is how many terms behind its receiver a message may be before it counts as
  lost. With 1, old-term messages are lost, which handlers would only refuse (their refusal
  in turn only informs a stale leader of the term).
  Duplicates and reordering within a term are never bounded.
* `Requests`, `MaxReads`, `MaxHistory`, `Operations`: the workload. `Reads` has one read, and so one round,
  in a behaviour; that an older round never confirms a later read rests on `ReadsAreAlwaysFresh` and
  `ReadsAreAlwaysSound`. In `Sessions` one client has a
  second request, so that a duplicate may be older than the last one; the operations are a
  write, a read and a swap that fails when it is executed again.
* `MaxLog` in `Sessions`: three committed commands let each request be committed twice, or an old
  one come after a new one of the same client.
* `MaxTerm`, `MaxLog`, `MaxVersion`, `MaxIncarnation` in `Checker`: two terms and two indices are the
  least in which a log can diverge below an agreement; three versions of one log let it change while
  the other, with two, does not, before and after a compaction (a threshold of 2 leaves commits of one
  entry in the log); one crash is enough for rebasing. Server 1 is in a configuration of its own, so
  that quorums of different configurations are judged. Server 3 only leads or follows in term 1, with an
  empty log: three servers are the least with which one leads while two others commit in different terms.
* `Shrinking`: three servers and up to four faults, step budgets of 3 (before most faults have
  ended) and 12 (after all have). Four faults are the least with which `ddmin` refines its division
  twice. The schedules are chosen for what their comments in `MCShrink` name.
* `Proposals`: any configuration in `Membership` and `Snapshots`; in `Reads`, where the links are a
  chain, the one that shrinks the majority to the two servers that may lead.
* Three servers in the cluster: the smallest one in which a majority is not everyone; four and five
  servers are left to the theorems, which hold for any number.
* Three operations: the smallest history in which the memo meets a state again with
  something left to place, and in which an order against real time can hide behind a third
  operation. Clients have no names here, since `check` uses them to break ties only that do
  not occur; `Clients` bounds how many operations overlap. A budget of 4 is exhausted by some
  of these histories and 100 by none.

### Views and symmetry

`LiveView` (module `MCCluster`) identifies states that differ only in bookkeeping of a role
the server no longer has (it is reset before it is read) and in messages nobody will react to
any more. `LiveViewNoRepeats`, for runs without crashes and snapshots, also drops
AppendEntries that a follower has taken and answered; within its term such a message changes
nothing, because a leader only appends, which `Snapshots` checks under the weaker view and
`LeadersOnlyAppend` proves. `HistoryView` and `HistoryViewNoRepeats` are these two with the record of
`RaftHistory`.
`SymmetricServers` permutes servers where the configuration treats them alike
(`Sessions`), `SymmetricClients` clients; neither they nor a view are used with a liveness
property. (`ImplementsReplicatedLog` and `ImplementsAtomicStore` are safety: their
specifications have no fairness.)

### Fairness

The safety runs of the cluster assume none. `Linearizability` assumes weak fairness of
the search loop alone: `check` is a `while` loop in one thread, and once called it runs on.
Nothing forces a client to invoke, a command to return or anybody to call `check`. `Shrink`
assumes weak fairness of its next step, for the same reason. `RaftLiveness` assumes weak fairness of
each link, each timer, each restart and each client at each server: `Simulator.step` always
takes the earliest event, an armed timer is in the queue, every client tick schedules the next
and picks a server at random, and the `none` profile loses nothing. A link delivers some message
that is still to be delivered, not every message.

### What the violations show

* `StaleDuplicate`: with snapshots on, a repeated AppendEntries that starts below the
  compaction boundary truncates a committed entry. `node.py` 602-604 promises the contrary.
  `term_at` answers `base_term` for every index at or below the boundary, so an entry of an
  older term there looks like a conflict, and `del self.log[self._phys(index):]` gets a
  negative offset, which Python counts from the end.
* `LateSnapshot`: a late InstallSnapshot that is newer than the receiver's own snapshot but older
  than its commit index takes the commit index back (`node.py` 679), which `invariants.py` 203-205
  raises as a violation. Servers must compact at different points, two entries or more apart from
  the next, so the threshold is 3 and the run starts in the middle: `AfterFirstTerm` is the state after a
  first leader committed three entries, which two servers have compacted. A new leader learns that
  they are committed only with the fourth, and compacts four; a follower, at three, commits five,
  and then gets that snapshot. The simulator raises
  it with `Cluster(3, seed=0, faults='chaos')` and `snapshot_threshold=10`.
* `Progress`: a leader may be elected with every outstanding request in its log from an earlier term
  (`AfterCrash`). It drops each retry as a duplicate, appends nothing on its election, and does not commit
  entries of an earlier term; it leads for ever, all its messages arrive, and no request is
  answered. Random runs hardly meet it, because all clients must be waiting when the leader
  crashes; in the simulator it follows each time that this is arranged.

### Met on the way, without a run

* A check bounded by `max_ops` can accuse a linearizable history (`linearizability.py` 75-83): a `get`
  that was invoked first may have seen the value of a concurrent `put` that the cut drops.
  `AccusationIsRight` is therefore stated of the operations examined.
* The operations reported as stuck (line 150) are the first eight unplaced ones, minimal or not.
* A follower that covers a snapshot acknowledges its whole log (`node.py` 663), which may be longer
  than the leader's: `next_index` then points beyond the leader's log, and the next send fails
  (`Cluster(3, seed=6, faults='chaos')` with `snapshot_threshold=3` raises `IndexError`).
* Fault ordinals are counted as faults fire. If a crash is skipped because its server is down
  already, and a mask suppresses the earlier crash, the later one fires and takes an ordinal that
  the original run did not have (`shrink.py` 156).
* An entry that is committed and compacted in one step is never seen by the checker
  (`invariants.py` 208); `MissesNothingFirstSeen` is stated of what the logs still hold after a step.
* The checker does not see every violation of Leader Completeness. Of a committed entry it keeps the
  term of the server on which it was seen committed first (`invariants.py` 211-212), and it does not hold
  leaders of earlier terms to it (249-250). If server 1 commits an entry in term 2, then server 2 commits the
  same in term 1, and server 3 leads term 1 without it, nothing is raised; with the two commits in the other
  order it raises `LeaderCompleteness`. Line 234 says "committed entries appear in all future leaders". In a
  correct cluster the first observer is the leader that counted the majority (220-221), and the case
  does not arise; it is a limit of the checker for a cluster that is wrong already in when it
  commits. Stated without `c.first`, `MissesNothingFirstSeen` is violated in the run `Checker` by such steps.

## 4. The theorems

All are checked by TLAPS to the last leaf. They assume only the ASSUMEs of the modules:
`Node` is finite, the initial voters are some of its members, `None` is neither a server nor a
client, the threshold is a natural number, and the bounds and the environment have their types.

* **`TypeCorrectness`** (`RaftElections`): `Spec => []TypeOK`. There is one lemma per
  method, and these are lifted to the cluster. Log offsets make this more than
  bookkeeping: `next_index` stays above 0, slices stay sequences of entries, and
  `TakeEntries`, a recursive function over the entries of a message, is treated by an
  induction over an interval proved there.
* **`VotesAreFinal`** (`RaftElections`): `Spec => VoteIsFinal`. Every action is classified
  (`EveryStep`) as quiet, standing for election, granting a vote or counting one; none takes
  a term back or changes a vote within its term.
* **`OneLeaderPerTerm`** (`RaftElections`): if nobody proposes a configuration, `Spec =>
  []ElectionSafety`, for any cluster, with crashes, snapshots and reads. `ElectionSafety`
  speaks of leaders seen in the past, so it is not inductive. The invariant `VoteInv` adds, whatever
  the configurations are: every granted vote on the network is pledged, that is, its sender is in a
  later term or still has that vote recorded; a candidate's `votes` are pledged to it, and so is
  whoever leads or was seen leading to itself. `ElectionInv` adds that nobody knows any other
  configuration (`AllSettled`), so that every leader ever seen has a majority of the initial voters
  pledged to it. Two leaders of a term then share a voter (`MajoritiesMeet`), who has one vote. Where
  the membership changes, that two majorities meet rests on commitment and not on votes alone: this
  is `OneLeaderAcrossChanges`, below.
* **`ServersStayAwake`** (`RaftElections`): if nobody proposes a configuration, `Spec =>
  []TimerMatchesRole`. That a handler arms the timer of the role it leaves is not enough: a leader
  that heard its own `ReadHeartbeat`, or its own request for a vote, would arm the timer of a
  follower and stay leader. `TimerInv` adds that servers call only others, and that whoever sends a
  `ReadHeartbeat` was seen leading its term; that no second leader hears it is `ElectionSafety`. `AwakeAcrossChanges`, below, has it with
  membership changes.
* **`ConfigsAreDerived`** (`RaftElections`): without compaction (`SnapshotThreshold = 0`), and with
  any proposals, `Spec => []ConfigIsDerived`. The property compares voters, and a truncation compares
  indices (`node.py` 610-613): it looks for an earlier configuration only when `_config_index`
  is cut off. So the invariant `ConfigInv` adds that `config_index` names the last configuration
  entry of the log, whose voters are in force, and, for `_on_install_snapshot` not to replace the
  log, that no snapshot is ever sent (`next_index` stays above 0). **`ConfigsAreGoverned`** states
  `[]ConfigInv` itself, which the run `Reads` checks with membership changes.

* **`ReplicasFollowOneLog`** (`ReplicatedLogProofs`): in the abstract log every replica has consumed,
  and has saved, a prefix of the one sequence, and saved no more than it consumed. The invariant is
  that with the types; a step is either a move of one replica to a prefix of the sequence, which
  has perhaps grown (`Moved`, `PrefixesStay`), or a crash.

### The logs

`RaftSafety` proves thirteen theorems of `Spec`, for any number of servers, clients and requests,
with servers added and removed, crashes, restarts, reads, and messages lost, repeated and overtaken,
under one assumption, `SnapshotThreshold = 0`: nothing is compacted, the default of the code
(`node.py` 136). With compaction several of these properties are false (`StaleDuplicate`,
`LateSnapshot`).

| Theorem | Property |
|---|---|
| `OneLeaderAcrossChanges` | `[]ElectionSafety` |
| `AwakeAcrossChanges` | `[]TimerMatchesRole` |
| `LogsAlwaysMatch` | `[]LogMatching` |
| `LeadersHaveTheCommitted` | `[]LeaderCompleteness` |
| `MachinesNeverDiverge` | `[]StateMachineSafety` |
| `MatchesAreReal` | `[]MatchIsHeld` |
| `NoIndexIsOutside` | `[]NoIndexError` |
| `RequestsAreLoggedOnce` | `[]NoDuplicateRequest` |
| `CommitIndexNeverFalls` | `CommitIndexMonotonic` |
| `LeadersOnlyAppend` | `LeaderAppendOnly` |
| `CommittedIsNeverLost` | `CommittedIsKept` |
| `CommittedByMajority` | `CommitQuorum` |
| `ClusterImplementsLog` | `ImplementsReplicatedLog` |

None of these properties is inductive. `Explained` says that some history, the log of each
term's leader as long as it ever got, satisfies the invariant `Inv`, which has these parts:

1. `VoteInv` and `ConfigInv`, above: votes bind, and a server acts on the configuration that its log
   names last.
2. `LogInv`: every entry of a log is in the log of its term's leader, on the same predecessors; a
   message carries a stretch of its leader's log; an acknowledgement is true while its sender stays in
   the term; a vote request describes its candidate's log. *Log Matching* follows.
3. `AckInv`: what a server has acknowledged it keeps, unless a later leader did not have it;
   candidates and leaders have what their voters had acknowledged, with the same exception; a
   leader was voted for by a majority of the configuration that the log it stood with names; and
   before a leader appended a configuration, it had an entry of its own term chosen (acknowledged by
   a majority), on top of every earlier configuration entry, from which the new one differs by one
   server (`ConfigsAreGuarded`, the three guards of `change_config`, `node.py` 460-467).
   *Leader Completeness* and *Election Safety* follow, see below.
4. `CommitInv`: what is committed, applied or announced is below an entry that a majority has
   acknowledged to the leader of its own term, the restriction of `_advance_commit` that Figure 8 is about.
   *State Machine Safety* follows, and that no truncation reaches a commit index.
5. `RequestInv`: no leader's log has a request twice, and its index knows what its log has.

The heart of it is that majorities meet although the configuration changes. Two logs may name
different configurations at the lengths at which they are compared. If each of them holds what the
other's configurations were appended after (`Anchored`), then they have the same configuration
entries except for at most one, which only one of them has; so the two configurations are equal or
differ by one server, and their majorities share a server (`AnchoredMeet`). `WinnerHolds` uses it to
show that whoever wins an election has everything that was chosen in an earlier term (`ChosenBy`
says by which configuration). The exception in `AckInv` makes it inductive, and it
is emptied by an induction over terms: suppose that a winner lacks something chosen, and take the
earliest such entry, by the term and then by the length of the leader's log at which it was chosen.
What the configurations up to there waited for was chosen earlier, so both logs have it, they are
anchored in each other, and a voter of the winner had acknowledged the entry. It keeps it, since the
leader that could have overruled it would be an earlier winner that lacks the entry. Two winners of
one term each have what was chosen before it, so they are anchored in each other too, and their
voters share a server that voted twice (`LeadersAreAlone`).

The history is needed, because an old leader's log may be gone from every server while its
messages are still under way. In a step it is extended by what the leader of a term appended
(`HistoryGrows`). Every handler is classified once (`Shape`, `EveryShape`) by what it does to the
record and which messages it adds: nothing to the log, standing, voting, winning, taking entries,
appending, counting an acknowledgement; each part of `Inv` is then shown to survive each shape. The
lemmas on the methods of `RaftNode` that this needs are in `RaftElections`.

The refinement is proved from the same invariant: a step of the cluster in which servers consume
is a step of `ReplicatedLog` that agrees on what is newly committed and consumes it, a crash is
its crash, and anything else stutters.

### The reads

* **`ReadsAreAlwaysFresh`** (`RaftReads`), under the same assumption: `Spec => ReadsAreFresh`. A
  read that a server answers is answered from a state with everything that was committed anywhere
  when it was accepted. The step that answers sees one acknowledgement of one round, and the
  property looks back to the start of that round, so the invariant `ReadInv` carries what was
  known then, on top of `Explained`:
  * rounds are numbered: an acknowledgement names a round its leader has begun, and one that a
    leader counted was for this round;
  * a leader that accepts a read has committed an entry of its own term (`OwnCommits`), and of
    the entries of its own term a leader is the first to know that they are committed,
    unless a later leader has been seen (`KnowsItsCommits`; by `LeadersCommitFirst` only a leader moves an index to what was not
    committed before);
  * a pending round waits for everything that was committed when it began, or it is hopeless
    (`Hopeless`): some later leader was elected with a log that has nothing newer than the round's
    term, and of the configuration which that log named a majority is in later terms and has never
    acknowledged the round, and never will (`Bars`). This is what a deposed leader's read becomes,
    because whatever was committed behind its back was committed by a later leader, and the earliest
    of these was elected so. The leader of the round may have changed the configuration since, but
    its log and that of the later leader are anchored in each other, so a majority that confirms the
    round shares a server with the one that refuses (`HopelessIsUnserved`), and no such round is
    answered.

  Handlers are classified once more (`ReadShape`), by whether they leave the rounds alone, answer
  one, count an answer or begin one. **`ReadsAreAlwaysSound`** states the invariant itself, of the
  recorded history: `HistorySpec => []ReadsAreSound`, which the run `Reads` checks.
* **`RolesAreAlwaysEarned`**, **`LogsAreAlwaysLeaders`**, **`AcksAlwaysBind`**, **`CommitsAreAlwaysSettled`**
  (`RaftReads`): `HistorySpec => []P` for the four properties of the recorded history that
  `Figure8` checks, one of them also in `Membership`; all for clusters that compact nothing.
  `Explained` says that some history satisfies the invariant; these say that the one that
  `RaftHistory` records does. What the proof puts in the history at a step is what `Remember` records:
  in terms that are led, a server's log, elsewhere what was there; so the two agree on every term
  that was led (`Recorded`, `RecordedStays`), and the invariant looks at no other (`InvReadsLed`).

### The oracle

`OracleProofs` proves, for every history, workload, limit and budget, that the search of `check` is
right: `PositiveVerdictIsRight`, `NegativeVerdictIsRight` and `ProgressIsBest` state `[]` of
`WitnessIsLinearization`, `AccusationIsRight` and `DeepestIsLongest`. The first needs that the path of
each frame of the stack is linear, places what is not pending and leads to the frame's store
(`GoodFrame`, `GoodFrameExtends`). The other two are about what the search leaves out. A state, a
store and what is pending, is `Exhausted` if no order that continues from there places more than
the longest path does; the invariant `SearchInv` says of every state in the memo, and of the root, that it is
exhausted or on the stack (`Visited`), and of every frame that the candidates before `next` are rejected
or visited. It is inductive for two reasons. An order that continues must begin with a candidate of
`minimal`, since otherwise something would be placed before an operation that returned earlier
(`DeadEnd`). And when a frame is popped, none of its candidates can be waiting on the stack, because
what is pending shrinks from frame to frame (`FrameExhausted`). Then an empty stack means an
exhausted root. The budget enters nowhere: it gives a verdict of its own. Inductions over orders are
inductions over intervals and over the size of finite sets (`Sortable`, `RunExists`, `RunsAgree`).

### The sessions

`SessionProofs` proves both properties of `ClientSessions`, for any servers, clients, keys, requests,
threshold and length of the log, reads through the log or not:

* **`ReplicasAlwaysAgree`**: `Spec => []ReplicasAgree`. A stretch of the log applied from its state is
  a stretch of the whole run (`StretchRuns`), and a log that grows keeps its states (`StatesStay`).
* **`ExactlyOnce`**: `Spec => ImplementsAtomicStore`. The invariant `SessionsInv` adds to
  `ReplicasAgree` that a client waits for its latest request only (`WaitsInv`), and (`OnceInv`) that
  a request in the log is either waited for still or older than the client's next one and already
  in the sessions of whoever applied the log that far. It holds because a session
  remembers the latest request of its client in the log (`StatesRemember`). So nobody waits
  for what some server has applied (`NotYetApplied`): a server that replays tells nobody anything. In
  the part that nobody has applied yet, a request takes effect where it stands for the first
  time, if its client waits for it (`FirstExecutes`), and nothing else changes the state
  (`OthersDoNothing`). These first positions, in order, are the clients whose requests
  `AtomicStore` executes in that step (`TurnsExecute`, `BetweenTurns`); if there are none the step is
  a stutter (`QuietAtomic`). A ReadIndex read is answered from a state between the
  question and now.

The proof assumes of the requests what `Command` gives them, an operation that is put, get or cas. It
takes from Raft what the module takes: one log that grows, and reads served from a recent state.

### Faults and the shrinker

`ShrinkProofs` proves all safety properties of the run `Shrinking`, for any size of cluster, any schedule
of well-formed patterns, any budget, and whatever makes a run fail:

| Theorem | Property |
|---|---|
| `FaultsAlwaysEnd` | `[]EveryFaultEnds` |
| `NoOrphans` | `[]NoOrphanRecovery` |
| `FiredInOrder` | `[]DeclaredOrder` |
| `ShrunkReproduces` | `[]ResultReproduces` |
| `ShrunkIsMinimal` | `[]OneMinimal` |
| `ShrunkIsEarliest` | `[]EarliestStep` |
| `NoFaultToSpare` | no run at all with one more fault suppressed fails the same way |
| `ShrinkTypes` | `[]TypeOK` |

The first three are about one run, with any mask and any draws of the random driver. `RunInv` adds to
them that no two events have the same place in the queue (`QueueInv`), that what is still to be injected comes
after what was, in the order declared (`OrderInv`), and that no restart is pending for a server that is
up (`CrashInv`): this is what keeps overlapping outages apart, since a second crash finds the server
either down, and is skipped, or up with no restart of an earlier one on its way. A partition is left
out in the middle of a decision of the random driver (`DrawingInv`), which cuts the network before it schedules
the decision that may heal it.

The others relate runs to each other. The run in progress is a `Trace` of the scenario with its
mask; without the random driver each step has one outcome (`AdvanceUnique`), so that two runs with
the same mask and budget end alike (`EndsAgree`), and a verdict once seen holds of every later run of
that kind (`GivesOne`). `ShrinkInv` says in these terms what the shrinker knows: everything
`rejected` does not reproduce, `kept` does (`DdminInv`), the upper end of the search range
reproduces and the budget below its lower end does not (`BudgetInv`). So the run that is reported, which was
never made before, must reproduce. Two arguments are not about bookkeeping:

* *Minimality.* When `ddmin` stops, its last division had a part for each element (`ComplementOfOne`), and
  every part was tried (`DdminInv`). A reduction leaves enough elements for the next division
  (`ComplementLeaves`).
* *The earliest budget.* Failures come and do not go, but the verdict of a longer run may be another one: an
  invariant violation hides an unlinearizable history. If the failure had struck before the last
  step of the reported run, the run one step shorter would have had the same verdict
  (`StruckBefore`), which the binary search has refuted for that budget.

The assumptions are `FaultsAssumption`, which gives the constants their types, and `ShrinkAssumption`: patterns
are what `nemesis.py` accepts, and runs of the random driver do not fail.

### Only model-checked

The cluster with compaction (`Snapshots`), except for types, votes and, where the membership does not
change, `ElectionSafety` and `TimerMatchesRole`: `ImplementsReplicatedLog` holds there with a threshold
of 1 and is false where servers compact at different points. And the checker, whose passes are folds over
servers and entries. `CheckTerminates`, `ShrinkTerminates` and `Progress` are liveness and stay with TLC.

## 5. What is not modelled

* Random draws, digests, the trace, statistics, rendering (`timeline.py`, `report.py`) and the command
  line: no property is about them. Virtual time is in `Faults`, where recoveries depend on it, and
  not in `RaftCluster`, where any timer may fire at any moment.
* JSON encoding of schedules, and the validation of their fields.
* The composition of `Shrink` with real servers: a run there fails by its scenario's causes. The shrinker
  sees nothing of a run but its verdict and its number of faults, so nothing else could matter.
* The defect flags, except as mutants.
* Liveness of elections: that some server becomes leader rests on randomised timeouts, of which
  weak fairness says nothing.

`PROJECT.json` lists each component with its status and each uncovered hazard with its reason.

## 6. Plan

The model has what the plan of the core asked for. What is left, in order of importance:

1. **Theorems** about `RaftCluster` with compaction: which of the safety properties remain true, and
   with what history, when the prefix of a log is replaced by an image.
2. **Theorems** about `InvariantChecker` (`NoFalseAlarm`, `MissesNothingFirstSeen`).
3. **Directed runs**: the acknowledgement of a divergent tail (`node.py` 663), the first-commit guard of
   `change_config` with four servers, and two leaders that both change the configuration while the other's
   change is still to be truncated, which needs a second request and more states than a run has time for.

Each follows the form used here: a module with constants and named assumptions, an MC module
with its configurations, theorems in modules of their own.
