--------------------------- MODULE RaftElections ----------------------------
(***************************************************************************)
(* Theorems about RaftCluster for every value of its constants: everything *)
(* has its type and a vote is final; in a cluster whose membership nobody  *)
(* changes at most one server ever leads a term, and every server that is  *)
(* up waits for what its role makes it wait for; and, whoever changes the  *)
(* membership, the configuration a server acts on is the one that its log  *)
(* names last.                                                             *)
(*                                                                         *)
(* They rest on lemmas about each handler of RaftNode, which come first.   *)
(* A handler gives an effect of the right type.  Of what elections depend  *)
(* on, the term, the vote and the role of its server: only a RequestVote   *)
(* makes a server grant a vote, only its own election timer makes it vote  *)
(* for itself, and only these two and a VoteReply that it counts do        *)
(* anything but keep it in its role or turn it into a follower.  Then what *)
(* it does to the log, to what is applied and to what a leader believes,   *)
(* on servers that have no snapshot.                                       *)
(***************************************************************************)
EXTENDS RaftNode, RaftInvariants, FiniteNats

---------------------------------------------------------------------------
(* Types: every handler, applied to a record and a message of the right    *)
(* type, gives an effect of the right type.                                *)

\* What a handler gives: a record of a server and messages.
GoodEffect(e) == e.node \in NodeState /\ e.out \subseteq Message

LEMMA EffectIsGood ==
    ASSUME NEW n \in NodeState, NEW out \in SUBSET Message, NEW reported
    PROVE  GoodEffect(Effect(n, out, reported))
BY DEF Effect, GoodEffect

(***************************************************************************)
(* Maximum is what its name says on the sets the code takes it of.         *)
(***************************************************************************)
LEMMA MaximumIsGreatest ==
    ASSUME NEW S \in SUBSET Nat, IsFiniteSet(S), S # {}
    PROVE  Maximum(S) \in S /\ \A y \in S : y <= Maximum(S)
BY GreatestNat DEF Maximum

LEMMA RangeMaximum ==
    ASSUME NEW a \in Nat, NEW b \in Nat, NEW S \in SUBSET (a..b), S # {}
    PROVE  Maximum(S) \in S /\ Maximum(S) \in Nat
<1>1. IsFiniteSet(a..b)
  BY FS_Interval
<1>2. IsFiniteSet(S)
  BY <1>1, FS_Subset
<1>3. S \in SUBSET Nat
  OBVIOUS
<1> QED BY <1>2, <1>3, MaximumIsGreatest

LEMMA LastOfIsLast ==
    ASSUME NEW K \in Nat, NEW S \in SUBSET (1..K), S # {}
    PROVE  LastOf(S) \in S /\ \A y \in S : y <= LastOf(S)
<1>0. IsFiniteSet(1..K)
  BY FS_Interval
<1>1. IsFiniteSet(S)
  BY <1>0, FS_Subset
<1>2. S \in SUBSET Nat
  OBVIOUS
<1> QED BY <1>1, <1>2, GreatestNat DEF LastOf

---------------------------------------------------------------------------
(* The log. *)

LEMMA RaisedEntryType == RaisedEntry \in Entry
BY DEF RaisedEntry, Entry, Command, ClientCommand

LEMMA NoSnapshotType == NoSnapshot \in Snapshot
BY VotersAssumption DEF NoSnapshot, Snapshot

(***************************************************************************)
(* Reading a log gives entries and terms, wherever it is read.             *)
(***************************************************************************)
LEMMA LogReads ==
    ASSUME NEW n \in NodeState, NEW k \in Int
    PROVE  /\ base_index(n) \in Nat
           /\ base_term(n) \in Int
           /\ last_log_index(n) \in Nat
           /\ _phys(n, k) \in Int
           /\ entry_at(n, k) \in Entry
           /\ term_at(n, k) \in Int
           /\ log_suffix(n, k) \in Seq(Entry)
<1>1. base_index(n) \in Nat /\ base_term(n) \in Int /\ n.log \in Seq(Entry)
  BY DEF NodeState, Snapshot, base_index, base_term
<1>2. last_log_index(n) \in Nat /\ _phys(n, k) \in Int
  BY <1>1 DEF last_log_index, _phys
<1>3. entry_at(n, k) \in Entry
  BY <1>1, <1>2, RaisedEntryType DEF entry_at
<1>4. term_at(n, k) \in Int
  BY <1>1, <1>3 DEF term_at, Entry
<1>5. log_suffix(n, k) \in Seq(Entry)
  BY <1>1, <1>2 DEF log_suffix
<1> QED BY <1>1, <1>2, <1>3, <1>4, <1>5

LEMMA Slices ==
    ASSUME NEW T, NEW log \in Seq(T), NEW k \in Int
    PROVE  /\ SliceOffset(log, k) \in 0..Len(log)
           /\ DelFrom(log, k) \in Seq(T)
           /\ DelPrefix(log, k) \in Seq(T)
<1>1. SliceOffset(log, k) \in 0..Len(log)
  BY DEF SliceOffset
<1> QED BY <1>1 DEF DelFrom, DelPrefix

---------------------------------------------------------------------------
(* The configuration. *)

LEMMA AdoptConfigType ==
    ASSUME NEW n \in NodeState, NEW V \in SUBSET Node, NEW k \in Nat
    PROVE  _adopt_config(n, V, k) \in NodeState
BY DEF _adopt_config, NodeState

LEMMA EntryVoters ==
    ASSUME NEW log \in Seq(Entry), NEW k \in 1..Len(log)
    PROVE  log[k].command.voters \in SUBSET Node
<1>1. log[k] \in Entry
  OBVIOUS
<1> QED BY <1>1 DEF Entry, Command

LEMMA RebuildConfigType ==
    ASSUME NEW n \in NodeState
    PROVE  _rebuild_config(n) \in NodeState
<1>1. n.log \in Seq(Entry) /\ n.snapshot.voters \in SUBSET Node /\ base_index(n) \in Nat
  BY DEF NodeState, Snapshot, base_index
<1>2. CASE ConfigPositions(n) = {}
  BY <1>1, <1>2, AdoptConfigType DEF _rebuild_config
<1>3. CASE ConfigPositions(n) # {}
  <2> DEFINE k == LastOf(ConfigPositions(n))
  <2>1. k \in 1..Len(n.log)
    <3>1. ConfigPositions(n) \in SUBSET (1..Len(n.log))
      BY DEF ConfigPositions
    <3>2. Len(n.log) \in Nat
      BY <1>1
    <3> QED BY <1>3, <3>1, <3>2, LastOfIsLast
  <2> HIDE DEF k
  <2>2. n.log[k].command.voters \in SUBSET Node
    BY <1>1, <2>1, EntryVoters
  <2>3. _adopt_config(n, n.log[k].command.voters, base_index(n) + k) \in NodeState
    BY <1>1, <2>1, <2>2, AdoptConfigType
  <2> QED BY <1>3, <2>3 DEF _rebuild_config, k
<1> QED BY <1>2, <1>3

LEMMA ConfigAtType ==
    ASSUME NEW n \in NodeState, NEW upto \in Int
    PROVE  _config_at(n, upto) \in SUBSET Node
<1>1. n.log \in Seq(Entry) /\ n.snapshot.voters \in SUBSET Node
  BY DEF NodeState, Snapshot
<1> DEFINE below == {k \in ConfigPositions(n) : base_index(n) + k <= upto}
<1>2. CASE below = {}
  BY <1>1, <1>2 DEF _config_at
<1>3. CASE below # {}
  <2>1. below \in SUBSET (1..Len(n.log))
    BY DEF ConfigPositions
  <2> HIDE DEF below
  <2>2. LastOf(below) \in 1..Len(n.log)
    <3>1. Len(n.log) \in Nat
      BY <1>1
    <3> QED BY <1>3, <2>1, <3>1, LastOfIsLast
  <2>3. n.log[LastOf(below)].command.voters \in SUBSET Node
    BY <1>1, <2>2, EntryVoters
  <2> USE DEF below
  <2> QED BY <1>3, <2>3 DEF _config_at
<1> QED BY <1>2, <1>3

---------------------------------------------------------------------------
(* Messages. *)

LEMMA SendAppendEntriesType ==
    ASSUME NEW i \in Node, NEW n \in NodeState, NEW p \in Node
    PROVE  _send_append_entries(i, n, p) \in Message
<1> DEFINE prev == n.next_index[p] - 1
<1>1. prev \in Nat /\ n.term \in Nat /\ n.commit_index \in Nat /\ n.snapshot \in Snapshot
  BY DEF NodeState
<1>2. InstallSnapshot(i, p, n) \in Message
  BY <1>1 DEF InstallSnapshot, Message
<1>3. AppendEntries(i, p, n, prev) \in Message
  <2>0. prev \in Int /\ prev + 1 \in Int
    BY <1>1
  <2> HIDE DEF prev
  <2>1. term_at(n, prev) \in Int /\ log_suffix(n, prev + 1) \in Seq(Entry)
    BY <2>0, LogReads
  <2> QED BY <1>1, <2>1 DEF AppendEntries, Message
<1> QED BY <1>2, <1>3 DEF _send_append_entries

LEMMA BroadcastType ==
    ASSUME NEW i \in Node, NEW n \in NodeState
    PROVE  _broadcast_heartbeats(i, n) \subseteq Message
<1>1. n.voters \subseteq Node
  BY DEF NodeState
<1> QED BY <1>1, SendAppendEntriesType DEF _broadcast_heartbeats

LEMMA RepliesType ==
    ASSUME NEW i \in Node, NEW p \in Node, NEW n \in NodeState
    PROVE  /\ \A g \in BOOLEAN : VoteReply(i, p, n, g) \in Message
           /\ \A s \in BOOLEAN, k \in Nat : AppendReply(i, p, n, s, k) \in Message
           /\ \A k \in Nat : ReadHeartbeat(i, p, n, k) \in Message
           /\ \A k \in Nat : ReadAck(i, p, n, k) \in Message
           /\ RequestVote(i, p, n) \in Message
<1>1. n.term \in Nat
  BY DEF NodeState
<1>2. last_log_index(n) \in Nat /\ term_at(n, last_log_index(n)) \in Int
  BY LogReads
<1> QED BY <1>1, <1>2
        DEF VoteReply, AppendReply, ReadHeartbeat, ReadAck, RequestVote, Message

---------------------------------------------------------------------------
(* Commit and apply. *)

LEMMA CompactType ==
    ASSUME NEW n \in NodeState
    PROVE  _maybe_compact(n) \in NodeState
<1> DEFINE upto == last_applied(n)
           log == DelPrefix(n.log, upto - base_index(n))
           snap == [last_index |-> upto, last_term |-> term_at(n, upto),
                    image |-> n.machine, voters |-> _config_at(n, upto)]
<1>1. n.log \in Seq(Entry) /\ n.machine \in Seq(Entry)
  BY DEF NodeState
<1>2. upto \in Nat /\ upto \in Int
  BY <1>1 DEF last_applied
<1> HIDE DEF upto
<1>3. base_index(n) \in Nat /\ term_at(n, upto) \in Int
  BY <1>2, LogReads
<1>4. log \in Seq(Entry)
  <2>1. upto - base_index(n) \in Int
    BY <1>2, <1>3
  <2> QED BY <1>1, <2>1, Slices
<1>5. snap \in Snapshot
  BY <1>1, <1>2, <1>3, ConfigAtType DEF Snapshot
<1> HIDE DEF log, snap
<1>6. [n EXCEPT !.log = log, !.snapshot = snap] \in NodeState
  BY <1>4, <1>5 DEF NodeState
<1> QED BY <1>6 DEF _maybe_compact, log, snap, upto

LEMMA CommittedType ==
    ASSUME NEW n \in NodeState, NEW index \in Nat
    PROVE  LET new == [k \in 1..(index - last_applied(n)) |-> entry_at(n, last_applied(n) + k)]
           IN  [n EXCEPT !.commit_index = index, !.machine = @ \o new] \in NodeState
<1> DEFINE new == [k \in 1..(index - last_applied(n)) |-> entry_at(n, last_applied(n) + k)]
           m == [n EXCEPT !.commit_index = index, !.machine = @ \o new]
<1>1. n.machine \in Seq(Entry)
  BY DEF NodeState
<1>2. last_applied(n) \in Nat
  BY <1>1 DEF last_applied
<1>3. new \in Seq(Entry)
  <2>1. \A k \in Nat : entry_at(n, last_applied(n) + k) \in Entry
    BY <1>2, LogReads
  <2>2. CASE index - last_applied(n) \in Nat
    BY <2>1, <2>2
  <2>3. CASE index - last_applied(n) \notin Nat
    <3>1. 1..(index - last_applied(n)) = {}
      BY <1>2, <2>3
    <3>2. new \in [1..0 -> Entry]
      BY <3>1
    <3> HIDE DEF new
    <3> QED BY <3>2, SeqDef, 0 \in Nat
  <2> QED BY <2>2, <2>3
<1> HIDE DEF new
<1>4. m \in NodeState
  <2>1. n.machine \o new \in Seq(Entry)
    BY <1>1, <1>3
  <2> QED BY <2>1 DEF NodeState
<1> QED BY <1>4 DEF new

LEMMA SetCommitIndexType ==
    ASSUME NEW n \in NodeState, NEW index \in Nat
    PROVE  _set_commit_index(n, index) \in NodeState
BY CommittedType, CompactType DEF _set_commit_index

LEMMA AdvanceCommitType ==
    ASSUME NEW n \in NodeState
    PROVE  _advance_commit(n) \in NodeState
<1> DEFINE ready == {k \in (n.commit_index + 1)..last_log_index(n) :
                        OfThisTerm(n, k) /\ Replicated(n, k)}
<1>0. last_log_index(n) \in Nat
  BY LogReads
<1>1. n.commit_index \in Nat /\ last_log_index(n) \in Nat
  BY <1>0 DEF NodeState
<1>2. CASE ready = {}
  BY <1>2 DEF _advance_commit
<1>3. CASE ready # {}
  <2>1. n.commit_index + 1 \in Nat
    BY <1>1
  <2>2. ready \in SUBSET ((n.commit_index + 1)..last_log_index(n))
    OBVIOUS
  <2> HIDE DEF ready
  <2>4. Maximum(ready) \in Nat
    BY <1>1, <1>3, <2>1, <2>2, RangeMaximum
  <2>5. _set_commit_index(n, Maximum(ready)) \in NodeState
    BY <2>4, SetCommitIndexType
  <2>6. [_set_commit_index(n, Maximum(ready)) EXCEPT !.committed_this_term = TRUE] \in NodeState
    BY <2>5 DEF NodeState
  <2> QED BY <1>3, <2>6 DEF _advance_commit, ready
<1> QED BY <1>2, <1>3

---------------------------------------------------------------------------
(* Roles. *)

LEMMA BecomeFollowerType ==
    ASSUME NEW n \in NodeState, NEW t \in Nat
    PROVE  _become_follower(n, t) \in NodeState
BY DEF _become_follower, NodeState, Role

LEMMA RebuildClientIndexType ==
    ASSUME NEW n \in NodeState
    PROVE  _rebuild_client_index(n) \in [Client -> Int]
<1> DEFINE Positions(c) == {j \in 1..Len(n.log) : n.log[j].command.client = c}
           Ids(c) == {n.log[k].command.req : k \in Positions(c)}
<1>1. n.log \in Seq(Entry) /\ Len(n.log) \in Nat
  BY DEF NodeState
<1>2. \A k \in 1..Len(n.log) : n.log[k].command.req \in Nat
  <2> TAKE k \in 1..Len(n.log)
  <2>1. n.log[k] \in Entry
    BY <1>1
  <2> QED BY <2>1 DEF Entry, Command
<1>3. ASSUME NEW c \in Client, Ids(c) # {}
      PROVE  Maximum(Ids(c)) \in Int
  <2>1. Ids(c) \in SUBSET Nat
    BY <1>2
  <2>2. IsFiniteSet(Positions(c))
    <3>1. IsFiniteSet(1..Len(n.log))
      BY <1>1, FS_Interval
    <3> QED BY <3>1, FS_Subset
  <2> DEFINE req == [k \in Positions(c) |-> n.log[k].command.req]
  <2>3. req \in Surjection(Positions(c), Ids(c))
    BY DEF Surjection
  <2> HIDE DEF req
  <2>4. IsFiniteSet(Ids(c))
    <3> HIDE DEF Positions, Ids
    <3> QED BY <2>2, <2>3, FS_Surjection
  <2> HIDE DEF Ids
  <2> QED BY <1>3, <2>1, <2>4, MaximumIsGreatest
<1>4. [c \in Client |-> IF Ids(c) = {} THEN -1 ELSE Maximum(Ids(c))] \in [Client -> Int]
  <2> HIDE DEF Ids
  <2> QED BY <1>3
<1> QED BY <1>4, Zenon DEF _rebuild_client_index

LEMMA BecomeLeaderType ==
    ASSUME NEW i \in Node, NEW n \in NodeState
    PROVE  GoodEffect(_become_leader(i, n))
<1> DEFINE last == last_log_index(n)
           index == _rebuild_client_index(n)
           lead == [n EXCEPT !.role = "leader",
                             !.next_index = [p \in Node |-> last + 1],
                             !.match_index = [p \in Node |-> IF p = i THEN last ELSE 0],
                             !.committed_this_term = FALSE,
                             !.client_index = index,
                             !.timer = "heartbeat"]
<1>1. last \in Nat
  BY LogReads
<1>2. index \in [Client -> Int]
  BY RebuildClientIndexType
<1> HIDE DEF last, index
<1>3. lead \in NodeState
  <2>1. /\ [p \in Node |-> last + 1] \in [Node -> Nat \ {0}]
        /\ [p \in Node |-> IF p = i THEN last ELSE 0] \in [Node -> Nat]
    BY <1>1
  <2> QED BY <1>2, <2>1 DEF NodeState, Role
<1> HIDE DEF lead
<1>4. _broadcast_heartbeats(i, lead) \subseteq Message
  BY <1>3, BroadcastType
<1>5. _become_leader(i, n) = Effect(lead, _broadcast_heartbeats(i, lead), {})
  BY DEF _become_leader, lead, last, index
<1> QED BY <1>3, <1>4, <1>5 DEF GoodEffect, Effect

LEMMA MaybeWinType ==
    ASSUME NEW i \in Node, NEW n \in NodeState
    PROVE  GoodEffect(_maybe_win(i, n))
BY BecomeLeaderType DEF _maybe_win, GoodEffect, Effect, Silent

LEMMA CandidateType ==
    ASSUME NEW i \in Node, NEW n \in NodeState
    PROVE  [n EXCEPT !.term = @ + 1, !.role = "candidate", !.voted_for = i,
                     !.votes = {i}, !.timer = "election"] \in NodeState
<1>1. n.term + 1 \in Nat
  BY DEF NodeState
<1> QED BY <1>1 DEF NodeState, Role

LEMMA StartElectionType ==
    ASSUME NEW i \in Node, NEW n \in NodeState
    PROVE  GoodEffect(start_election(i, n))
<1> DEFINE cand == [n EXCEPT !.term = @ + 1, !.role = "candidate", !.voted_for = i,
                             !.votes = {i}, !.timer = "election"]
           asked == {RequestVote(i, p, cand) : p \in cand.voters \ {i}}
<1>1. CASE i \notin n.voters
  <2>1. [n EXCEPT !.timer = "election"] \in NodeState
    BY DEF NodeState
  <2> QED BY <1>1, <2>1 DEF start_election, Silent, Effect, GoodEffect
<1>2. CASE i \in n.voters
  <2>1. cand \in NodeState
    BY CandidateType
  <2> HIDE DEF cand
  <2>2. asked \subseteq Message
    <3>1. cand.voters \subseteq Node
      BY <2>1 DEF NodeState
    <3> QED BY <2>1, <3>1, RepliesType
  <2>3. GoodEffect(_maybe_win(i, cand))
    BY <2>1, MaybeWinType
  <2> HIDE DEF asked
  <2>4. start_election(i, n) =
          Effect(_maybe_win(i, cand).node, asked \cup _maybe_win(i, cand).out, {})
    BY <1>2 DEF start_election, cand, asked
  <2> QED BY <2>2, <2>3, <2>4 DEF Effect, GoodEffect
<1> QED BY <1>1, <1>2

LEMMA HeartbeatTimeoutType ==
    ASSUME NEW i \in Node, NEW n \in NodeState
    PROVE  GoodEffect(HeartbeatTimeout(i, n))
<1>1. [n EXCEPT !.timer = "heartbeat"] \in NodeState
  BY DEF NodeState
<1>2. _broadcast_heartbeats(i, n) \subseteq Message
  BY BroadcastType
<1> QED BY <1>1, <1>2 DEF HeartbeatTimeout, Effect, GoodEffect

---------------------------------------------------------------------------
(* Crash, restart and the client interface. *)

LEMMA RestoreType ==
    ASSUME NEW n \in NodeState, NEW snap \in Snapshot
    PROVE  Restore(n, snap) \in NodeState
BY DEF Restore, NodeState, Snapshot

LEMMA CrashedType ==
    ASSUME NEW n \in NodeState
    PROVE  [Restore(n, n.snapshot) EXCEPT
              !.alive = FALSE, !.role = "follower", !.timer = "none",
              !.next_index = [p \in Node |-> 1], !.match_index = [p \in Node |-> 0],
              !.votes = {}, !.client_index = [c \in Client |-> -1],
              !.pending_reads = {}, !.committed_this_term = FALSE] \in NodeState
<1>1. Restore(n, n.snapshot) \in NodeState
  <2>1. n.snapshot \in Snapshot
    BY DEF NodeState
  <2> QED BY <2>1, RestoreType
<1>2. /\ [p \in Node |-> 1] \in [Node -> Nat \ {0}]
      /\ [p \in Node |-> 0] \in [Node -> Nat]
      /\ [c \in Client |-> -1] \in [Client -> Int]
  OBVIOUS
<1> QED BY <1>1, <1>2 DEF NodeState, Role

LEMMA PauseType ==
    ASSUME NEW n \in NodeState
    PROVE  pause(n) \in NodeState
BY CrashedType, RebuildConfigType DEF pause

LEMMA ResumeType ==
    ASSUME NEW n \in NodeState
    PROVE  resume(n) \in NodeState
BY DEF resume, NodeState

LEMMA AppendToLogType ==
    ASSUME NEW i \in Node, NEW n \in NodeState, NEW command \in Command
    PROVE  AppendToLog(i, n, command) \in NodeState
<1> DEFINE entry == [term |-> n.term, command |-> command]
           grown == [n EXCEPT !.log = Append(@, entry)]
<1>1. entry \in Entry /\ n.log \in Seq(Entry) /\ n.match_index \in [Node -> Nat]
  BY DEF NodeState, Entry
<1> HIDE DEF entry
<1>2. grown \in NodeState
  <2>1. Append(n.log, entry) \in Seq(Entry)
    BY <1>1
  <2> QED BY <2>1 DEF NodeState
<1>3. grown.match_index = n.match_index
  BY DEF NodeState
<1> HIDE DEF grown
<1>4. last_log_index(grown) \in Nat
  BY <1>2, LogReads
<1>5. [n.match_index EXCEPT ![i] = last_log_index(grown)] \in [Node -> Nat]
  BY <1>1, <1>4
<1>6. [grown EXCEPT !.match_index = [n.match_index EXCEPT ![i] = last_log_index(grown)]] \in NodeState
  BY <1>2, <1>5 DEF NodeState
<1>7. AppendToLog(i, n, command) =
        [grown EXCEPT !.match_index = [n.match_index EXCEPT ![i] = last_log_index(grown)]]
  BY <1>3 DEF AppendToLog, grown, entry
<1> QED BY <1>6, <1>7

LEMMA IndexedType ==
    ASSUME NEW n \in NodeState, NEW c \in Client, NEW r \in Nat
    PROVE  [n EXCEPT !.client_index[c] = r] \in NodeState
<1>1. [n.client_index EXCEPT ![c] = r] \in [Client -> Int]
  BY DEF NodeState
<1> QED BY <1>1 DEF NodeState

LEMMA ClientCommandType ==
    ASSUME NEW i \in Node, NEW n \in NodeState, NEW c \in Client, NEW r \in Nat
    PROVE  GoodEffect(client_command(i, n, c, r))
<1> DEFINE asked == [n EXCEPT !.client_index[c] = r]
           m == AppendToLog(i, asked, ClientCommand(c, r))
<1>1. asked \in NodeState
  BY IndexedType
<1> HIDE DEF asked
<1>2. ClientCommand(c, r) \in Command
  BY DEF ClientCommand, Command
<1>3. m \in NodeState
  BY <1>1, <1>2, AppendToLogType
<1> HIDE DEF m
<1>4. _broadcast_heartbeats(i, m) \subseteq Message
  BY <1>3, BroadcastType
<1> QED BY <1>3, <1>4 DEF client_command, Silent, Effect, GoodEffect, m, asked

LEMMA ChangeConfigType ==
    ASSUME NEW i \in Node, NEW n \in NodeState, NEW V \in SUBSET Node
    PROVE  GoodEffect(change_config(i, n, V))
<1> DEFINE grown == AppendToLog(i, n, encode_config(V))
           m == _adopt_config(grown, V, last_log_index(grown))
<1>1. encode_config(V) \in Command
  BY DEF encode_config, Command
<1>2. grown \in NodeState
  BY <1>1, AppendToLogType
<1> HIDE DEF grown
<1>3. last_log_index(grown) \in Nat
  BY <1>2, LogReads
<1>4. m \in NodeState
  BY <1>2, <1>3, AdoptConfigType
<1> HIDE DEF m
<1>5. _broadcast_heartbeats(i, m) \subseteq Message
  BY <1>4, BroadcastType
<1> QED BY <1>4, <1>5 DEF change_config, Effect, GoodEffect, m, grown

---------------------------------------------------------------------------
(* Reads. *)

LEMMA TryServeReadType ==
    ASSUME NEW n \in NodeState, NEW p \in PendingRead
    PROVE  GoodEffect(_try_serve_read(n, p))
<1>1. [n EXCEPT !.pending_reads = @ \ {p}] \in NodeState
  BY DEF NodeState
<1> QED BY <1>1 DEF _try_serve_read, Silent, Effect, GoodEffect

LEMMA RequestedType ==
    ASSUME NEW i \in Node, NEW n \in NodeState, NEW c \in Client, NEW r \in Nat
    PROVE  LET p == [id |-> n.next_read_id, command |-> ClientCommand(c, r),
                     index |-> n.commit_index, acks |-> {i}]
           IN  /\ p \in PendingRead
               /\ [n EXCEPT !.next_read_id = @ + 1, !.pending_reads = @ \cup {p}] \in NodeState
<1> DEFINE p == [id |-> n.next_read_id, command |-> ClientCommand(c, r),
                 index |-> n.commit_index, acks |-> {i}]
<1>1. p \in PendingRead
  BY DEF NodeState, PendingRead, ClientCommand, Command
<1> HIDE DEF p
<1>2. [n EXCEPT !.next_read_id = @ + 1, !.pending_reads = @ \cup {p}] \in NodeState
  <2>1. n.next_read_id + 1 \in Nat /\ n.pending_reads \cup {p} \in SUBSET PendingRead
    BY <1>1 DEF NodeState
  <2> QED BY <2>1 DEF NodeState
<1> QED BY <1>1, <1>2 DEF p

LEMMA RequestReadType ==
    ASSUME NEW i \in Node, NEW n \in NodeState, NEW c \in Client, NEW r \in Nat
    PROVE  GoodEffect(request_read(i, n, c, r))
<1> DEFINE p == [id |-> n.next_read_id, command |-> ClientCommand(c, r),
                 index |-> n.commit_index, acks |-> {i}]
           asked == [n EXCEPT !.next_read_id = @ + 1, !.pending_reads = @ \cup {p}]
           done == _try_serve_read(asked, p)
           sent == {ReadHeartbeat(i, q, n, p.id) : q \in n.voters \ {i}}
<1>1. p \in PendingRead /\ asked \in NodeState
  BY RequestedType
<1>2. n.next_read_id \in Nat /\ n.voters \subseteq Node /\ p.id = n.next_read_id
  BY DEF NodeState
<1> HIDE DEF p
<1> HIDE DEF asked
<1>4. GoodEffect(done)
  BY <1>1, TryServeReadType
<1>5. sent \subseteq Message
  BY <1>2, RepliesType
<1> QED BY <1>4, <1>5 DEF request_read, Effect, GoodEffect, p, asked

LEMMA ReadHeartbeatHandlerType ==
    ASSUME NEW i \in Node, NEW n \in NodeState, NEW m \in Message, m.type = "ReadHeartbeat"
    PROVE  GoodEffect(_on_read_heartbeat(i, n, m))
<1> DEFINE follow == IF m.term > n.term THEN _become_follower(n, m.term) ELSE n
           armed == IF m.term >= n.term THEN [follow EXCEPT !.timer = "election"] ELSE follow
<1>1. m.term \in Nat /\ m.src \in Node /\ m.read_id \in Nat
  BY DEF Message
<1>2. follow \in NodeState
  BY <1>1, BecomeFollowerType
<1> HIDE DEF follow
<1>3. armed \in NodeState
  BY <1>2 DEF NodeState
<1> HIDE DEF armed
<1>4. ReadAck(i, m.src, armed, m.read_id) \in Message
  BY <1>1, <1>3, RepliesType
<1> QED BY <1>3, <1>4 DEF _on_read_heartbeat, Effect, GoodEffect, armed, follow

LEMMA AskedType ==
    ASSUME NEW n \in NodeState, NEW v \in Node, NEW id,
           \E q \in n.pending_reads : q.id = id
    PROVE  LET p == CHOOSE q \in n.pending_reads : q.id = id
               acked == [p EXCEPT !.acks = @ \cup {v}]
           IN  /\ acked \in PendingRead
               /\ [n EXCEPT !.pending_reads = (@ \ {p}) \cup {acked}] \in NodeState
<1> DEFINE p == CHOOSE q \in n.pending_reads : q.id = id
           acked == [p EXCEPT !.acks = @ \cup {v}]
<1>1. p \in PendingRead
  BY DEF NodeState
<1> HIDE DEF p
<1>2. acked \in PendingRead
  BY <1>1 DEF PendingRead
<1> HIDE DEF acked
<1>3. [n EXCEPT !.pending_reads = (@ \ {p}) \cup {acked}] \in NodeState
  <2>1. (n.pending_reads \ {p}) \cup {acked} \in SUBSET PendingRead
    BY <1>2 DEF NodeState
  <2> QED BY <2>1 DEF NodeState
<1> QED BY <1>2, <1>3 DEF acked, p

LEMMA ReadAckHandlerType ==
    ASSUME NEW i \in Node, NEW n \in NodeState, NEW m \in Message, m.type = "ReadAck"
    PROVE  GoodEffect(_on_read_ack(i, n, m))
<1>1. m.term \in Nat /\ m.src \in Node
  BY DEF Message
<1>2. _become_follower(n, m.term) \in NodeState
  BY <1>1, BecomeFollowerType
<1>3. CASE \E p \in n.pending_reads : p.id = m.read_id
  <2> DEFINE p == CHOOSE q \in n.pending_reads : q.id = m.read_id
             acked == [p EXCEPT !.acks = @ \cup {m.src}]
             asked == [n EXCEPT !.pending_reads = (@ \ {p}) \cup {acked}]
  <2>1. acked \in PendingRead /\ asked \in NodeState
    BY <1>1, <1>3, AskedType
  <2> HIDE DEF p, acked
  <2> HIDE DEF asked
  <2>4. GoodEffect(_try_serve_read(asked, acked))
    BY <2>1, TryServeReadType
  <2> QED BY <1>2, <2>4 DEF _on_read_ack, Silent, Effect, GoodEffect, p, acked, asked
<1>4. CASE ~ \E p \in n.pending_reads : p.id = m.read_id
  BY <1>2, <1>4 DEF _on_read_ack, Silent, Effect, GoodEffect
<1> QED BY <1>3, <1>4

---------------------------------------------------------------------------
(* Elections. *)

LEMMA RequestVoteHandlerType ==
    ASSUME NEW i \in Node, NEW n \in NodeState, NEW m \in Message, m.type = "RequestVote"
    PROVE  GoodEffect(_on_request_vote(i, n, m))
<1> DEFINE at == IF m.term > n.term THEN _become_follower(n, m.term) ELSE n
           granted == /\ m.term = at.term
                      /\ at.voted_for \in {None, m.src}
                      /\ UpToDate(at, m)
           after == IF granted THEN [at EXCEPT !.voted_for = m.src, !.timer = "election"] ELSE at
<1>1. m.term \in Nat /\ m.src \in Node
  BY DEF Message
<1>2. at \in NodeState
  BY <1>1, BecomeFollowerType
<1> HIDE DEF at
<1>3. granted \in BOOLEAN
  OBVIOUS
<1> HIDE DEF granted
<1>4. after \in NodeState
  BY <1>1, <1>2 DEF NodeState
<1> HIDE DEF after
<1>5. VoteReply(i, m.src, after, granted) \in Message
  BY <1>1, <1>3, <1>4, RepliesType
<1>6. _on_request_vote(i, n, m) = Effect(after, {VoteReply(i, m.src, after, granted)}, {})
  BY DEF _on_request_vote, after, granted, at
<1> QED BY <1>4, <1>5, <1>6 DEF Effect, GoodEffect

LEMMA VoteReplyHandlerType ==
    ASSUME NEW i \in Node, NEW n \in NodeState, NEW m \in Message, m.type = "VoteReply"
    PROVE  GoodEffect(_on_vote_reply(i, n, m))
<1> DEFINE counted == [n EXCEPT !.votes = @ \cup {m.src}]
<1>1. m.term \in Nat /\ m.src \in Node
  BY DEF Message
<1>2. _become_follower(n, m.term) \in NodeState
  BY <1>1, BecomeFollowerType
<1>3. counted \in NodeState
  BY <1>1 DEF NodeState
<1> HIDE DEF counted
<1>4. GoodEffect(_maybe_win(i, counted))
  BY <1>3, MaybeWinType
<1> QED BY <1>2, <1>4 DEF _on_vote_reply, Silent, Effect, GoodEffect, counted

---------------------------------------------------------------------------
(* AppendEntries. *)

(***************************************************************************)
(* Induction over the loop of _on_append_entries: if turn k of the loop    *)
(* takes the records of S[k - 1] to S[k], the loop ends in the last set.   *)
(***************************************************************************)
LEMMA TakeEntriesByTurns ==
    ASSUME NEW S, NEW n, NEW prev_index, NEW entries \in Seq(Entry), n \in S[0],
           \A k \in 1..Len(entries) : \A s \in S[k - 1] :
               TakeEntry(s, prev_index + k, entries[k]) \in S[k]
    PROVE  TakeEntries(n, prev_index, entries) \in S[Len(entries)]
<1> DEFINE K == Len(entries)
           Turn(g, k) == IF k = 0 THEN n ELSE TakeEntry(g[k - 1], prev_index + k, entries[k])
           Runs(L, g) == g = [k \in 0..L |-> Turn(g, k)]
           Runnable == {L \in 0..K : \E g : Runs(L, g)}
<1>1. K \in Nat
  OBVIOUS
<1>2. 0 \in Runnable
  <2>1. Runs(0, [k \in 0..0 |-> n])
    OBVIOUS
  <2>2. 0 \in 0..K
    BY <1>1
  <2> HIDE DEF Runs, K
  <2> QED BY <2>1, <2>2
<1>3. \A L \in 0..K : L < K /\ L \in Runnable => L + 1 \in Runnable
  <2> SUFFICES ASSUME NEW L \in 0..K, L < K, L \in Runnable PROVE L + 1 \in Runnable
    OBVIOUS
  <2>1. PICK g : Runs(L, g)
    OBVIOUS
  <2> DEFINE h == [k \in 0..(L + 1) |->
                     IF k = L + 1 THEN TakeEntry(g[L], prev_index + k, entries[k]) ELSE g[k]]
  <2>2. /\ \A k \in 0..L : h[k] = g[k] /\ h[k] = Turn(g, k)
        /\ h[L + 1] = TakeEntry(g[L], prev_index + (L + 1), entries[L + 1])
        /\ h = [k \in 0..(L + 1) |-> h[k]]
    BY <1>1, <2>1
  <2> HIDE DEF h
  <2>3. \A k \in 0..(L + 1) : h[k] = Turn(h, k)
    <3> TAKE k \in 0..(L + 1)
    <3>1. CASE k = L + 1
      <4>1. L \in 0..L /\ k # 0 /\ k - 1 = L
        BY <1>1, <3>1
      <4>2. h[L] = g[L]
        <5> HIDE DEF Turn
        <5> QED BY <2>2, <4>1
      <4> QED BY <2>2, <3>1, <4>1, <4>2
    <3>2. CASE k # L + 1 /\ k # 0
      <4>1. k \in 0..L /\ k - 1 \in 0..L
        BY <1>1, <3>2
      <4>2. h[k] = Turn(g, k) /\ h[k - 1] = g[k - 1]
        <5> HIDE DEF Turn
        <5> QED BY <2>2, <4>1
      <4> QED BY <3>2, <4>2
    <3>3. CASE k = 0
      <4>1. 0 \in 0..L
        BY <1>1
      <4>2. h[0] = Turn(g, 0)
        <5> HIDE DEF Turn
        <5> QED BY <2>2, <4>1
      <4> QED BY <3>3, <4>2
    <3> QED BY <3>1, <3>2, <3>3
  <2> HIDE DEF Turn
  <2>5. Runs(L + 1, h)
    BY <2>2, <2>3
  <2>6. L + 1 \in 0..K
    BY <1>1
  <2> HIDE DEF Runs
  <2> QED BY <2>5, <2>6
<1>4. K \in Runnable
  <2> HIDE DEF Runnable
  <2>1. 0..K \subseteq Runnable
    BY <1>1, <1>2, <1>3, IntervalInduction
  <2> QED BY <1>1, <2>1
<1> DEFINE after == CHOOSE g : Runs(K, g)
<1>5. Runs(K, after)
  BY <1>4
<1>6. TakeEntries(n, prev_index, entries) = after[K]
  BY DEF TakeEntries
<1> DEFINE Inside == {k \in 0..K : after[k] \in S[k]}
<1>7. K \in Inside
  <2> HIDE DEF after
  <2>1. 0 \in Inside
    BY <1>1, <1>5
  <2>2. \A k \in 0..K : k < K /\ k \in Inside => k + 1 \in Inside
    <3> TAKE k \in 0..K
    <3> HAVE k < K /\ k \in Inside
    <3>1. k + 1 \in 1..K /\ k + 1 # 0 /\ (k + 1) - 1 = k
      BY <1>1
    <3>2. after[k + 1] = TakeEntry(after[k], prev_index + (k + 1), entries[k + 1])
      BY <1>5, <3>1
    <3> QED BY <3>1, <3>2
  <2> HIDE DEF Inside
  <2>3. 0..K \subseteq Inside
    BY <1>1, <2>1, <2>2, IntervalInduction
  <2> QED BY <1>1, <2>3
<1> QED BY <1>6, <1>7

\* The same for one set that no turn of the loop leaves.
LEMMA TakeEntriesInduction ==
    ASSUME NEW S, NEW n \in S, NEW prev_index, NEW entries \in Seq(Entry),
           \A s \in S : \A k \in 1..Len(entries) :
               TakeEntry(s, prev_index + k, entries[k]) \in S
    PROVE  TakeEntries(n, prev_index, entries) \in S
<1> DEFINE T == [k \in 0..Len(entries) |-> S]
<1>1. n \in T[0] /\ T[Len(entries)] = S
  OBVIOUS
<1>2. \A k \in 1..Len(entries) : \A s \in T[k - 1] :
          TakeEntry(s, prev_index + k, entries[k]) \in T[k]
  OBVIOUS
<1> HIDE DEF T
<1> QED BY <1>1, <1>2, TakeEntriesByTurns

LEMMA TakeEntryType ==
    ASSUME NEW n \in NodeState, NEW index \in Nat, NEW e \in Entry
    PROVE  TakeEntry(n, index, e) \in NodeState
<1> DEFINE cut == [n EXCEPT !.log = DelFrom(@, _phys(n, index))]
           room == IF last_log_index(n) >= index THEN CheckConfig(cut, index) ELSE n
           appended == [room EXCEPT !.log = Append(@, e)]
<1>1. cut \in NodeState
  <2>1. _phys(n, index) \in Int
    BY LogReads
  <2>2. DelFrom(n.log, _phys(n, index)) \in Seq(Entry)
    BY <2>1, Slices DEF NodeState
  <2> QED BY <2>2 DEF NodeState
<1> HIDE DEF cut
<1>2. room \in NodeState
  BY <1>1, RebuildConfigType DEF CheckConfig
<1> HIDE DEF room
<1>3. appended \in NodeState
  <2>1. Append(room.log, e) \in Seq(Entry)
    BY <1>2 DEF NodeState
  <2> QED BY <1>2, <2>1 DEF NodeState
<1> HIDE DEF appended
<1>4. e.command.voters \in SUBSET Node
  BY DEF Entry, Command
<1>5. _adopt_config(appended, e.command.voters, index) \in NodeState
  BY <1>3, <1>4, AdoptConfigType
<1> QED BY <1>3, <1>5 DEF TakeEntry, appended, room, cut

LEMMA TakeEntriesType ==
    ASSUME NEW n \in NodeState, NEW prev_index \in Nat, NEW entries \in Seq(Entry)
    PROVE  TakeEntries(n, prev_index, entries) \in NodeState
<1>1. \A s \in NodeState : \A k \in 1..Len(entries) :
          TakeEntry(s, prev_index + k, entries[k]) \in NodeState
  <2> TAKE s \in NodeState
  <2> TAKE k \in 1..Len(entries)
  <2>1. prev_index + k \in Nat /\ entries[k] \in Entry
    OBVIOUS
  <2> QED BY <2>1, TakeEntryType
<1> QED BY <1>1, TakeEntriesInduction

LEMMA AppendEntriesHandlerType ==
    ASSUME NEW i \in Node, NEW n \in NodeState, NEW m \in Message, m.type = "AppendEntries"
    PROVE  GoodEffect(_on_append_entries(i, n, m))
<1> DEFINE seen == IF m.term > n.term THEN _become_follower(n, m.term) ELSE n
           follow == IF seen.role # "follower" THEN _become_follower(seen, m.term)
                                               ELSE [seen EXCEPT !.timer = "election"]
           taken == TakeEntries(follow, m.prev_index, m.entries)
           after == FollowCommit(taken, m)
<1>1. /\ m.term \in Nat /\ m.src \in Node
      /\ m.prev_index \in Nat /\ m.entries \in Seq(Entry) /\ m.leader_commit \in Nat
  BY DEF Message
<1>2. seen \in NodeState
  BY <1>1, BecomeFollowerType
<1> HIDE DEF seen
<1>3. follow \in NodeState
  <2>1. [seen EXCEPT !.timer = "election"] \in NodeState
    BY <1>2 DEF NodeState
  <2> QED BY <1>1, <1>2, <2>1, BecomeFollowerType
<1> HIDE DEF follow
<1>4. taken \in NodeState
  BY <1>1, <1>3, TakeEntriesType
<1> HIDE DEF taken
<1>5. Match(m) \in Nat
  BY <1>1 DEF Match
<1>6. after \in NodeState
  <2>1. Larger(taken.commit_index, CommitBound(m)) \in Nat
    BY <1>1, <1>4, <1>5 DEF Larger, CommitBound, NodeState
  <2> QED BY <1>4, <2>1, SetCommitIndexType DEF FollowCommit
<1> HIDE DEF after
<1>7. /\ AppendReply(i, m.src, n, FALSE, 0) \in Message
      /\ AppendReply(i, m.src, follow, FALSE, 0) \in Message
      /\ AppendReply(i, m.src, after, TRUE, Match(m)) \in Message
  BY <1>1, <1>3, <1>5, <1>6, RepliesType
<1>8. _on_append_entries(i, n, m) =
        IF m.term < n.term
        THEN Effect(n, {AppendReply(i, m.src, n, FALSE, 0)}, {})
        ELSE IF ~Consistent(follow, m)
        THEN Effect(follow, {AppendReply(i, m.src, follow, FALSE, 0)}, {})
        ELSE Effect(after, {AppendReply(i, m.src, after, TRUE, Match(m))}, AppliedSince(n, after))
  BY DEF _on_append_entries, after, taken, follow, seen
<1>9. \A out \in SUBSET Message : /\ GoodEffect(Effect(n, out, {}))
                                   /\ GoodEffect(Effect(follow, out, {}))
                                   /\ GoodEffect(Effect(after, out, AppliedSince(n, after)))
  BY <1>3, <1>6, EffectIsGood
<1> QED BY <1>7, <1>8, <1>9

LEMMA AckedType ==
    ASSUME NEW n \in NodeState, NEW p \in Node, NEW match \in Nat
    PROVE  [n EXCEPT !.match_index[p] = Larger(@, match),
                     !.next_index[p] = Larger(@, NextAfter(match))] \in NodeState
<1>1. n.match_index[p] \in Nat /\ n.next_index[p] \in Nat \ {0}
  BY DEF NodeState
<1>2. [n.match_index EXCEPT ![p] = Larger(@, match)] \in [Node -> Nat]
  BY <1>1 DEF Larger, NodeState
<1>3. [n.next_index EXCEPT ![p] = Larger(@, NextAfter(match))] \in [Node -> Nat \ {0}]
  <2>1. Larger(n.next_index[p], NextAfter(match)) \in Nat \ {0}
    BY <1>1 DEF Larger, NextAfter
  <2> QED BY <2>1 DEF NodeState
<1> QED BY <1>2, <1>3 DEF NodeState

LEMMA BackedType ==
    ASSUME NEW n \in NodeState, NEW p \in Node
    PROVE  [n EXCEPT !.next_index[p] = BackOff(@)] \in NodeState
<1>1. n.next_index[p] \in Nat \ {0}
  BY DEF NodeState
<1>2. [n.next_index EXCEPT ![p] = BackOff(@)] \in [Node -> Nat \ {0}]
  BY <1>1 DEF Larger, BackOff, NodeState
<1> QED BY <1>2 DEF NodeState

LEMMA AppendReplyHandlerType ==
    ASSUME NEW i \in Node, NEW n \in NodeState, NEW m \in Message, m.type = "AppendReply"
    PROVE  GoodEffect(_on_append_reply(i, n, m))
<1> DEFINE acked == [n EXCEPT !.match_index[m.src] = Larger(@, m.match_index),
                              !.next_index[m.src] = Larger(@, NextAfter(m.match_index))]
           after == _advance_commit(acked)
           backed == [n EXCEPT !.next_index[m.src] = BackOff(@)]
<1>1. m.term \in Nat /\ m.src \in Node /\ m.match_index \in Nat
  BY DEF Message
<1>2. _become_follower(n, m.term) \in NodeState
  BY <1>1, BecomeFollowerType
<1>4. after \in NodeState
  <2>1. acked \in NodeState
    BY <1>1, AckedType
  <2> HIDE DEF acked
  <2> QED BY <2>1, AdvanceCommitType
<1>5. backed \in NodeState
  BY <1>1, BackedType
<1> HIDE DEF after, backed
<1>6. _send_append_entries(i, backed, m.src) \in Message
  BY <1>1, <1>5, SendAppendEntriesType
<1> QED BY <1>2, <1>4, <1>5, <1>6 DEF _on_append_reply, Silent, Effect, GoodEffect, after, backed

---------------------------------------------------------------------------
(* InstallSnapshot, and the dispatch. *)

LEMMA PlacedType ==
    ASSUME NEW n \in NodeState, NEW snap \in Snapshot, NEW keep_tail
    PROVE  [Restore(n, snap) EXCEPT
              !.log = IF keep_tail
                      THEN DelPrefix(n.log, snap.last_index - base_index(n)) ELSE <<>>,
              !.snapshot = snap] \in NodeState
<1> DEFINE log == IF keep_tail
                  THEN DelPrefix(n.log, snap.last_index - base_index(n)) ELSE <<>>
<1>1. log \in Seq(Entry)
  <2>1. base_index(n) \in Nat
    BY LogReads
  <2>2. n.log \in Seq(Entry) /\ snap.last_index - base_index(n) \in Int
    BY <2>1 DEF NodeState, Snapshot
  <2>3. DelPrefix(n.log, snap.last_index - base_index(n)) \in Seq(Entry)
    BY <2>2, Slices
  <2> QED BY <2>3
<1> HIDE DEF log
<1>2. Restore(n, snap) \in NodeState
  BY RestoreType
<1>3. [Restore(n, snap) EXCEPT !.log = log, !.snapshot = snap] \in NodeState
  BY <1>1, <1>2 DEF NodeState
<1> QED BY <1>3 DEF log

LEMMA InstallSnapshotHandlerType ==
    ASSUME NEW i \in Node, NEW n \in NodeState, NEW m \in Message, m.type = "InstallSnapshot"
    PROVE  GoodEffect(_on_install_snapshot(i, n, m))
<1> DEFINE snap == m.snapshot
           follow == IF m.term > n.term \/ n.role # "follower"
                     THEN _become_follower(n, m.term)
                     ELSE [n EXCEPT !.timer = "election"]
           keep_tail == /\ last_log_index(follow) >= snap.last_index
                        /\ term_at(follow, snap.last_index) = snap.last_term
           placed == [Restore(follow, snap) EXCEPT
                        !.log = IF keep_tail
                                THEN DelPrefix(follow.log, snap.last_index - base_index(follow))
                                ELSE <<>>,
                        !.snapshot = snap]
           installed == _rebuild_config(placed)
<1>1. m.term \in Nat /\ m.src \in Node /\ snap \in Snapshot
  BY DEF Message
<1>2. follow \in NodeState
  <2>1. [n EXCEPT !.timer = "election"] \in NodeState
    BY DEF NodeState
  <2> QED BY <1>1, <2>1, BecomeFollowerType
<1> HIDE DEF follow
<1>3. snap.last_index \in Nat
  BY <1>1 DEF Snapshot
<1> HIDE DEF snap
<1>5. Restore(follow, snap).log = follow.log
  BY <1>2 DEF Restore, NodeState
<1>6. placed \in NodeState
  BY <1>1, <1>2, PlacedType
<1> HIDE DEF placed
<1>7. installed \in NodeState
  BY <1>6, RebuildConfigType
<1> HIDE DEF installed
<1>8. last_log_index(follow) \in Nat
  BY <1>2, LogReads
<1>9. /\ AppendReply(i, m.src, n, FALSE, 0) \in Message
      /\ AppendReply(i, m.src, follow, TRUE, last_log_index(follow)) \in Message
      /\ AppendReply(i, m.src, installed, TRUE, snap.last_index) \in Message
  BY <1>1, <1>2, <1>3, <1>7, <1>8, RepliesType
<1>10. _on_install_snapshot(i, n, m) =
        IF m.term < n.term
        THEN Effect(n, {AppendReply(i, m.src, n, FALSE, 0)}, {})
        ELSE IF Covers(n, snap)
        THEN Effect(follow, {AppendReply(i, m.src, follow, TRUE, last_log_index(follow))}, {})
        ELSE Effect(installed, {AppendReply(i, m.src, installed, TRUE, snap.last_index)}, {})
  BY <1>5 DEF _on_install_snapshot, installed, placed, follow, snap
<1>11. \A out \in SUBSET Message : /\ GoodEffect(Effect(n, out, {}))
                                    /\ GoodEffect(Effect(follow, out, {}))
                                    /\ GoodEffect(Effect(installed, out, {}))
  BY <1>2, <1>7, EffectIsGood
<1> QED BY <1>9, <1>10, <1>11

(***************************************************************************)
(* Whatever message a server handles, the effect has the right type.       *)
(***************************************************************************)
LEMMA HandleType ==
    ASSUME NEW i \in Node, NEW n \in NodeState, NEW m \in Message
    PROVE  GoodEffect(handle(i, n, m))
<1>1. m.type \in {"RequestVote", "VoteReply", "AppendEntries", "AppendReply",
                  "InstallSnapshot", "ReadHeartbeat", "ReadAck"}
  BY DEF Message
<1> QED BY <1>1, RequestVoteHandlerType, VoteReplyHandlerType, AppendEntriesHandlerType,
           AppendReplyHandlerType, InstallSnapshotHandlerType, ReadHeartbeatHandlerType,
           ReadAckHandlerType
        DEF handle

---------------------------------------------------------------------------
(* Elections. *)

\* From n to m, nothing that matters to elections has changed.
SameStanding(n, m) ==
    /\ m.term = n.term
    /\ m.voted_for = n.voted_for
    /\ m.role = n.role
    /\ m.votes = n.votes

\* From n to m, the server waits as before for what its role makes it wait for.
SameWatch(n, m) == m.role = n.role /\ m.alive = n.alive /\ m.timer = n.timer

\* From n to m, the server kept its standing or became a follower.
Recedes(n, m) ==
    /\ n.term <= m.term
    /\ n.term = m.term => m.voted_for = n.voted_for
    /\ m.role # "follower" => SameStanding(n, m)

\* The effect e of a call on n is of no consequence to elections.
Quiet(n, e) == Recedes(n, e.node) /\ \A m \in e.out : ~IsGrant(m)

LEMMA SameStandingRecedes ==
    ASSUME NEW n \in NodeState, NEW m \in NodeState, SameStanding(n, m)
    PROVE  Recedes(n, m)
BY DEF SameStanding, Recedes, NodeState

LEMMA RecedesThenSame ==
    ASSUME NEW n, NEW f, NEW m, Recedes(n, f), SameStanding(f, m)
    PROVE  Recedes(n, m)
BY DEF SameStanding, Recedes

LEMMA RecedesTwice ==
    ASSUME NEW n \in NodeState, NEW f \in NodeState, NEW m \in NodeState,
           Recedes(n, f), Recedes(f, m)
    PROVE  Recedes(n, m)
<1>1. n.term \in Nat /\ f.term \in Nat /\ m.term \in Nat
  BY DEF NodeState
<1> QED BY <1>1 DEF SameStanding, Recedes

LEMMA BecomeFollowerRecedes ==
    ASSUME NEW n \in NodeState, NEW t \in Nat
    PROVE  /\ _become_follower(n, t).term = t
           /\ _become_follower(n, t).role = "follower"
           /\ n.term <= t => Recedes(n, _become_follower(n, t))
BY DEF Recedes, _become_follower, NodeState

LEMMA RearmStanding ==
    ASSUME NEW n \in NodeState, NEW kind \in {"none", "election", "heartbeat"}
    PROVE  /\ [n EXCEPT !.timer = kind] \in NodeState
           /\ SameStanding(n, [n EXCEPT !.timer = kind])
BY DEF SameStanding, NodeState

---------------------------------------------------------------------------
(* Helpers that leave the standing alone. *)

LEMMA AdoptConfigStanding ==
    ASSUME NEW n \in NodeState, NEW V, NEW k
    PROVE  SameStanding(n, _adopt_config(n, V, k)) /\ SameWatch(n, _adopt_config(n, V, k))
BY DEF SameStanding, SameWatch, _adopt_config, NodeState

LEMMA RebuildConfigStanding ==
    ASSUME NEW n \in NodeState
    PROVE  SameStanding(n, _rebuild_config(n)) /\ SameWatch(n, _rebuild_config(n))
BY AdoptConfigStanding DEF _rebuild_config

LEMMA SetCommitIndexStanding ==
    ASSUME NEW n \in NodeState, NEW index
    PROVE  /\ SameStanding(n, _set_commit_index(n, index))
           /\ SameWatch(n, _set_commit_index(n, index))
BY DEF SameStanding, SameWatch, _set_commit_index, _maybe_compact, NodeState

LEMMA AdvanceCommitStanding ==
    ASSUME NEW n \in NodeState
    PROVE  SameStanding(n, _advance_commit(n)) /\ SameWatch(n, _advance_commit(n))
<1> DEFINE ready == {k \in (n.commit_index + 1)..last_log_index(n) :
                        OfThisTerm(n, k) /\ Replicated(n, k)}
           m == _set_commit_index(n, Maximum(ready))
<1>1. SameStanding(n, m) /\ SameWatch(n, m)
  BY SetCommitIndexStanding
<1>2. ready # {} => m \in NodeState
  <2> SUFFICES ASSUME ready # {} PROVE m \in NodeState
    OBVIOUS
  <2>1. n.commit_index + 1 \in Nat
    BY DEF NodeState
  <2>2. last_log_index(n) \in Nat
    BY LogReads
  <2>3. ready \in SUBSET ((n.commit_index + 1)..last_log_index(n))
    OBVIOUS
  <2> HIDE DEF ready
  <2>6. Maximum(ready) \in Nat
    BY <2>1, <2>2, <2>3, RangeMaximum
  <2> QED BY <2>6, SetCommitIndexType
<1>3. _advance_commit(n) = IF ready = {} THEN n ELSE [m EXCEPT !.committed_this_term = TRUE]
  BY DEF _advance_commit
<1> HIDE DEF m, ready
<1> QED BY <1>1, <1>2, <1>3 DEF SameStanding, SameWatch, NodeState

LEMMA AppendToLogStanding ==
    ASSUME NEW i \in Node, NEW n \in NodeState, NEW command
    PROVE  /\ SameStanding(n, AppendToLog(i, n, command))
           /\ SameWatch(n, AppendToLog(i, n, command))
BY DEF SameStanding, SameWatch, AppendToLog, NodeState

LEMMA TakeEntriesStanding ==
    ASSUME NEW n \in NodeState, NEW prev_index \in Nat, NEW entries \in Seq(Entry)
    PROVE  /\ SameStanding(n, TakeEntries(n, prev_index, entries))
           /\ SameWatch(n, TakeEntries(n, prev_index, entries))
<1> DEFINE S == {s \in NodeState : SameStanding(n, s) /\ SameWatch(n, s)}
<1>1. n \in S
  BY DEF SameStanding, SameWatch
<1>2. ASSUME NEW s \in S, NEW k \in 1..Len(entries)
      PROVE  TakeEntry(s, prev_index + k, entries[k]) \in S
  <2> DEFINE index == prev_index + k
             e == entries[k]
             cut == [s EXCEPT !.log = DelFrom(@, _phys(s, index))]
             room == IF last_log_index(s) >= index THEN CheckConfig(cut, index) ELSE s
             appended == [room EXCEPT !.log = Append(@, e)]
  <2>1. index \in Nat /\ e \in Entry /\ s \in NodeState
    OBVIOUS
  <2>2. TakeEntry(s, index, e) \in NodeState
    BY <2>1, TakeEntryType
  <2>3. cut \in NodeState /\ SameStanding(n, cut) /\ SameWatch(n, cut)
    <3>1. _phys(s, index) \in Int
      BY <2>1, LogReads
    <3>2. DelFrom(s.log, _phys(s, index)) \in Seq(Entry)
      BY <2>1, <3>1, Slices DEF NodeState
    <3>3. cut \in NodeState
      BY <2>1, <3>2 DEF NodeState
    <3> QED BY <2>1, <3>3 DEF SameStanding, SameWatch, NodeState
  <2> HIDE DEF cut, index, e
  <2>4. room \in NodeState /\ SameStanding(n, room) /\ SameWatch(n, room)
    BY <2>1, <2>3, RebuildConfigType, RebuildConfigStanding DEF CheckConfig, SameStanding, SameWatch
  <2> HIDE DEF room
  <2>5. appended \in NodeState /\ SameStanding(n, appended) /\ SameWatch(n, appended)
    <3>1. Append(room.log, e) \in Seq(Entry)
      BY <2>1, <2>4 DEF NodeState
    <3> QED BY <2>4, <3>1 DEF SameStanding, SameWatch, NodeState
  <2> HIDE DEF appended
  <2>6. /\ SameStanding(n, _adopt_config(appended, e.command.voters, index))
        /\ SameWatch(n, _adopt_config(appended, e.command.voters, index))
    BY <2>5, AdoptConfigStanding DEF SameStanding, SameWatch
  <2>7. SameStanding(n, TakeEntry(s, index, e)) /\ SameWatch(n, TakeEntry(s, index, e))
    BY <2>5, <2>6 DEF TakeEntry, appended, room, cut
  <2> QED BY <2>2, <2>7 DEF index, e
<1> HIDE DEF S
<1>3. TakeEntries(n, prev_index, entries) \in S
  BY <1>1, <1>2, TakeEntriesInduction
<1> QED BY <1>3 DEF S

---------------------------------------------------------------------------
(* None of these messages is a granted vote. *)

LEMMA SendsNoGrants ==
    ASSUME NEW i, NEW n
    PROVE  /\ \A p, s, k : ~IsGrant(AppendReply(i, p, n, s, k))
           /\ \A p, k : ~IsGrant(ReadHeartbeat(i, p, n, k))
           /\ \A p, k : ~IsGrant(ReadAck(i, p, n, k))
           /\ \A p : ~IsGrant(RequestVote(i, p, n))
           /\ \A p : ~IsGrant(_send_append_entries(i, n, p))
           /\ \A m \in _broadcast_heartbeats(i, n) : ~IsGrant(m)
BY DEF IsGrant, AppendReply, ReadHeartbeat, ReadAck, RequestVote, _send_append_entries,
       _broadcast_heartbeats, AppendEntries, InstallSnapshot

---------------------------------------------------------------------------
(* Quiet handlers. *)

LEMMA AppendEntriesQuiet ==
    ASSUME NEW i \in Node, NEW n \in NodeState, NEW m \in Message, m.type = "AppendEntries"
    PROVE  Quiet(n, _on_append_entries(i, n, m))
<1> DEFINE seen == IF m.term > n.term THEN _become_follower(n, m.term) ELSE n
           follow == IF seen.role # "follower" THEN _become_follower(seen, m.term)
                                               ELSE [seen EXCEPT !.timer = "election"]
           taken == TakeEntries(follow, m.prev_index, m.entries)
           after == FollowCommit(taken, m)
<1>1. /\ m.term \in Nat /\ n.term \in Nat
      /\ m.prev_index \in Nat /\ m.entries \in Seq(Entry) /\ m.leader_commit \in Nat
  BY DEF Message, NodeState
<1>2. seen \in NodeState /\ Recedes(n, seen) /\ (m.term >= n.term => seen.term = m.term)
  <2>1. CASE m.term > n.term
    <3>1. seen = _become_follower(n, m.term) /\ n.term <= m.term
      BY <1>1, <2>1
    <3> HIDE DEF seen
    <3> QED BY <1>1, <3>1, BecomeFollowerType, BecomeFollowerRecedes
  <2>2. CASE ~(m.term > n.term)
    <3>1. Recedes(n, n)
      BY SameStandingRecedes DEF SameStanding
    <3> QED BY <1>1, <2>2, <3>1
  <2> QED BY <2>1, <2>2
<1> HIDE DEF seen
<1>3. follow \in NodeState /\ (m.term >= n.term => Recedes(n, follow))
  <2>1. CASE seen.role # "follower"
    <3>1. follow \in NodeState
      BY <1>1, <1>2, <2>1, BecomeFollowerType
    <3>2. m.term >= n.term => Recedes(seen, follow)
      BY <1>1, <1>2, <2>1, BecomeFollowerRecedes
    <3> HIDE DEF follow
    <3> QED BY <1>2, <3>1, <3>2, RecedesTwice
  <2>2. CASE seen.role = "follower"
    <3>1. follow \in NodeState /\ SameStanding(seen, follow)
      BY <1>2, <2>2, RearmStanding
    <3> HIDE DEF follow
    <3> QED BY <1>2, <3>1, RecedesThenSame
  <2> QED BY <2>1, <2>2
<1> HIDE DEF follow
<1>4. taken \in NodeState /\ SameStanding(follow, taken)
  BY <1>1, <1>3, TakeEntriesType, TakeEntriesStanding
<1> HIDE DEF taken
<1>5. SameStanding(follow, after)
  BY <1>4, SetCommitIndexStanding DEF FollowCommit, SameStanding
<1> HIDE DEF after
<1>6. m.term >= n.term => Recedes(n, follow) /\ Recedes(n, after)
  BY <1>3, <1>5, RecedesThenSame
<1>7. _on_append_entries(i, n, m) =
        IF m.term < n.term
        THEN Effect(n, {AppendReply(i, m.src, n, FALSE, 0)}, {})
        ELSE IF ~Consistent(follow, m)
        THEN Effect(follow, {AppendReply(i, m.src, follow, FALSE, 0)}, {})
        ELSE Effect(after, {AppendReply(i, m.src, after, TRUE, Match(m))}, AppliedSince(n, after))
  BY DEF _on_append_entries, after, taken, follow, seen
<1>8. Recedes(n, n)
  BY SameStandingRecedes DEF SameStanding
<1>9. /\ Quiet(n, Effect(n, {AppendReply(i, m.src, n, FALSE, 0)}, {}))
      /\ m.term >= n.term =>
           /\ Quiet(n, Effect(follow, {AppendReply(i, m.src, follow, FALSE, 0)}, {}))
           /\ Quiet(n, Effect(after, {AppendReply(i, m.src, after, TRUE, Match(m))},
                              AppliedSince(n, after)))
  BY <1>6, <1>8, SendsNoGrants DEF Quiet, Effect
<1>10. m.term < n.term \/ m.term >= n.term
  BY <1>1
<1> QED BY <1>7, <1>9, <1>10

(***************************************************************************)
(* A message of a later term turns its receiver into a follower, whatever  *)
(* the message is.                                                         *)
(***************************************************************************)
LEMMA LaterTermQuiet ==
    ASSUME NEW n \in NodeState, NEW m \in Message, m.term > n.term
    PROVE  Quiet(n, Silent(_become_follower(n, m.term)))
<1>1. m.term \in Nat /\ n.term \in Nat
  BY DEF Message, NodeState
<1>2. Recedes(n, _become_follower(n, m.term))
  BY <1>1, BecomeFollowerRecedes
<1> QED BY <1>2 DEF Quiet, Silent, Effect

LEMMA SilentQuiet ==
    ASSUME NEW n \in NodeState
    PROVE  Quiet(n, Silent(n))
BY SameStandingRecedes DEF Quiet, Silent, Effect, SameStanding

LEMMA AppendReplyQuiet ==
    ASSUME NEW i \in Node, NEW n \in NodeState, NEW m \in Message, m.type = "AppendReply"
    PROVE  Quiet(n, _on_append_reply(i, n, m))
<1> DEFINE acked == [n EXCEPT !.match_index[m.src] = Larger(@, m.match_index),
                              !.next_index[m.src] = Larger(@, NextAfter(m.match_index))]
           after == _advance_commit(acked)
           backed == [n EXCEPT !.next_index[m.src] = BackOff(@)]
<1>1. m.src \in Node /\ m.match_index \in Nat
  BY DEF Message
<1>2. Recedes(n, after)
  <2>1. acked \in NodeState
    BY <1>1, AckedType
  <2>2. SameStanding(n, acked)
    BY DEF SameStanding, NodeState
  <2> HIDE DEF acked
  <2>3. after \in NodeState /\ SameStanding(acked, after)
    BY <2>1, AdvanceCommitType, AdvanceCommitStanding
  <2> HIDE DEF after
  <2> QED BY <2>1, <2>2, <2>3, SameStandingRecedes, RecedesThenSame
<1>3. Recedes(n, backed)
  <2>1. backed \in NodeState /\ SameStanding(n, backed)
    BY <1>1, BackedType DEF SameStanding, NodeState
  <2> HIDE DEF backed
  <2> QED BY <2>1, SameStandingRecedes
<1> HIDE DEF after, backed
<1>4. /\ Quiet(n, Effect(after, {}, AppliedSince(n, after)))
      /\ Quiet(n, Effect(backed, {_send_append_entries(i, backed, m.src)}, {}))
  BY <1>2, <1>3, SendsNoGrants DEF Quiet, Effect
<1>5. _on_append_reply(i, n, m) =
        IF m.term > n.term THEN Silent(_become_follower(n, m.term))
        ELSE IF n.role # "leader" \/ m.term < n.term THEN Silent(n)
        ELSE IF m.success THEN Effect(after, {}, AppliedSince(n, after))
        ELSE Effect(backed, {_send_append_entries(i, backed, m.src)}, {})
  BY DEF _on_append_reply, after, backed
<1> QED BY <1>4, <1>5, LaterTermQuiet, SilentQuiet

LEMMA InstallSnapshotQuiet ==
    ASSUME NEW i \in Node, NEW n \in NodeState, NEW m \in Message, m.type = "InstallSnapshot"
    PROVE  Quiet(n, _on_install_snapshot(i, n, m))
<1> DEFINE snap == m.snapshot
           follow == IF m.term > n.term \/ n.role # "follower"
                     THEN _become_follower(n, m.term)
                     ELSE [n EXCEPT !.timer = "election"]
           keep_tail == /\ last_log_index(follow) >= snap.last_index
                        /\ term_at(follow, snap.last_index) = snap.last_term
           log == IF keep_tail
                  THEN DelPrefix(follow.log, snap.last_index - base_index(follow)) ELSE <<>>
           placed == [Restore(follow, snap) EXCEPT !.log = log, !.snapshot = snap]
           installed == _rebuild_config(placed)
<1>1. m.term \in Nat /\ n.term \in Nat /\ snap \in Snapshot /\ snap.last_index \in Nat
  BY DEF Message, NodeState, Snapshot
<1>2. follow \in NodeState /\ (m.term >= n.term => Recedes(n, follow))
  <2>1. CASE m.term > n.term \/ n.role # "follower"
    <3>1. follow = _become_follower(n, m.term)
      BY <2>1
    <3> HIDE DEF follow
    <3> QED BY <1>1, <3>1, BecomeFollowerType, BecomeFollowerRecedes
  <2>2. CASE ~(m.term > n.term \/ n.role # "follower")
    <3>1. follow = [n EXCEPT !.timer = "election"]
      BY <2>2
    <3> HIDE DEF follow
    <3> QED BY <3>1, RearmStanding, SameStandingRecedes
  <2> QED BY <2>1, <2>2
<1> HIDE DEF follow, snap
<1>3. placed \in NodeState
  BY <1>1, <1>2, PlacedType
<1>4. SameStanding(follow, placed)
  BY <1>2 DEF SameStanding, Restore, NodeState
<1> HIDE DEF placed
<1>5. SameStanding(follow, installed)
  BY <1>3, <1>4, RebuildConfigStanding DEF SameStanding
<1> HIDE DEF installed
<1>6. m.term >= n.term => Recedes(n, follow) /\ Recedes(n, installed)
  BY <1>2, <1>5, RecedesThenSame
<1>7. _on_install_snapshot(i, n, m) =
        IF m.term < n.term
        THEN Effect(n, {AppendReply(i, m.src, n, FALSE, 0)}, {})
        ELSE IF Covers(n, snap)
        THEN Effect(follow, {AppendReply(i, m.src, follow, TRUE, last_log_index(follow))}, {})
        ELSE Effect(installed, {AppendReply(i, m.src, installed, TRUE, snap.last_index)}, {})
  <2>1. Restore(follow, snap).log = follow.log
    BY <1>2 DEF Restore, NodeState
  <2> QED BY <2>1 DEF _on_install_snapshot, installed, placed, follow, snap
<1>8. Recedes(n, n)
  BY SameStandingRecedes DEF SameStanding
<1>9. /\ Quiet(n, Effect(n, {AppendReply(i, m.src, n, FALSE, 0)}, {}))
      /\ m.term >= n.term =>
           /\ Quiet(n, Effect(follow, {AppendReply(i, m.src, follow, TRUE,
                                                   last_log_index(follow))}, {}))
           /\ Quiet(n, Effect(installed, {AppendReply(i, m.src, installed, TRUE,
                                                      snap.last_index)}, {}))
  BY <1>6, <1>8, SendsNoGrants DEF Quiet, Effect
<1>10. m.term < n.term \/ m.term >= n.term
  BY <1>1
<1> QED BY <1>7, <1>9, <1>10

LEMMA ReadHeartbeatQuiet ==
    ASSUME NEW i \in Node, NEW n \in NodeState, NEW m \in Message, m.type = "ReadHeartbeat"
    PROVE  Quiet(n, _on_read_heartbeat(i, n, m))
<1> DEFINE follow == IF m.term > n.term THEN _become_follower(n, m.term) ELSE n
           armed == IF m.term >= n.term THEN [follow EXCEPT !.timer = "election"] ELSE follow
<1>1. m.term \in Nat /\ n.term \in Nat
  BY DEF Message, NodeState
<1>2. follow \in NodeState /\ Recedes(n, follow)
  <2>1. CASE m.term > n.term
    <3>1. follow = _become_follower(n, m.term) /\ n.term <= m.term
      BY <1>1, <2>1
    <3> HIDE DEF follow
    <3> QED BY <1>1, <3>1, BecomeFollowerType, BecomeFollowerRecedes
  <2>2. CASE ~(m.term > n.term)
    BY <2>2, SameStandingRecedes DEF SameStanding
  <2> QED BY <2>1, <2>2
<1> HIDE DEF follow
<1>3. Recedes(n, armed)
  BY <1>2, RearmStanding, RecedesThenSame
<1> HIDE DEF armed
<1>4. Quiet(n, Effect(armed, {ReadAck(i, m.src, armed, m.read_id)}, {}))
  BY <1>3, SendsNoGrants DEF Quiet, Effect
<1> QED BY <1>4 DEF _on_read_heartbeat, armed, follow

LEMMA TryServeReadStanding ==
    ASSUME NEW n \in NodeState, NEW p
    PROVE  SameStanding(n, _try_serve_read(n, p).node) /\ _try_serve_read(n, p).out = {}
BY DEF SameStanding, _try_serve_read, Silent, Effect, NodeState

LEMMA ReadAckQuiet ==
    ASSUME NEW i \in Node, NEW n \in NodeState, NEW m \in Message, m.type = "ReadAck"
    PROVE  Quiet(n, _on_read_ack(i, n, m))
<1> DEFINE p == CHOOSE q \in n.pending_reads : q.id = m.read_id
           acked == [p EXCEPT !.acks = @ \cup {m.src}]
           asked == [n EXCEPT !.pending_reads = (@ \ {p}) \cup {acked}]
           done == _try_serve_read(asked, acked)
<1>1. ASSUME \E q \in n.pending_reads : q.id = m.read_id
      PROVE  Quiet(n, done)
  <2>1. asked \in NodeState
    BY <1>1, AskedType DEF Message
  <2>2. SameStanding(n, asked)
    BY DEF SameStanding, NodeState
  <2> HIDE DEF asked, acked
  <2>3. SameStanding(asked, done.node) /\ done.out = {}
    BY <2>1, TryServeReadStanding
  <2> HIDE DEF done
  <2>4. Recedes(n, done.node)
    BY <2>1, <2>2, <2>3, SameStandingRecedes, RecedesThenSame
  <2> QED BY <2>3, <2>4 DEF Quiet
<1>2. _on_read_ack(i, n, m) =
        IF m.term > n.term THEN Silent(_become_follower(n, m.term))
        ELSE IF m.term # n.term \/ n.role # "leader"
                  \/ ~ \E q \in n.pending_reads : q.id = m.read_id
        THEN Silent(n)
        ELSE done
  BY DEF _on_read_ack
<1> HIDE DEF done
<1> QED BY <1>1, <1>2, LaterTermQuiet, SilentQuiet

---------------------------------------------------------------------------
(* Quiet calls that no message causes. *)

LEMMA HeartbeatTimeoutQuiet ==
    ASSUME NEW i \in Node, NEW n \in NodeState
    PROVE  Quiet(n, HeartbeatTimeout(i, n))
<1>1. Recedes(n, [n EXCEPT !.timer = "heartbeat"])
  BY RearmStanding, SameStandingRecedes
<1> QED BY <1>1, SendsNoGrants DEF HeartbeatTimeout, Effect, Quiet

LEMMA ClientCommandQuiet ==
    ASSUME NEW i \in Node, NEW n \in NodeState, NEW c \in Client, NEW r \in Nat
    PROVE  Quiet(n, client_command(i, n, c, r))
<1> DEFINE asked == [n EXCEPT !.client_index[c] = r]
           m == AppendToLog(i, asked, ClientCommand(c, r))
<1>1. asked \in NodeState /\ SameStanding(n, asked)
  BY IndexedType DEF SameStanding, NodeState
<1> HIDE DEF asked
<1>2. m \in NodeState /\ SameStanding(asked, m)
  BY <1>1, AppendToLogType, AppendToLogStanding DEF ClientCommand, Command
<1> HIDE DEF m
<1>3. Recedes(n, m)
  BY <1>1, <1>2, SameStandingRecedes, RecedesThenSame
<1>4. Quiet(n, Effect(m, _broadcast_heartbeats(i, m), {}))
  BY <1>3, SendsNoGrants DEF Quiet, Effect
<1> QED BY <1>4, SilentQuiet DEF client_command, m, asked

LEMMA ChangeConfigQuiet ==
    ASSUME NEW i \in Node, NEW n \in NodeState, NEW V \in SUBSET Node
    PROVE  Quiet(n, change_config(i, n, V))
<1> DEFINE grown == AppendToLog(i, n, encode_config(V))
           m == _adopt_config(grown, V, last_log_index(grown))
<1>1. grown \in NodeState /\ SameStanding(n, grown)
  BY AppendToLogType, AppendToLogStanding DEF encode_config, Command
<1> HIDE DEF grown
<1>2. SameStanding(grown, m)
  BY <1>1, AdoptConfigStanding
<1> HIDE DEF m
<1>3. Recedes(n, m)
  BY <1>1, <1>2, SameStandingRecedes, RecedesThenSame
<1>4. Quiet(n, Effect(m, _broadcast_heartbeats(i, m), {}))
  BY <1>3, SendsNoGrants DEF Quiet, Effect
<1> QED BY <1>4 DEF change_config, m, grown

LEMMA RequestReadQuiet ==
    ASSUME NEW i \in Node, NEW n \in NodeState, NEW c \in Client, NEW r \in Nat
    PROVE  Quiet(n, request_read(i, n, c, r))
<1> DEFINE p == [id |-> n.next_read_id, command |-> ClientCommand(c, r),
                 index |-> n.commit_index, acks |-> {i}]
           asked == [n EXCEPT !.next_read_id = @ + 1, !.pending_reads = @ \cup {p}]
           done == _try_serve_read(asked, p)
           sent == {ReadHeartbeat(i, q, n, p.id) : q \in n.voters \ {i}}
<1>1. asked \in NodeState
  BY RequestedType
<1>2. SameStanding(n, asked)
  BY DEF SameStanding, NodeState
<1> HIDE DEF asked, p
<1>3. SameStanding(asked, done.node)
  BY <1>1, TryServeReadStanding
<1> HIDE DEF done
<1>4. Recedes(n, done.node)
  BY <1>1, <1>2, <1>3, SameStandingRecedes, RecedesThenSame
<1>5. \A m \in sent : ~IsGrant(m)
  BY DEF IsGrant, ReadHeartbeat
<1> HIDE DEF sent
<1>6. Quiet(n, Effect(done.node, sent, done.reported))
  BY <1>4, <1>5 DEF Quiet, Effect
<1> QED BY <1>6 DEF request_read, sent, done, asked, p

LEMMA PauseQuiet ==
    ASSUME NEW n \in NodeState
    PROVE  Quiet(n, Silent(pause(n)))
<1> DEFINE r == Restore(n, n.snapshot)
           m == [r EXCEPT
                  !.alive = FALSE, !.role = "follower", !.timer = "none",
                  !.next_index = [p \in Node |-> 1], !.match_index = [p \in Node |-> 0],
                  !.votes = {}, !.client_index = [c \in Client |-> -1],
                  !.pending_reads = {}, !.committed_this_term = FALSE]
<1>1. m \in NodeState
  BY CrashedType
<1>2. m.term = n.term /\ m.voted_for = n.voted_for /\ m.role = "follower" /\ n.term \in Nat
  BY DEF Restore, NodeState
<1>3. pause(n) = _rebuild_config(m)
  BY DEF pause
<1> HIDE DEF m
<1>4. SameStanding(m, pause(n))
  BY <1>1, <1>3, RebuildConfigStanding
<1>5. Recedes(n, pause(n))
  BY <1>2, <1>4 DEF Recedes, SameStanding
<1> QED BY <1>5 DEF Quiet, Silent, Effect

LEMMA ResumeQuiet ==
    ASSUME NEW n \in NodeState
    PROVE  Quiet(n, Silent(resume(n)))
<1>1. SameStanding(n, resume(n)) /\ resume(n) \in NodeState
  BY ResumeType DEF SameStanding, resume, NodeState
<1> QED BY <1>1, SameStandingRecedes DEF Quiet, Silent, Effect

---------------------------------------------------------------------------
(* Elections. *)

LEMMA BecomeLeaderStanding ==
    ASSUME NEW i \in Node, NEW n \in NodeState
    PROVE  LET e == _become_leader(i, n)
           IN  /\ e.node.term = n.term
               /\ e.node.voted_for = n.voted_for
               /\ e.node.votes = n.votes
               /\ e.node.role = "leader"
               /\ \A m \in e.out : ~IsGrant(m)
BY SendsNoGrants DEF _become_leader, Effect, NodeState

(***************************************************************************)
(* Standing for election: a new term, a vote for oneself, and leadership   *)
(* at once only if that vote is a majority.                                *)
(***************************************************************************)
Stands(i, n, e) ==
    /\ e.node.term = n.term + 1
    /\ e.node.voted_for = i
    /\ e.node.votes = {i}
    /\ \/ e.node.role = "candidate"
       \/ e.node.role = "leader" /\ IsMajority(e.node.votes, n.voters)
    /\ \A m \in e.out : ~IsGrant(m)

LEMMA StartElectionStands ==
    ASSUME NEW i \in Node, NEW n \in NodeState
    PROVE  IF i \in n.voters THEN Stands(i, n, start_election(i, n))
                             ELSE Quiet(n, start_election(i, n))
<1> DEFINE cand == [n EXCEPT !.term = @ + 1, !.role = "candidate", !.voted_for = i,
                             !.votes = {i}, !.timer = "election"]
           asked == {RequestVote(i, p, cand) : p \in cand.voters \ {i}}
           win == _maybe_win(i, cand)
<1>1. CASE i \notin n.voters
  <2>1. Quiet(n, Silent([n EXCEPT !.timer = "election"]))
    BY RearmStanding, SameStandingRecedes DEF Quiet, Silent, Effect
  <2> QED BY <1>1, <2>1 DEF start_election
<1>2. CASE i \in n.voters
  <2>1. cand \in NodeState
    BY CandidateType
  <2>2. /\ cand.term = n.term + 1 /\ cand.voted_for = i /\ cand.votes = {i}
        /\ cand.role = "candidate" /\ cand.voters = n.voters
    BY DEF NodeState
  <2> HIDE DEF cand
  <2>3. \A m \in asked : ~IsGrant(m)
    BY SendsNoGrants
  <2>4. /\ win.node.term = cand.term /\ win.node.voted_for = i /\ win.node.votes = {i}
        /\ \/ win.node.role = "candidate"
           \/ win.node.role = "leader" /\ IsMajority({i}, n.voters)
        /\ \A m \in win.out : ~IsGrant(m)
    <3>1. CASE IsMajority(cand.votes, cand.voters)
      <4>1. win = _become_leader(i, cand)
        BY <2>2, <3>1 DEF _maybe_win
      <4> HIDE DEF win
      <4> QED BY <2>1, <2>2, <3>1, <4>1, BecomeLeaderStanding
    <3>2. CASE ~IsMajority(cand.votes, cand.voters)
      <4>1. win = Silent(cand)
        BY <2>2, <3>2 DEF _maybe_win
      <4> QED BY <2>2, <4>1 DEF Silent, Effect
    <3> QED BY <3>1, <3>2
  <2> HIDE DEF win, asked
  <2>5. start_election(i, n) = Effect(win.node, asked \cup win.out, {})
    BY <1>2 DEF start_election, win, asked, cand
  <2>6. /\ start_election(i, n).node = win.node
        /\ start_election(i, n).out = asked \cup win.out
    BY <2>5 DEF Effect
  <2> QED BY <1>2, <2>2, <2>3, <2>4, <2>6 DEF Stands
<1> QED BY <1>1, <1>2

(***************************************************************************)
(* Counting a vote: only a candidate counts, and only votes granted in its *)
(* own term.                                                               *)
(***************************************************************************)
Counts(n, m, e) ==
    /\ n.role = "candidate"
    /\ m.term = n.term
    /\ m.granted
    /\ e.node.term = n.term
    /\ e.node.voted_for = n.voted_for
    /\ e.node.votes = n.votes \cup {m.src}
    /\ \/ e.node.role = "candidate"
       \/ e.node.role = "leader" /\ IsMajority(e.node.votes, n.voters)
    /\ \A r \in e.out : ~IsGrant(r)

LEMMA VoteReplyCounts ==
    ASSUME NEW i \in Node, NEW n \in NodeState, NEW m \in Message, m.type = "VoteReply"
    PROVE  \/ Quiet(n, _on_vote_reply(i, n, m))
           \/ Counts(n, m, _on_vote_reply(i, n, m))
<1> DEFINE counted == [n EXCEPT !.votes = @ \cup {m.src}]
           win == _maybe_win(i, counted)
<1>1. m.term \in Nat /\ m.src \in Node /\ n.term \in Nat
  BY DEF Message, NodeState
<1>2. ASSUME n.role = "candidate", m.granted, m.term = n.term
      PROVE  Counts(n, m, win)
  <2>1. counted \in NodeState
    BY <1>1 DEF NodeState
  <2>2. /\ counted.term = n.term /\ counted.voted_for = n.voted_for
        /\ counted.votes = n.votes \cup {m.src}
        /\ counted.role = n.role /\ counted.voters = n.voters
    BY DEF NodeState
  <2> HIDE DEF counted
  <2>3. CASE IsMajority(counted.votes, counted.voters)
    <3>1. win = _become_leader(i, counted)
      BY <1>2, <2>2, <2>3 DEF _maybe_win
    <3> HIDE DEF win
    <3> QED BY <1>2, <2>1, <2>2, <2>3, <3>1, BecomeLeaderStanding DEF Counts
  <2>4. CASE ~IsMajority(counted.votes, counted.voters)
    <3>1. win = Silent(counted)
      BY <1>2, <2>2, <2>4 DEF _maybe_win
    <3> HIDE DEF win
    <3> QED BY <1>2, <2>2, <3>1 DEF Silent, Effect, Counts
  <2> QED BY <2>3, <2>4
<1> HIDE DEF win
<1>3. _on_vote_reply(i, n, m) =
        IF m.term > n.term THEN Silent(_become_follower(n, m.term))
        ELSE IF n.role # "candidate" \/ m.term < n.term \/ ~m.granted THEN Silent(n)
        ELSE win
  BY DEF _on_vote_reply, win
<1> QED BY <1>1, <1>2, <1>3, LaterTermQuiet, SilentQuiet

(***************************************************************************)
(* Granting a vote: to a candidate of the server's term, new to it or not, *)
(* unless it has voted for another in that term; and saying so in a reply. *)
(***************************************************************************)
Grants(n, m, e) ==
    /\ n.term <= m.term
    /\ e.node.term = m.term
    /\ e.node.voted_for = m.src
    /\ n.term = m.term => n.voted_for \in {None, m.src}
    /\ e.node.role # "follower" => e.node.role = n.role /\ n.term = m.term
    /\ e.node.votes = n.votes
    /\ \A r \in e.out : IsGrant(r) => r.dst = m.src /\ r.term = m.term

LEMMA RequestVoteGrants ==
    ASSUME NEW i \in Node, NEW n \in NodeState, NEW m \in Message, m.type = "RequestVote"
    PROVE  LET e == _on_request_vote(i, n, m)
           IN  /\ Quiet(n, e) \/ Grants(n, m, e)
               /\ \A r \in e.out : r.src = i
<1> DEFINE at == IF m.term > n.term THEN _become_follower(n, m.term) ELSE n
           granted == /\ m.term = at.term
                      /\ at.voted_for \in {None, m.src}
                      /\ UpToDate(at, m)
           after == IF granted THEN [at EXCEPT !.voted_for = m.src, !.timer = "election"] ELSE at
           e == Effect(after, {VoteReply(i, m.src, after, granted)}, {})
<1>1. m.term \in Nat /\ m.src \in Node /\ n.term \in Nat
  BY DEF Message, NodeState
<1>2. /\ at \in NodeState
      /\ Recedes(n, at)
      /\ at.votes = n.votes
      /\ at.role # "follower" => at.role = n.role /\ at.term = n.term
      /\ n.term = at.term => at.voted_for = n.voted_for
  <2>1. CASE m.term > n.term
    <3>1. at = _become_follower(n, m.term) /\ n.term <= m.term
      BY <1>1, <2>1
    <3>2. _become_follower(n, m.term).votes = n.votes
      BY DEF _become_follower, NodeState
    <3> HIDE DEF at
    <3> QED BY <1>1, <3>1, <3>2, BecomeFollowerType, BecomeFollowerRecedes DEF Recedes
  <2>2. CASE ~(m.term > n.term)
    BY <2>2, SameStandingRecedes DEF SameStanding
  <2> QED BY <2>1, <2>2
<1>3. _on_request_vote(i, n, m) = e
  BY DEF _on_request_vote
<1> HIDE DEF at
<1>4. CASE granted
  <2>1. /\ after.term = m.term /\ after.voted_for = m.src
        /\ after.role = at.role /\ after.votes = at.votes
    BY <1>2, <1>4 DEF NodeState
  <2>2. n.term <= m.term /\ (n.term = m.term => n.voted_for \in {None, m.src})
    BY <1>2, <1>4 DEF Recedes
  <2>3. e.node = after /\ e.out = {VoteReply(i, m.src, after, granted)}
    BY DEF Effect
  <2> HIDE DEF after, granted, e
  <2>4. Grants(n, m, e)
    <3>1. \A r \in e.out : r.dst = m.src /\ r.term = m.term
      BY <2>1, <2>3 DEF VoteReply
    <3>2. at.term = m.term
      BY <1>4 DEF granted
    <3> QED BY <1>2, <2>1, <2>2, <2>3, <3>1, <3>2 DEF Grants
  <2>5. \A r \in e.out : r.src = i
    BY <2>3 DEF VoteReply
  <2> QED BY <1>3, <2>4, <2>5
<1>5. CASE ~granted
  <2>1. after = at /\ e.node = after /\ e.out = {VoteReply(i, m.src, after, granted)}
    BY <1>5 DEF Effect
  <2> HIDE DEF after, e
  <2>2. \A r \in e.out : ~IsGrant(r) /\ r.src = i
    BY <1>5, <2>1 DEF IsGrant, VoteReply
  <2>3. Quiet(n, e)
    BY <1>2, <2>1, <2>2 DEF Quiet
  <2> QED BY <1>3, <2>2, <2>3
<1> QED BY <1>4, <1>5

---------------------------------------------------------------------------
(***************************************************************************)
(* Second, membership: as long as nobody logs a configuration entry, no    *)
(* handler makes a server act on any configuration but the initial one,    *)
(* nor sends or stores one: not by replication, truncation, compaction, a  *)
(* snapshot from elsewhere, or a crash.                                    *)
(***************************************************************************)

SettledEffect(e) == Settled(e.node) /\ \A m \in e.out : SettledMessage(m)

\* The fields that Settled looks at are the same in m as in n.
SameMembership(n, m) ==
    m.voters = n.voters /\ m.snapshot = n.snapshot /\ m.log = n.log

LEMMA SameIsSettled ==
    ASSUME NEW n, NEW m, Settled(n), SameMembership(n, m)
    PROVE  Settled(m)
BY DEF Settled, SameMembership

---------------------------------------------------------------------------
(* Logs. *)

LEMMA PlainSlices ==
    ASSUME NEW log \in Seq(Entry), Plain(log)
    PROVE  /\ \A a \in Nat \ {0}, b \in Nat : b <= Len(log) => Plain(SubSeq(log, a, b))
           /\ \A k \in Int : Plain(DelFrom(log, k)) /\ Plain(DelPrefix(log, k))
<1>1. ASSUME NEW a \in Nat \ {0}, NEW b \in Nat, b <= Len(log)
      PROVE  Plain(SubSeq(log, a, b))
  <2>1. \A k \in 1..Len(SubSeq(log, a, b)) :
            SubSeq(log, a, b)[k] = log[a + k - 1] /\ a + k - 1 \in 1..Len(log)
    BY <1>1
  <2> QED BY <2>1 DEF Plain
<1>2. ASSUME NEW k \in Int
      PROVE  Plain(DelFrom(log, k)) /\ Plain(DelPrefix(log, k))
  <2>1. SliceOffset(log, k) \in 0..Len(log)
    BY Slices
  <2> QED BY <1>1, <2>1 DEF DelFrom, DelPrefix
<1> QED BY <1>1, <1>2

LEMMA PlainAppend ==
    ASSUME NEW log \in Seq(Entry), Plain(log), NEW e \in Entry, ~IsConfig(e.command)
    PROVE  Plain(Append(log, e))
BY DEF Plain

LEMMA NoConfigPositions ==
    ASSUME NEW n, Plain(n.log)
    PROVE  ConfigPositions(n) = {}
BY DEF Plain, ConfigPositions

LEMMA SettledSuffix ==
    ASSUME NEW n \in NodeState, Settled(n), NEW k \in Int
    PROVE  Plain(log_suffix(n, k))
<1>1. n.log \in Seq(Entry) /\ Plain(n.log)
  BY DEF NodeState, Settled
<1>2. _phys(n, k) \in Int
  BY LogReads
<1> DEFINE a == (IF _phys(n, k) > 0 THEN _phys(n, k) ELSE 0) + 1
<1>3. a \in Nat \ {0} /\ Len(n.log) \in Nat
  BY <1>1, <1>2
<1> HIDE DEF a
<1>4. Plain(SubSeq(n.log, a, Len(n.log)))
  BY <1>1, <1>3, PlainSlices
<1> QED BY <1>4 DEF log_suffix, a

---------------------------------------------------------------------------
(* Helpers. *)

LEMMA SettledRebuild ==
    ASSUME NEW n \in NodeState, Plain(n.log), n.snapshot.voters = InitialVoters
    PROVE  Settled(_rebuild_config(n))
<1>1. _rebuild_config(n) = _adopt_config(n, n.snapshot.voters, base_index(n))
  BY NoConfigPositions DEF _rebuild_config
<1> QED BY <1>1 DEF _adopt_config, Settled, NodeState

LEMMA SettledCommit ==
    ASSUME NEW n \in NodeState, Settled(n), NEW index \in Nat
    PROVE  Settled(_set_commit_index(n, index))
<1> DEFINE new == [k \in 1..(index - last_applied(n)) |-> entry_at(n, last_applied(n) + k)]
           m == [n EXCEPT !.commit_index = index, !.machine = @ \o new]
           count == last_applied(m) - base_index(m)
           snap == [last_index |-> last_applied(m), last_term |-> term_at(m, last_applied(m)),
                    image |-> m.machine, voters |-> _config_at(m, last_applied(m))]
<1>1. m \in NodeState
  BY CommittedType
<1>2. SameMembership(n, m)
  BY DEF SameMembership, NodeState
<1> HIDE DEF m
<1>3. Settled(m)
  BY <1>2, SameIsSettled
<1>4. _config_at(m, last_applied(m)) = InitialVoters
  <2>1. ConfigPositions(m) = {}
    BY <1>3, NoConfigPositions DEF Settled
  <2> QED BY <1>3, <2>1 DEF _config_at, Settled
<1>5. Plain(DelPrefix(m.log, count))
  <2>1. count \in Int
    <3>1. base_index(m) \in Nat
      BY <1>1, LogReads
    <3>2. m.machine \in Seq(Entry)
      BY <1>1 DEF NodeState
    <3> QED BY <3>1, <3>2 DEF last_applied
  <2> HIDE DEF count
  <2> QED BY <1>1, <1>3, <2>1, PlainSlices DEF Settled, NodeState
<1>6. snap.voters = InitialVoters
  BY <1>4
<1> HIDE DEF snap, count
<1>7. Settled([m EXCEPT !.log = DelPrefix(@, count), !.snapshot = snap])
  BY <1>1, <1>3, <1>5, <1>6 DEF Settled, NodeState
<1>8. Settled(_maybe_compact(m))
  BY <1>3, <1>7 DEF _maybe_compact, snap, count
<1> QED BY <1>8 DEF _set_commit_index, m

LEMMA SettledAdvance ==
    ASSUME NEW n \in NodeState, Settled(n)
    PROVE  Settled(_advance_commit(n))
<1> DEFINE ready == {k \in (n.commit_index + 1)..last_log_index(n) :
                        OfThisTerm(n, k) /\ Replicated(n, k)}
           m == _set_commit_index(n, Maximum(ready))
<1>1. CASE ready = {}
  BY <1>1 DEF _advance_commit
<1>2. CASE ready # {}
  <2>1. n.commit_index + 1 \in Nat
    BY DEF NodeState
  <2>2. last_log_index(n) \in Nat
    BY LogReads
  <2>3. ready \in SUBSET ((n.commit_index + 1)..last_log_index(n))
    OBVIOUS
  <2>4. _advance_commit(n) = [m EXCEPT !.committed_this_term = TRUE]
    BY <1>2 DEF _advance_commit
  <2> HIDE DEF ready
  <2>5. Maximum(ready) \in Nat
    BY <1>2, <2>1, <2>2, <2>3, RangeMaximum
  <2>6. m \in NodeState /\ Settled(m)
    BY <2>5, SetCommitIndexType, SettledCommit
  <2> HIDE DEF m
  <2>7. SameMembership(m, [m EXCEPT !.committed_this_term = TRUE])
    BY <2>6 DEF SameMembership, NodeState
  <2> QED BY <2>4, <2>6, <2>7, SameIsSettled
<1> QED BY <1>1, <1>2

LEMMA SettledFollower ==
    ASSUME NEW n \in NodeState, Settled(n), NEW t
    PROVE  Settled(_become_follower(n, t))
BY DEF _become_follower, Settled, NodeState

LEMMA SettledRearm ==
    ASSUME NEW n \in NodeState, Settled(n), NEW kind
    PROVE  Settled([n EXCEPT !.timer = kind])
BY DEF Settled, NodeState

LEMMA SettledTakeEntries ==
    ASSUME NEW n \in NodeState, Settled(n), NEW prev_index \in Nat,
           NEW entries \in Seq(Entry), Plain(entries)
    PROVE  Settled(TakeEntries(n, prev_index, entries))
<1> DEFINE S == {s \in NodeState : Settled(s)}
<1>1. n \in S
  OBVIOUS
<1>2. ASSUME NEW s \in S, NEW k \in 1..Len(entries)
      PROVE  TakeEntry(s, prev_index + k, entries[k]) \in S
  <2> DEFINE index == prev_index + k
             e == entries[k]
             cut == [s EXCEPT !.log = DelFrom(@, _phys(s, index))]
             room == IF last_log_index(s) >= index THEN CheckConfig(cut, index) ELSE s
             appended == [room EXCEPT !.log = Append(@, e)]
  <2>1. index \in Nat /\ e \in Entry /\ s \in NodeState /\ Settled(s) /\ ~IsConfig(e.command)
    BY DEF Plain
  <2>2. TakeEntry(s, index, e) \in NodeState
    BY <2>1, TakeEntryType
  <2>3. cut \in NodeState /\ Settled(cut)
    <3>1. _phys(s, index) \in Int
      BY <2>1, LogReads
    <3>2. s.log \in Seq(Entry) /\ Plain(s.log)
      BY <2>1 DEF NodeState, Settled
    <3>3. DelFrom(s.log, _phys(s, index)) \in Seq(Entry)
      BY <3>1, <3>2, Slices
    <3>4. Plain(DelFrom(s.log, _phys(s, index)))
      BY <3>1, <3>2, PlainSlices
    <3> QED BY <2>1, <3>3, <3>4 DEF Settled, NodeState
  <2> HIDE DEF cut, index, e
  <2>4. room \in NodeState /\ Settled(room)
    BY <2>1, <2>3, RebuildConfigType, SettledRebuild DEF CheckConfig, Settled
  <2> HIDE DEF room
  <2>5. Settled(appended)
    <3>1. Append(room.log, e) \in Seq(Entry) /\ Plain(Append(room.log, e))
      BY <2>1, <2>4, PlainAppend DEF Settled, NodeState
    <3> QED BY <2>4, <3>1 DEF Settled, NodeState
  <2> HIDE DEF appended
  <2>6. TakeEntry(s, index, e) \in {s, appended}
    BY <2>1 DEF TakeEntry, appended, room, cut
  <2>7. Settled(TakeEntry(s, index, e))
    BY <2>1, <2>5, <2>6
  <2> QED BY <2>2, <2>7 DEF index, e
<1> HIDE DEF S
<1>3. TakeEntries(n, prev_index, entries) \in S
  BY <1>1, <1>2, TakeEntriesInduction
<1> QED BY <1>3 DEF S

---------------------------------------------------------------------------
(* What a settled server sends. *)

LEMMA SettledSends ==
    ASSUME NEW i \in Node, NEW n \in NodeState, Settled(n)
    PROVE  /\ \A p \in Node : SettledMessage(_send_append_entries(i, n, p))
           /\ \A m \in _broadcast_heartbeats(i, n) : SettledMessage(m)
<1>1. ASSUME NEW p \in Node
      PROVE  SettledMessage(_send_append_entries(i, n, p))
  <2>1. n.next_index[p] \in Int
    BY DEF NodeState
  <2>2. Plain(log_suffix(n, n.next_index[p] - 1 + 1))
    BY <2>1, SettledSuffix
  <2>3. SettledMessage(AppendEntries(i, p, n, n.next_index[p] - 1))
    BY <2>2 DEF SettledMessage, AppendEntries
  <2>4. SettledMessage(InstallSnapshot(i, p, n))
    BY DEF SettledMessage, InstallSnapshot, Settled
  <2> QED BY <2>3, <2>4 DEF _send_append_entries
<1>2. n.voters \subseteq Node
  BY DEF NodeState
<1> QED BY <1>1, <1>2 DEF _broadcast_heartbeats

LEMMA SettledReplies ==
    ASSUME NEW i, NEW n
    PROVE  /\ \A p, s, k : SettledMessage(AppendReply(i, p, n, s, k))
           /\ \A p, g : SettledMessage(VoteReply(i, p, n, g))
           /\ \A p, k : SettledMessage(ReadHeartbeat(i, p, n, k))
           /\ \A p, k : SettledMessage(ReadAck(i, p, n, k))
           /\ \A p : SettledMessage(RequestVote(i, p, n))
BY DEF SettledMessage, AppendReply, VoteReply, ReadHeartbeat, ReadAck, RequestVote

LEMMA SettledSilent ==
    ASSUME NEW n, Settled(n)
    PROVE  SettledEffect(Silent(n))
BY DEF SettledEffect, Silent, Effect

---------------------------------------------------------------------------
(* Handlers. *)

LEMMA SettledAppendEntries ==
    ASSUME NEW i \in Node, NEW n \in NodeState, NEW m \in Message, m.type = "AppendEntries",
           Settled(n), SettledMessage(m)
    PROVE  SettledEffect(_on_append_entries(i, n, m))
<1> DEFINE seen == IF m.term > n.term THEN _become_follower(n, m.term) ELSE n
           follow == IF seen.role # "follower" THEN _become_follower(seen, m.term)
                                               ELSE [seen EXCEPT !.timer = "election"]
           taken == TakeEntries(follow, m.prev_index, m.entries)
           after == FollowCommit(taken, m)
<1>1. /\ m.term \in Nat /\ m.prev_index \in Nat /\ m.entries \in Seq(Entry)
      /\ m.leader_commit \in Nat /\ Plain(m.entries)
  BY DEF Message, SettledMessage
<1>2. seen \in NodeState /\ Settled(seen)
  BY <1>1, BecomeFollowerType, SettledFollower
<1> HIDE DEF seen
<1>3. follow \in NodeState /\ Settled(follow)
  <2>1. [seen EXCEPT !.timer = "election"] \in NodeState
    BY <1>2 DEF NodeState
  <2> QED BY <1>1, <1>2, <2>1, BecomeFollowerType, SettledFollower, SettledRearm
<1> HIDE DEF follow
<1>4. taken \in NodeState /\ Settled(taken)
  BY <1>1, <1>3, TakeEntriesType, SettledTakeEntries
<1> HIDE DEF taken
<1>5. Settled(after)
  <2>1. Match(m) \in Nat
    BY <1>1 DEF Match
  <2>2. CommitBound(m) \in Nat
    BY <1>1, <2>1 DEF CommitBound
  <2>3. taken.commit_index \in Nat
    BY <1>4 DEF NodeState
  <2>4. Larger(taken.commit_index, CommitBound(m)) \in Nat
    BY <2>2, <2>3 DEF Larger
  <2> QED BY <1>4, <2>4, SettledCommit DEF FollowCommit
<1> HIDE DEF after
<1>6. /\ SettledEffect(Effect(n, {AppendReply(i, m.src, n, FALSE, 0)}, {}))
      /\ SettledEffect(Effect(follow, {AppendReply(i, m.src, follow, FALSE, 0)}, {}))
      /\ SettledEffect(Effect(after, {AppendReply(i, m.src, after, TRUE, Match(m))},
                              AppliedSince(n, after)))
  BY <1>3, <1>5, SettledReplies DEF SettledEffect, Effect
<1>7. _on_append_entries(i, n, m) =
        IF m.term < n.term
        THEN Effect(n, {AppendReply(i, m.src, n, FALSE, 0)}, {})
        ELSE IF ~Consistent(follow, m)
        THEN Effect(follow, {AppendReply(i, m.src, follow, FALSE, 0)}, {})
        ELSE Effect(after, {AppendReply(i, m.src, after, TRUE, Match(m))}, AppliedSince(n, after))
  BY DEF _on_append_entries, after, taken, follow, seen
<1> QED BY <1>6, <1>7

LEMMA SettledAppendReply ==
    ASSUME NEW i \in Node, NEW n \in NodeState, NEW m \in Message, m.type = "AppendReply",
           Settled(n)
    PROVE  SettledEffect(_on_append_reply(i, n, m))
<1> DEFINE acked == [n EXCEPT !.match_index[m.src] = Larger(@, m.match_index),
                              !.next_index[m.src] = Larger(@, NextAfter(m.match_index))]
           after == _advance_commit(acked)
           backed == [n EXCEPT !.next_index[m.src] = BackOff(@)]
<1>1. m.src \in Node /\ m.match_index \in Nat
  BY DEF Message
<1>2. Settled(after)
  <2>1. acked \in NodeState
    BY <1>1, AckedType
  <2>2. SameMembership(n, acked)
    BY DEF SameMembership, NodeState
  <2> HIDE DEF acked
  <2> QED BY <2>1, <2>2, SameIsSettled, SettledAdvance
<1>3. backed \in NodeState /\ Settled(backed)
  <2>1. backed \in NodeState
    BY <1>1, BackedType
  <2>2. SameMembership(n, backed)
    BY DEF SameMembership, NodeState
  <2> HIDE DEF backed
  <2> QED BY <2>1, <2>2, SameIsSettled
<1> HIDE DEF after, backed
<1>4. /\ SettledEffect(Effect(after, {}, AppliedSince(n, after)))
      /\ SettledEffect(Effect(backed, {_send_append_entries(i, backed, m.src)}, {}))
      /\ SettledEffect(Silent(n))
      /\ SettledEffect(Silent(_become_follower(n, m.term)))
  BY <1>1, <1>2, <1>3, SettledSends, SettledSilent, SettledFollower DEF SettledEffect, Effect
<1>5. _on_append_reply(i, n, m) =
        IF m.term > n.term THEN Silent(_become_follower(n, m.term))
        ELSE IF n.role # "leader" \/ m.term < n.term THEN Silent(n)
        ELSE IF m.success THEN Effect(after, {}, AppliedSince(n, after))
        ELSE Effect(backed, {_send_append_entries(i, backed, m.src)}, {})
  BY DEF _on_append_reply, after, backed
<1> QED BY <1>4, <1>5

LEMMA SettledInstallSnapshot ==
    ASSUME NEW i \in Node, NEW n \in NodeState, NEW m \in Message, m.type = "InstallSnapshot",
           Settled(n), SettledMessage(m)
    PROVE  SettledEffect(_on_install_snapshot(i, n, m))
<1> DEFINE snap == m.snapshot
           follow == IF m.term > n.term \/ n.role # "follower"
                     THEN _become_follower(n, m.term)
                     ELSE [n EXCEPT !.timer = "election"]
           keep_tail == /\ last_log_index(follow) >= snap.last_index
                        /\ term_at(follow, snap.last_index) = snap.last_term
           log == IF keep_tail
                  THEN DelPrefix(follow.log, snap.last_index - base_index(follow)) ELSE <<>>
           placed == [Restore(follow, snap) EXCEPT !.log = log, !.snapshot = snap]
           installed == _rebuild_config(placed)
<1>1. /\ m.term \in Nat /\ snap \in Snapshot /\ snap.last_index \in Nat
      /\ snap.voters = InitialVoters
  BY DEF Message, Snapshot, SettledMessage
<1>2. follow \in NodeState /\ Settled(follow)
  <2>1. [n EXCEPT !.timer = "election"] \in NodeState
    BY DEF NodeState
  <2> QED BY <1>1, <2>1, BecomeFollowerType, SettledFollower, SettledRearm
<1> HIDE DEF follow, snap
<1>3. placed \in NodeState
  BY <1>1, <1>2, PlacedType
<1>4. Plain(log)
  <2>1. base_index(follow) \in Nat
    BY <1>2, LogReads
  <2>2. snap.last_index - base_index(follow) \in Int
    BY <1>1, <2>1
  <2>3. follow.log \in Seq(Entry) /\ Plain(follow.log)
    BY <1>2 DEF NodeState, Settled
  <2>4. Plain(DelPrefix(follow.log, snap.last_index - base_index(follow)))
    BY <2>2, <2>3, PlainSlices
  <2>5. Plain(<<>>)
    BY DEF Plain
  <2> QED BY <2>4, <2>5
<1>5. placed.log = log /\ placed.snapshot = snap
  BY <1>2 DEF Restore, NodeState
<1> HIDE DEF placed, log
<1>6. Settled(installed)
  BY <1>1, <1>3, <1>4, <1>5, SettledRebuild
<1> HIDE DEF installed
<1>7. _on_install_snapshot(i, n, m) =
        IF m.term < n.term
        THEN Effect(n, {AppendReply(i, m.src, n, FALSE, 0)}, {})
        ELSE IF Covers(n, snap)
        THEN Effect(follow, {AppendReply(i, m.src, follow, TRUE, last_log_index(follow))}, {})
        ELSE Effect(installed, {AppendReply(i, m.src, installed, TRUE, snap.last_index)}, {})
  <2>1. Restore(follow, snap).log = follow.log
    BY <1>2 DEF Restore, NodeState
  <2> QED BY <2>1 DEF _on_install_snapshot, installed, placed, log, follow, snap
<1>8. /\ SettledEffect(Effect(n, {AppendReply(i, m.src, n, FALSE, 0)}, {}))
      /\ SettledEffect(Effect(follow, {AppendReply(i, m.src, follow, TRUE,
                                                   last_log_index(follow))}, {}))
      /\ SettledEffect(Effect(installed, {AppendReply(i, m.src, installed, TRUE,
                                                      snap.last_index)}, {}))
  BY <1>2, <1>6, SettledReplies DEF SettledEffect, Effect
<1> QED BY <1>7, <1>8

LEMMA SettledServe ==
    ASSUME NEW n \in NodeState, Settled(n), NEW p
    PROVE  SettledEffect(_try_serve_read(n, p)) /\ _try_serve_read(n, p).out = {}
BY DEF SettledEffect, Settled, _try_serve_read, Silent, Effect, NodeState

LEMMA SettledReadHeartbeat ==
    ASSUME NEW i \in Node, NEW n \in NodeState, NEW m \in Message, m.type = "ReadHeartbeat",
           Settled(n)
    PROVE  SettledEffect(_on_read_heartbeat(i, n, m))
<1> DEFINE follow == IF m.term > n.term THEN _become_follower(n, m.term) ELSE n
           armed == IF m.term >= n.term THEN [follow EXCEPT !.timer = "election"] ELSE follow
<1>1. m.term \in Nat
  BY DEF Message
<1>2. follow \in NodeState /\ Settled(follow)
  BY <1>1, BecomeFollowerType, SettledFollower
<1> HIDE DEF follow
<1>3. Settled(armed)
  BY <1>2, SettledRearm
<1> HIDE DEF armed
<1>4. SettledEffect(Effect(armed, {ReadAck(i, m.src, armed, m.read_id)}, {}))
  BY <1>3, SettledReplies DEF SettledEffect, Effect
<1> QED BY <1>4 DEF _on_read_heartbeat, armed, follow

LEMMA SettledReadAck ==
    ASSUME NEW i \in Node, NEW n \in NodeState, NEW m \in Message, m.type = "ReadAck",
           Settled(n)
    PROVE  SettledEffect(_on_read_ack(i, n, m))
<1> DEFINE p == CHOOSE q \in n.pending_reads : q.id = m.read_id
           acked == [p EXCEPT !.acks = @ \cup {m.src}]
           asked == [n EXCEPT !.pending_reads = (@ \ {p}) \cup {acked}]
           done == _try_serve_read(asked, acked)
<1>1. ASSUME \E q \in n.pending_reads : q.id = m.read_id
      PROVE  SettledEffect(done)
  <2>1. asked \in NodeState
    BY <1>1, AskedType DEF Message
  <2>2. SameMembership(n, asked)
    BY DEF SameMembership, NodeState
  <2> HIDE DEF asked, acked
  <2> QED BY <2>1, <2>2, SameIsSettled, SettledServe
<1>2. _on_read_ack(i, n, m) =
        IF m.term > n.term THEN Silent(_become_follower(n, m.term))
        ELSE IF m.term # n.term \/ n.role # "leader"
                  \/ ~ \E q \in n.pending_reads : q.id = m.read_id
        THEN Silent(n)
        ELSE done
  BY DEF _on_read_ack
<1> HIDE DEF done
<1>3. SettledEffect(Silent(n)) /\ SettledEffect(Silent(_become_follower(n, m.term)))
  BY SettledSilent, SettledFollower
<1> QED BY <1>1, <1>2, <1>3

LEMMA SettledRequestVote ==
    ASSUME NEW i \in Node, NEW n \in NodeState, NEW m \in Message, m.type = "RequestVote",
           Settled(n)
    PROVE  SettledEffect(_on_request_vote(i, n, m))
<1> DEFINE at == IF m.term > n.term THEN _become_follower(n, m.term) ELSE n
           granted == /\ m.term = at.term
                      /\ at.voted_for \in {None, m.src}
                      /\ UpToDate(at, m)
           after == IF granted THEN [at EXCEPT !.voted_for = m.src, !.timer = "election"] ELSE at
<1>1. m.term \in Nat
  BY DEF Message
<1>2. at \in NodeState /\ Settled(at)
  BY <1>1, BecomeFollowerType, SettledFollower
<1> HIDE DEF at, granted
<1>3. Settled(after)
  BY <1>2 DEF Settled, NodeState
<1> HIDE DEF after
<1>4. SettledEffect(Effect(after, {VoteReply(i, m.src, after, granted)}, {}))
  BY <1>3, SettledReplies DEF SettledEffect, Effect
<1> QED BY <1>4 DEF _on_request_vote, after, granted, at

LEMMA SettledLeader ==
    ASSUME NEW i \in Node, NEW n \in NodeState, Settled(n)
    PROVE  SettledEffect(_become_leader(i, n))
<1> DEFINE lead == _become_leader(i, n).node
<1>1. lead \in NodeState
  BY BecomeLeaderType DEF GoodEffect
<1>2. SameMembership(n, lead)
  BY DEF _become_leader, Effect, SameMembership, NodeState
<1>3. _become_leader(i, n).out = _broadcast_heartbeats(i, lead)
  BY DEF _become_leader, Effect
<1> HIDE DEF lead
<1>4. Settled(lead) /\ \A m \in _broadcast_heartbeats(i, lead) : SettledMessage(m)
  BY <1>1, <1>2, SameIsSettled, SettledSends
<1> QED BY <1>3, <1>4 DEF SettledEffect, lead

LEMMA SettledVoteReply ==
    ASSUME NEW i \in Node, NEW n \in NodeState, NEW m \in Message, m.type = "VoteReply",
           Settled(n)
    PROVE  SettledEffect(_on_vote_reply(i, n, m))
<1> DEFINE counted == [n EXCEPT !.votes = @ \cup {m.src}]
<1>1. counted \in NodeState
  BY DEF Message, NodeState
<1>2. SameMembership(n, counted)
  BY DEF SameMembership, NodeState
<1> HIDE DEF counted
<1>3. /\ SettledEffect(_become_leader(i, counted))
      /\ SettledEffect(Silent(counted))
      /\ SettledEffect(Silent(n))
      /\ SettledEffect(Silent(_become_follower(n, m.term)))
  BY <1>1, <1>2, SameIsSettled, SettledLeader, SettledSilent, SettledFollower
<1>4. _on_vote_reply(i, n, m) =
        IF m.term > n.term THEN Silent(_become_follower(n, m.term))
        ELSE IF n.role # "candidate" \/ m.term < n.term \/ ~m.granted THEN Silent(n)
        ELSE _maybe_win(i, counted)
  BY DEF _on_vote_reply, counted
<1> QED BY <1>3, <1>4 DEF _maybe_win

LEMMA SettledHandle ==
    ASSUME NEW i \in Node, NEW n \in NodeState, NEW m \in Message,
           Settled(n), SettledMessage(m)
    PROVE  SettledEffect(handle(i, n, m))
<1>1. m.type \in {"RequestVote", "VoteReply", "AppendEntries", "AppendReply",
                  "InstallSnapshot", "ReadHeartbeat", "ReadAck"}
  BY DEF Message
<1> QED BY <1>1, SettledRequestVote, SettledVoteReply, SettledAppendEntries,
           SettledAppendReply, SettledInstallSnapshot, SettledReadHeartbeat, SettledReadAck
        DEF handle

---------------------------------------------------------------------------
(* Calls that no message causes. *)

LEMMA SettledStartElection ==
    ASSUME NEW i \in Node, NEW n \in NodeState, Settled(n)
    PROVE  SettledEffect(start_election(i, n))
<1> DEFINE cand == [n EXCEPT !.term = @ + 1, !.role = "candidate", !.voted_for = i,
                             !.votes = {i}, !.timer = "election"]
           asked == {RequestVote(i, p, cand) : p \in cand.voters \ {i}}
           win == _maybe_win(i, cand)
<1>1. SettledEffect(Silent([n EXCEPT !.timer = "election"]))
  BY SettledRearm, SettledSilent
<1>2. cand \in NodeState
  BY CandidateType
<1>3. SameMembership(n, cand)
  BY DEF SameMembership, NodeState
<1> HIDE DEF cand
<1>4. SettledEffect(win)
  BY <1>2, <1>3, SameIsSettled, SettledLeader, SettledSilent DEF _maybe_win
<1>5. \A m \in asked : SettledMessage(m)
  BY SettledReplies
<1> HIDE DEF win, asked
<1>6. SettledEffect(Effect(win.node, asked \cup win.out, {}))
  BY <1>4, <1>5 DEF SettledEffect, Effect
<1> QED BY <1>1, <1>6 DEF start_election, win, asked, cand

LEMMA SettledHeartbeatTimeout ==
    ASSUME NEW i \in Node, NEW n \in NodeState, Settled(n)
    PROVE  SettledEffect(HeartbeatTimeout(i, n))
BY SettledSends, SettledRearm DEF HeartbeatTimeout, SettledEffect, Effect

LEMMA SettledClientCommand ==
    ASSUME NEW i \in Node, NEW n \in NodeState, Settled(n), NEW c \in Client, NEW r \in Nat
    PROVE  SettledEffect(client_command(i, n, c, r))
<1> DEFINE asked == [n EXCEPT !.client_index[c] = r]
           command == ClientCommand(c, r)
           entry == [term |-> asked.term, command |-> command]
           m == AppendToLog(i, asked, command)
<1>1. asked \in NodeState
  BY IndexedType
<1>2. SameMembership(n, asked)
  BY DEF SameMembership, NodeState
<1> HIDE DEF asked
<1>3. Settled(asked)
  BY <1>2, SameIsSettled
<1>4. command \in Command /\ ~IsConfig(command)
  BY DEF ClientCommand, Command, IsConfig
<1> HIDE DEF command
<1>5. m \in NodeState
  BY <1>1, <1>4, AppendToLogType
<1>6. m.log = Append(asked.log, entry) /\ m.voters = asked.voters /\ m.snapshot = asked.snapshot
  BY <1>1 DEF AppendToLog, NodeState
<1>7. entry \in Entry /\ ~IsConfig(entry.command) /\ asked.log \in Seq(Entry)
  BY <1>1, <1>4 DEF Entry, NodeState
<1> HIDE DEF m, entry
<1>8. Settled(m)
  BY <1>3, <1>6, <1>7, PlainAppend DEF Settled
<1>9. SettledEffect(Effect(m, _broadcast_heartbeats(i, m), {}))
  BY <1>5, <1>8, SettledSends DEF SettledEffect, Effect
<1> QED BY <1>9, SettledSilent DEF client_command, m, asked, command

LEMMA SettledRequestRead ==
    ASSUME NEW i \in Node, NEW n \in NodeState, Settled(n), NEW c \in Client, NEW r \in Nat
    PROVE  SettledEffect(request_read(i, n, c, r))
<1> DEFINE p == [id |-> n.next_read_id, command |-> ClientCommand(c, r),
                 index |-> n.commit_index, acks |-> {i}]
           asked == [n EXCEPT !.next_read_id = @ + 1, !.pending_reads = @ \cup {p}]
           done == _try_serve_read(asked, p)
           sent == {ReadHeartbeat(i, q, n, p.id) : q \in n.voters \ {i}}
<1>1. asked \in NodeState
  BY RequestedType
<1>2. SameMembership(n, asked)
  BY DEF SameMembership, NodeState
<1>3. \A m \in sent : SettledMessage(m)
  BY DEF SettledMessage, ReadHeartbeat
<1> HIDE DEF asked, p
<1>4. SettledEffect(done)
  BY <1>1, <1>2, SameIsSettled, SettledServe
<1> HIDE DEF done, sent
<1>5. SettledEffect(Effect(done.node, sent, done.reported))
  BY <1>3, <1>4 DEF SettledEffect, Effect
<1> QED BY <1>5 DEF request_read, sent, done, asked, p

LEMMA SettledPause ==
    ASSUME NEW n \in NodeState, Settled(n)
    PROVE  SettledEffect(Silent(pause(n)))
<1> DEFINE m == [Restore(n, n.snapshot) EXCEPT
                  !.alive = FALSE, !.role = "follower", !.timer = "none",
                  !.next_index = [p \in Node |-> 1], !.match_index = [p \in Node |-> 0],
                  !.votes = {}, !.client_index = [c \in Client |-> -1],
                  !.pending_reads = {}, !.committed_this_term = FALSE]
<1>1. m \in NodeState
  BY CrashedType
<1>2. m.log = n.log /\ m.snapshot = n.snapshot
  BY DEF Restore, NodeState
<1>3. pause(n) = _rebuild_config(m)
  BY DEF pause
<1> HIDE DEF m
<1> QED BY <1>1, <1>2, <1>3, SettledRebuild, SettledSilent DEF Settled

LEMMA SettledResume ==
    ASSUME NEW n \in NodeState, Settled(n)
    PROVE  SettledEffect(Silent(resume(n)))
<1>1. SameMembership(n, resume(n))
  BY DEF SameMembership, resume, NodeState
<1> QED BY <1>1, SameIsSettled, SettledSilent

---------------------------------------------------------------------------
(***************************************************************************)
(* What each handler does to the timer of a server that is up.             *)
(***************************************************************************)
Awake(n) == n.alive /\ n.timer = IF n.role = "leader" THEN "heartbeat" ELSE "election"

\* A request for votes goes to others; only a leader asks for ReadAcks.
Calls(i, p, r) ==
    /\ r.type = "RequestVote" => r.src # r.dst
    /\ r.type = "ReadHeartbeat" =>
           r.src = i /\ r.dst # i /\ r.term = p.term /\ p.role = "leader"

StaysAwake(i, e) == Awake(e.node) /\ \A r \in e.out : Calls(i, e.node, r)

LEMMA SameWatchAwake ==
    ASSUME NEW n, NEW m, Awake(n), SameWatch(n, m)
    PROVE  Awake(m)
BY DEF Awake, SameWatch

LEMMA FollowerAwake ==
    ASSUME NEW n \in NodeState, Awake(n), NEW t
    PROVE  Awake(_become_follower(n, t)) /\ _become_follower(n, t).role = "follower"
BY DEF Awake, _become_follower, NodeState

\* Re-arming the election timer is right for whoever does not lead.
LEMMA RearmedAwake ==
    ASSUME NEW n \in NodeState, Awake(n), n.role # "leader"
    PROVE  Awake([n EXCEPT !.timer = "election"])
BY DEF Awake, NodeState

LEMMA SendsNoCalls ==
    ASSUME NEW i, NEW n, NEW q
    PROVE  /\ \A p, s, k : Calls(i, q, AppendReply(i, p, n, s, k))
           /\ \A p, s : Calls(i, q, VoteReply(i, p, n, s))
           /\ \A p, k : Calls(i, q, ReadAck(i, p, n, k))
           /\ \A p : Calls(i, q, _send_append_entries(i, n, p))
           /\ \A m \in _broadcast_heartbeats(i, n) : Calls(i, q, m)
BY DEF Calls, AppendReply, VoteReply, ReadAck, _send_append_entries, _broadcast_heartbeats,
       AppendEntries, InstallSnapshot

LEMMA SilentAwake ==
    ASSUME NEW i, NEW n, Awake(n)
    PROVE  StaysAwake(i, Silent(n))
BY DEF StaysAwake, Silent, Effect

LEMMA SilentFollowerAwake ==
    ASSUME NEW i, NEW n \in NodeState, Awake(n), NEW t
    PROVE  StaysAwake(i, Silent(_become_follower(n, t)))
BY FollowerAwake, SilentAwake

LEMMA AppendEntriesAwake ==
    ASSUME NEW i \in Node, NEW n \in NodeState, Awake(n), NEW m \in Message,
           m.type = "AppendEntries"
    PROVE  StaysAwake(i, _on_append_entries(i, n, m))
<1> DEFINE seen == IF m.term > n.term THEN _become_follower(n, m.term) ELSE n
           follow == IF seen.role # "follower" THEN _become_follower(seen, m.term)
                                               ELSE [seen EXCEPT !.timer = "election"]
           taken == TakeEntries(follow, m.prev_index, m.entries)
           after == FollowCommit(taken, m)
<1>1. /\ m.term \in Nat /\ m.prev_index \in Nat /\ m.entries \in Seq(Entry)
      /\ m.leader_commit \in Nat
  BY DEF Message
<1>2. seen \in NodeState /\ Awake(seen)
  BY <1>1, BecomeFollowerType, FollowerAwake
<1> HIDE DEF seen
<1>3. follow \in NodeState /\ Awake(follow)
  BY <1>1, <1>2, BecomeFollowerType, FollowerAwake, RearmStanding, RearmedAwake
<1> HIDE DEF follow
<1>4. taken \in NodeState /\ Awake(taken)
  BY <1>1, <1>3, TakeEntriesType, TakeEntriesStanding, SameWatchAwake
<1> HIDE DEF taken
<1>5. Awake(after)
  BY <1>4, SetCommitIndexStanding, SameWatchAwake DEF FollowCommit
<1> HIDE DEF after
<1>6. /\ StaysAwake(i, Effect(n, {AppendReply(i, m.src, n, FALSE, 0)}, {}))
      /\ StaysAwake(i, Effect(follow, {AppendReply(i, m.src, follow, FALSE, 0)}, {}))
      /\ StaysAwake(i, Effect(after, {AppendReply(i, m.src, after, TRUE, Match(m))},
                              AppliedSince(n, after)))
  BY <1>3, <1>5, SendsNoCalls DEF StaysAwake, Effect
<1> QED BY <1>6 DEF _on_append_entries, after, taken, follow, seen

LEMMA AppendReplyAwake ==
    ASSUME NEW i \in Node, NEW n \in NodeState, Awake(n), NEW m \in Message,
           m.type = "AppendReply"
    PROVE  StaysAwake(i, _on_append_reply(i, n, m))
<1> DEFINE acked == [n EXCEPT !.match_index[m.src] = Larger(@, m.match_index),
                              !.next_index[m.src] = Larger(@, NextAfter(m.match_index))]
           after == _advance_commit(acked)
           backed == [n EXCEPT !.next_index[m.src] = BackOff(@)]
<1>1. m.src \in Node /\ m.match_index \in Nat
  BY DEF Message
<1>2. Awake(after)
  <2>1. acked \in NodeState /\ SameWatch(n, acked)
    BY <1>1, AckedType DEF SameWatch, NodeState
  <2> HIDE DEF acked
  <2> QED BY <2>1, AdvanceCommitStanding, SameWatchAwake
<1>3. Awake(backed)
  BY SameWatchAwake DEF SameWatch, NodeState
<1> HIDE DEF after, backed
<1>4. /\ StaysAwake(i, Effect(after, {}, AppliedSince(n, after)))
      /\ StaysAwake(i, Effect(backed, {_send_append_entries(i, backed, m.src)}, {}))
  BY <1>2, <1>3, SendsNoCalls DEF StaysAwake, Effect
<1>5. _on_append_reply(i, n, m) =
        IF m.term > n.term THEN Silent(_become_follower(n, m.term))
        ELSE IF n.role # "leader" \/ m.term < n.term THEN Silent(n)
        ELSE IF m.success THEN Effect(after, {}, AppliedSince(n, after))
        ELSE Effect(backed, {_send_append_entries(i, backed, m.src)}, {})
  BY DEF _on_append_reply, after, backed
<1> QED BY <1>4, <1>5, SilentFollowerAwake, SilentAwake

LEMMA InstallSnapshotAwake ==
    ASSUME NEW i \in Node, NEW n \in NodeState, Awake(n), NEW m \in Message,
           m.type = "InstallSnapshot"
    PROVE  StaysAwake(i, _on_install_snapshot(i, n, m))
<1> DEFINE snap == m.snapshot
           follow == IF m.term > n.term \/ n.role # "follower"
                     THEN _become_follower(n, m.term)
                     ELSE [n EXCEPT !.timer = "election"]
           keep_tail == /\ last_log_index(follow) >= snap.last_index
                        /\ term_at(follow, snap.last_index) = snap.last_term
           log == IF keep_tail
                  THEN DelPrefix(follow.log, snap.last_index - base_index(follow)) ELSE <<>>
           placed == [Restore(follow, snap) EXCEPT !.log = log, !.snapshot = snap]
           installed == _rebuild_config(placed)
<1>1. m.term \in Nat /\ snap \in Snapshot /\ snap.last_index \in Nat
  BY DEF Message, Snapshot
<1>2. follow \in NodeState /\ Awake(follow)
  BY <1>1, BecomeFollowerType, FollowerAwake, RearmStanding, RearmedAwake
<1> HIDE DEF follow, snap
<1>3. placed \in NodeState
  BY <1>1, <1>2, PlacedType
<1>4. SameWatch(follow, placed)
  BY <1>2 DEF SameWatch, Restore, NodeState
<1> HIDE DEF placed
<1>5. Awake(installed)
  BY <1>2, <1>3, <1>4, RebuildConfigStanding, SameWatchAwake
<1> HIDE DEF installed
<1>6. /\ StaysAwake(i, Effect(n, {AppendReply(i, m.src, n, FALSE, 0)}, {}))
      /\ StaysAwake(i, Effect(follow, {AppendReply(i, m.src, follow, TRUE,
                                                   last_log_index(follow))}, {}))
      /\ StaysAwake(i, Effect(installed, {AppendReply(i, m.src, installed, TRUE,
                                                      snap.last_index)}, {}))
  BY <1>2, <1>5, SendsNoCalls DEF StaysAwake, Effect
<1>7. _on_install_snapshot(i, n, m) =
        IF m.term < n.term
        THEN Effect(n, {AppendReply(i, m.src, n, FALSE, 0)}, {})
        ELSE IF Covers(n, snap)
        THEN Effect(follow, {AppendReply(i, m.src, follow, TRUE, last_log_index(follow))}, {})
        ELSE Effect(installed, {AppendReply(i, m.src, installed, TRUE, snap.last_index)}, {})
  <2>1. Restore(follow, snap).log = follow.log
    BY <1>2 DEF Restore, NodeState
  <2> QED BY <2>1 DEF _on_install_snapshot, installed, placed, follow, snap
<1> QED BY <1>6, <1>7

(***************************************************************************)
(* A leader must never hear a ReadHeartbeat of its own term: it would go   *)
(* on leading with the timer of a follower.                                *)
(***************************************************************************)
LEMMA ReadHeartbeatAwake ==
    ASSUME NEW i \in Node, NEW n \in NodeState, Awake(n), NEW m \in Message,
           m.type = "ReadHeartbeat", n.role = "leader" => m.term # n.term
    PROVE  StaysAwake(i, _on_read_heartbeat(i, n, m))
<1> DEFINE follow == IF m.term > n.term THEN _become_follower(n, m.term) ELSE n
           armed == IF m.term >= n.term THEN [follow EXCEPT !.timer = "election"] ELSE follow
<1>1. m.term \in Nat /\ n.term \in Nat
  BY DEF Message, NodeState
<1>2. follow \in NodeState /\ Awake(follow) /\ (m.term >= n.term => follow.role # "leader")
  <2>1. CASE m.term > n.term
    <3>1. follow = _become_follower(n, m.term)
      BY <2>1
    <3> QED BY <1>1, <3>1, BecomeFollowerType, FollowerAwake
  <2>2. CASE ~(m.term > n.term)
    BY <1>1, <2>2
  <2> QED BY <2>1, <2>2
<1> HIDE DEF follow
<1>3. Awake(armed)
  BY <1>2, RearmedAwake
<1> HIDE DEF armed
<1>4. StaysAwake(i, Effect(armed, {ReadAck(i, m.src, armed, m.read_id)}, {}))
  BY <1>3, SendsNoCalls DEF StaysAwake, Effect
<1> QED BY <1>4 DEF _on_read_heartbeat, armed, follow

LEMMA TryServeReadAwake ==
    ASSUME NEW n \in NodeState, NEW p
    PROVE  SameWatch(n, _try_serve_read(n, p).node)
BY DEF SameWatch, _try_serve_read, Silent, Effect, NodeState

LEMMA ReadAckAwake ==
    ASSUME NEW i \in Node, NEW n \in NodeState, Awake(n), NEW m \in Message, m.type = "ReadAck"
    PROVE  StaysAwake(i, _on_read_ack(i, n, m))
<1> DEFINE p == CHOOSE q \in n.pending_reads : q.id = m.read_id
           acked == [p EXCEPT !.acks = @ \cup {m.src}]
           asked == [n EXCEPT !.pending_reads = (@ \ {p}) \cup {acked}]
           done == _try_serve_read(asked, acked)
<1>1. ASSUME \E q \in n.pending_reads : q.id = m.read_id
      PROVE  StaysAwake(i, done)
  <2>1. asked \in NodeState
    BY <1>1, AskedType DEF Message
  <2>2. SameWatch(n, asked)
    BY DEF SameWatch, NodeState
  <2> HIDE DEF asked, acked
  <2>3. Awake(done.node) /\ done.out = {}
    BY <2>1, <2>2, TryServeReadStanding, TryServeReadAwake, SameWatchAwake
  <2> HIDE DEF done
  <2> QED BY <2>3 DEF StaysAwake
<1>2. _on_read_ack(i, n, m) =
        IF m.term > n.term THEN Silent(_become_follower(n, m.term))
        ELSE IF m.term # n.term \/ n.role # "leader"
                  \/ ~ \E q \in n.pending_reads : q.id = m.read_id
        THEN Silent(n)
        ELSE done
  BY DEF _on_read_ack
<1> HIDE DEF done
<1> QED BY <1>1, <1>2, SilentFollowerAwake, SilentAwake

\* A leader has voted for itself, so it never grants a vote in its own term.
LEMMA RequestVoteAwake ==
    ASSUME NEW i \in Node, NEW n \in NodeState, Awake(n), NEW m \in Message,
           m.type = "RequestVote", n.role = "leader" => n.voted_for = i, m.src # i
    PROVE  StaysAwake(i, _on_request_vote(i, n, m))
<1> DEFINE at == IF m.term > n.term THEN _become_follower(n, m.term) ELSE n
           granted == /\ m.term = at.term
                      /\ at.voted_for \in {None, m.src}
                      /\ UpToDate(at, m)
           after == IF granted THEN [at EXCEPT !.voted_for = m.src, !.timer = "election"] ELSE at
<1>1. m.term \in Nat /\ m.src \in Node /\ i # None
  BY NoneAssumption DEF Message
<1>2. at \in NodeState /\ Awake(at) /\ (at.role = "leader" => at.voted_for = i)
  BY <1>1, BecomeFollowerType, FollowerAwake
<1> HIDE DEF at
<1>3. granted => at.role # "leader"
  BY <1>1, <1>2
<1> HIDE DEF granted
<1>4. Awake(after)
  BY <1>2, <1>3 DEF Awake, NodeState
<1> HIDE DEF after
<1>5. StaysAwake(i, Effect(after, {VoteReply(i, m.src, after, granted)}, {}))
  BY <1>4, SendsNoCalls DEF StaysAwake, Effect
<1> QED BY <1>5 DEF _on_request_vote, after, granted, at

LEMMA MaybeWinAwake ==
    ASSUME NEW i \in Node, NEW n \in NodeState, Awake(n)
    PROVE  StaysAwake(i, _maybe_win(i, n))
<1>1. Awake(_become_leader(i, n).node)
  BY DEF _become_leader, Effect, Awake, NodeState
<1>2. \A r \in _become_leader(i, n).out : Calls(i, _become_leader(i, n).node, r)
  BY SendsNoCalls DEF _become_leader, Effect
<1> QED BY <1>1, <1>2, SilentAwake DEF _maybe_win, StaysAwake

LEMMA VoteReplyAwake ==
    ASSUME NEW i \in Node, NEW n \in NodeState, Awake(n), NEW m \in Message,
           m.type = "VoteReply"
    PROVE  StaysAwake(i, _on_vote_reply(i, n, m))
<1> DEFINE counted == [n EXCEPT !.votes = @ \cup {m.src}]
<1>1. counted \in NodeState
  <2>1. m.src \in Node
    BY DEF Message
  <2> QED BY <2>1 DEF NodeState
<1>4. SameWatch(n, counted)
  BY DEF SameWatch, NodeState
<1>2. _on_vote_reply(i, n, m) =
        IF m.term > n.term THEN Silent(_become_follower(n, m.term))
        ELSE IF n.role # "candidate" \/ m.term < n.term \/ ~m.granted THEN Silent(n)
        ELSE _maybe_win(i, counted)
  BY DEF _on_vote_reply
<1> HIDE DEF counted
<1>3. StaysAwake(i, _maybe_win(i, counted))
  BY <1>1, <1>4, SameWatchAwake, MaybeWinAwake
<1> QED BY <1>2, <1>3, SilentFollowerAwake, SilentAwake

LEMMA StartElectionAwake ==
    ASSUME NEW i \in Node, NEW n \in NodeState, Awake(n), n.role # "leader"
    PROVE  StaysAwake(i, start_election(i, n))
<1> DEFINE cand == [n EXCEPT !.term = @ + 1, !.role = "candidate", !.voted_for = i,
                             !.votes = {i}, !.timer = "election"]
           asked == {RequestVote(i, p, cand) : p \in cand.voters \ {i}}
           win == _maybe_win(i, cand)
<1>1. cand \in NodeState /\ Awake(cand)
  BY CandidateType DEF Awake, NodeState
<1>2. \A r \in asked : Calls(i, win.node, r)
  BY DEF Calls, RequestVote
<1> HIDE DEF asked
<1>3. start_election(i, n) =
        IF i \notin n.voters THEN Silent([n EXCEPT !.timer = "election"])
        ELSE Effect(win.node, asked \cup win.out, {})
  BY DEF start_election, asked
<1> HIDE DEF cand
<1>4. StaysAwake(i, win)
  BY <1>1, MaybeWinAwake
<1> HIDE DEF win
<1>5. StaysAwake(i, Effect(win.node, asked \cup win.out, {}))
  BY <1>2, <1>4 DEF StaysAwake, Effect
<1>6. StaysAwake(i, Silent([n EXCEPT !.timer = "election"]))
  BY RearmedAwake, SilentAwake
<1> QED BY <1>3, <1>5, <1>6

LEMMA HeartbeatTimeoutAwake ==
    ASSUME NEW i \in Node, NEW n \in NodeState, Awake(n), n.role = "leader"
    PROVE  StaysAwake(i, HeartbeatTimeout(i, n))
<1>1. Awake([n EXCEPT !.timer = "heartbeat"])
  BY DEF Awake, NodeState
<1> QED BY <1>1, SendsNoCalls DEF HeartbeatTimeout, StaysAwake, Effect

LEMMA ClientCommandAwake ==
    ASSUME NEW i \in Node, NEW n \in NodeState, Awake(n), NEW c \in Client, NEW r \in Nat
    PROVE  StaysAwake(i, client_command(i, n, c, r))
<1> DEFINE asked == [n EXCEPT !.client_index[c] = r]
           m == AppendToLog(i, asked, ClientCommand(c, r))
<1>1. asked \in NodeState
  BY IndexedType
<1>4. SameWatch(n, asked)
  BY DEF SameWatch, NodeState
<1> HIDE DEF asked
<1>2. Awake(m)
  BY <1>1, <1>4, AppendToLogStanding, SameWatchAwake
<1> HIDE DEF m
<1>3. StaysAwake(i, Effect(m, _broadcast_heartbeats(i, m), {}))
  BY <1>2, SendsNoCalls DEF StaysAwake, Effect
<1> QED BY <1>3, SilentAwake DEF client_command, m, asked

LEMMA ChangeConfigAwake ==
    ASSUME NEW i \in Node, NEW n \in NodeState, Awake(n), NEW V \in SUBSET Node
    PROVE  StaysAwake(i, change_config(i, n, V))
<1> DEFINE grown == AppendToLog(i, n, encode_config(V))
           m == _adopt_config(grown, V, last_log_index(grown))
<1>1. grown \in NodeState /\ SameWatch(n, grown)
  BY AppendToLogType, AppendToLogStanding DEF encode_config, Command
<1> HIDE DEF grown
<1>2. SameWatch(grown, m)
  BY <1>1 DEF SameWatch, _adopt_config, NodeState
<1>3. Awake(m)
  BY <1>1, <1>2, SameWatchAwake
<1> HIDE DEF m
<1>4. StaysAwake(i, Effect(m, _broadcast_heartbeats(i, m), {}))
  BY <1>3, SendsNoCalls DEF StaysAwake, Effect
<1> QED BY <1>4 DEF change_config, m, grown

LEMMA RequestReadAwake ==
    ASSUME NEW i \in Node, NEW n \in NodeState, Awake(n), NEW c \in Client, NEW r \in Nat,
           n.role = "leader"
    PROVE  StaysAwake(i, request_read(i, n, c, r))
<1> DEFINE p == [id |-> n.next_read_id, command |-> ClientCommand(c, r),
                 index |-> n.commit_index, acks |-> {i}]
           asked == [n EXCEPT !.next_read_id = @ + 1, !.pending_reads = @ \cup {p}]
           done == _try_serve_read(asked, p)
           sent == {ReadHeartbeat(i, q, n, p.id) : q \in n.voters \ {i}}
<1>1. asked \in NodeState
  BY RequestedType
<1>2. SameWatch(n, asked) /\ SameStanding(n, asked)
  BY DEF SameWatch, SameStanding, NodeState
<1> HIDE DEF asked, p
<1>3. SameStanding(asked, done.node) /\ SameWatch(asked, done.node)
  BY <1>1, TryServeReadStanding, TryServeReadAwake
<1> HIDE DEF done
<1>4. Awake(done.node) /\ done.node.term = n.term /\ done.node.role = "leader"
  BY <1>2, <1>3, SameWatchAwake DEF SameStanding
<1>5. \A r2 \in sent : Calls(i, done.node, r2)
  BY <1>4 DEF Calls, ReadHeartbeat
<1> HIDE DEF sent
<1>6. StaysAwake(i, Effect(done.node, sent, done.reported))
  BY <1>4, <1>5 DEF StaysAwake, Effect
<1> QED BY <1>6 DEF request_read, sent, done, asked, p

\* A crashed server waits for nothing; a restarted one follows.
LEMMA PauseSleeps ==
    ASSUME NEW n \in NodeState
    PROVE  ~pause(n).alive /\ pause(n).timer = "none" /\ pause(n).role = "follower"
<1> DEFINE m == [Restore(n, n.snapshot) EXCEPT
                  !.alive = FALSE, !.role = "follower", !.timer = "none",
                  !.next_index = [p \in Node |-> 1], !.match_index = [p \in Node |-> 0],
                  !.votes = {}, !.client_index = [c \in Client |-> -1],
                  !.pending_reads = {}, !.committed_this_term = FALSE]
<1>1. m \in NodeState
  BY CrashedType
<1>2. m.alive = FALSE /\ m.timer = "none" /\ m.role = "follower"
  BY DEF Restore, NodeState
<1>3. pause(n) = _rebuild_config(m)
  BY DEF pause
<1> HIDE DEF m
<1> QED BY <1>1, <1>2, <1>3, RebuildConfigStanding DEF SameWatch

LEMMA ResumeWakes ==
    ASSUME NEW n \in NodeState, n.role = "follower"
    PROVE  Awake(resume(n))
BY DEF Awake, resume, NodeState

---------------------------------------------------------------------------
(* Logs. *)
---------------------------------------------------------------------------
(* Reading and cutting a log that starts at index 1. *)

\* One entry more.
Extends(log, e, new) ==
    /\ Len(new) = Len(log) + 1
    /\ new[Len(log) + 1] = e
    /\ \A j \in 1..Len(log) : new[j] = log[j]

LEMMA AppendedExtends ==
    ASSUME NEW log \in Seq(Entry), NEW e \in Entry
    PROVE  Append(log, e) \in Seq(Entry) /\ Extends(log, e, Append(log, e))
<1>1. Len(Append(log, e)) = Len(log) + 1
  OBVIOUS
<1>2. Append(log, e)[Len(log) + 1] = e
  OBVIOUS
<1>3. \A j \in 1..Len(log) : Append(log, e)[j] = log[j]
  OBVIOUS
<1> QED BY <1>1, <1>2, <1>3 DEF Extends

LEMMA Joined ==
    ASSUME NEW T, NEW a \in Seq(T), NEW b \in Seq(T)
    PROVE  /\ a \o b \in Seq(T)
           /\ Len(a \o b) = Len(a) + Len(b)
           /\ \A k \in 1..Len(a) : (a \o b)[k] = a[k]
           /\ \A k \in 1..Len(b) : (a \o b)[Len(a) + k] = b[k]
OBVIOUS

LEMMA BareReads ==
    ASSUME NEW n \in NodeState, Bare(n), NEW k \in Int
    PROVE  /\ base_index(n) = 0
           /\ base_term(n) = 0
           /\ last_log_index(n) = Len(n.log)
           /\ _phys(n, k) = k - 1
<1>1. Len(n.log) \in Nat
  BY DEF NodeState
<1> QED BY <1>1 DEF Bare, NoSnapshot, base_index, base_term, last_log_index, _phys

LEMMA BareLast ==
    ASSUME NEW n \in NodeState, Bare(n)
    PROVE  last_log_index(n) = Len(n.log)
<1>1. 0 \in Int
  OBVIOUS
<1> QED BY <1>1, BareReads

LEMMA BareEntry ==
    ASSUME NEW n \in NodeState, Bare(n), NEW k \in 1..Len(n.log)
    PROVE  entry_at(n, k) = n.log[k] /\ term_at(n, k) = n.log[k].term
<1>1. Len(n.log) \in Nat /\ k \in Int
  BY DEF NodeState
<1>2. base_index(n) = 0 /\ _phys(n, k) = k - 1
  BY <1>1, BareReads
<1> QED BY <1>1, <1>2 DEF entry_at, term_at

LEMMA BareBottom ==
    ASSUME NEW n \in NodeState, Bare(n)
    PROVE  term_at(n, 0) = 0
<1>1. base_index(n) = 0 /\ base_term(n) = 0
  BY BareReads
<1> QED BY <1>1 DEF term_at

LEMMA BareLastTerm ==
    ASSUME NEW n \in NodeState, Bare(n)
    PROVE  term_at(n, last_log_index(n)) = LastTerm(n.log)
<1>1. n.log \in Seq(Entry) /\ Len(n.log) \in Nat
  BY DEF NodeState
<1>0. last_log_index(n) = Len(n.log)
  BY BareReads
<1>2. CASE n.log = <<>>
  <2>1. last_log_index(n) = 0
    BY <1>0, <1>2
  <2> QED BY <1>2, <2>1, BareBottom DEF LastTerm
<1>3. CASE n.log # <<>>
  <2>1. Len(n.log) \in 1..Len(n.log)
    BY <1>1, <1>3
  <2> QED BY <1>0, <1>3, <2>1, BareEntry DEF LastTerm
<1> QED BY <1>2, <1>3

LEMMA BareSuffix ==
    ASSUME NEW n \in NodeState, Bare(n), NEW k \in 0..Len(n.log)
    PROVE  /\ Len(log_suffix(n, k + 1)) = Len(n.log) - k
           /\ \A j \in 1..(Len(n.log) - k) : log_suffix(n, k + 1)[j] = n.log[k + j]
<1>1. n.log \in Seq(Entry) /\ Len(n.log) \in Nat
  BY DEF NodeState
<1>2. _phys(n, k + 1) = k
  BY <1>1, BareReads
<1>3. log_suffix(n, k + 1) = SubSeq(n.log, k + 1, Len(n.log))
  BY <1>1, <1>2 DEF log_suffix
<1>4. Len(SubSeq(n.log, k + 1, Len(n.log))) = Len(n.log) - k
  BY <1>1
<1>5. \A j \in 1..(Len(n.log) - k) : SubSeq(n.log, k + 1, Len(n.log))[j] = n.log[k + j]
  BY <1>1
<1> QED BY <1>3, <1>4, <1>5

LEMMA BareCut ==
    ASSUME NEW n \in NodeState, Bare(n), NEW k \in 1..Len(n.log)
    PROVE  DelFrom(n.log, _phys(n, k)) = SubSeq(n.log, 1, k - 1)
<1>1. n.log \in Seq(Entry) /\ Len(n.log) \in Nat
  BY DEF NodeState
<1>2. _phys(n, k) = k - 1
  BY <1>1, BareReads
<1>3. SliceOffset(n.log, k - 1) = k - 1
  BY <1>1 DEF SliceOffset
<1> QED BY <1>2, <1>3 DEF DelFrom

---------------------------------------------------------------------------
(* Commit and apply. *)

LEMMA SetCommitIndexApplies ==
    ASSUME SnapshotThreshold = 0, NEW n \in NodeState, Bare(n), Applied(n),
           NEW index \in Nat, index <= Len(n.log)
    PROVE  LET m == _set_commit_index(n, index)
           IN  /\ m \in NodeState
               /\ m = [n EXCEPT !.commit_index = Larger(n.commit_index, index),
                                !.machine = m.machine]
               /\ Applied(m)
<1> DEFINE base == last_applied(n)
           new == [k \in 1..(index - base) |-> entry_at(n, base + k)]
           m == _set_commit_index(n, index)
<1>1. /\ n.log \in Seq(Entry) /\ Len(n.log) \in Nat
      /\ n.machine \in Seq(Entry) /\ n.commit_index \in Nat
      /\ base = n.commit_index
  BY DEF NodeState, Applied, last_applied
<1>2. m \in NodeState
  BY SetCommitIndexType
<1>3. CASE index <= n.commit_index
  <2>1. m = n /\ Larger(n.commit_index, index) = n.commit_index
    BY <1>1, <1>3 DEF _set_commit_index, Larger
  <2>2. n = [n EXCEPT !.commit_index = n.commit_index, !.machine = n.machine]
    BY DEF NodeState
  <2> QED BY <1>2, <2>1, <2>2
<1>4. CASE index > n.commit_index
  <2> DEFINE p == [n EXCEPT !.commit_index = index, !.machine = @ \o new]
  <2>1. _maybe_compact(p) = p
    BY DEF _maybe_compact
  <2>2. m = p
    BY <1>1, <1>4, <2>1 DEF _set_commit_index
  <2>3. \A k \in 1..(index - base) : new[k] = n.log[base + k]
    BY <1>1, <1>4, BareEntry
  <2>4. new \in Seq(Entry) /\ Len(new) = index - base
    <3>1. index - base \in Nat
      BY <1>1, <1>4
    <3>2. \A k \in 1..(index - base) : entry_at(n, base + k) \in Entry
      BY <1>1, LogReads
    <3> QED BY <3>1, <3>2
  <2> HIDE DEF new
  <2>5. /\ Len(n.machine \o new) = index
        /\ \A k \in 1..index : (n.machine \o new)[k] = n.log[k]
    <3> HIDE DEF p, m
    <3> DEFINE both == n.machine \o new
    <3>1. /\ Len(both) = Len(n.machine) + Len(new)
          /\ \A k \in 1..Len(n.machine) : both[k] = n.machine[k]
          /\ \A k \in 1..Len(new) : both[Len(n.machine) + k] = new[k]
      <4>0. n.machine \in Seq(Entry) /\ new \in Seq(Entry)
        BY <1>1, <2>4
      <4>1. Len(both) = Len(n.machine) + Len(new)
        BY <4>0
      <4>2. \A k \in 1..Len(n.machine) : both[k] = n.machine[k]
        BY <4>0
      <4>3. \A k \in 1..Len(new) : both[Len(n.machine) + k] = new[k]
        BY <4>0
      <4>4. \A k \in 1..Len(new) : both[Len(n.machine) + k] = new[k]
        BY <4>0, Joined
      <4> QED BY <4>1, <4>2, <4>3
    <3>2. Len(n.machine) = base /\ \A k \in 1..base : n.machine[k] = n.log[k]
      BY <1>1 DEF Applied
    <3> HIDE DEF both, base
    <3>3. Len(both) = index
      BY <1>1, <2>4, <3>1, <3>2
    <3>4. ASSUME NEW k \in 1..index PROVE both[k] = n.log[k]
      <4>1. CASE k <= base
        BY <1>1, <3>1, <3>2, <4>1
      <4>2. CASE k > base
        <5>1. k - base \in 1..Len(new) /\ base + (k - base) = k
          BY <1>1, <2>4, <4>2
        <5>2. both[k] = new[k - base]
          BY <2>4, <3>1, <3>2, <5>1
        <5>3. new[k - base] = n.log[k]
          BY <2>3, <2>4, <5>1
        <5> QED BY <5>2, <5>3
      <4> QED BY <1>1, <4>1, <4>2
    <3> QED BY <3>3, <3>4 DEF both
  <2>6. p.machine = n.machine \o new /\ p.commit_index = index /\ p.log = n.log
    BY DEF NodeState
  <2>7. Applied(p)
    BY <1>1, <2>5, <2>6 DEF Applied
  <2>8. Larger(n.commit_index, index) = index
    BY <1>1, <1>4 DEF Larger
  <2>9. p = [n EXCEPT !.commit_index = index, !.machine = p.machine]
    BY <2>6
  <2> QED BY <1>2, <2>2, <2>7, <2>8, <2>9
<1> QED BY <1>1, <1>3, <1>4

---------------------------------------------------------------------------
(***************************************************************************)
(* The loop over the entries of an AppendEntries.  The log is left as it   *)
(* is if it has an entry of the same term at every index; otherwise it is  *)
(* cut at the first index c where it has another one or none, and the rest *)
(* of the entries is appended.                                             *)
(***************************************************************************)
Agrees(log, prev, entries, k) ==
    prev + k <= Len(log) /\ \A j \in 1..k : log[prev + j].term = entries[j].term

Departs(log, prev, entries, c) ==
    /\ Agrees(log, prev, entries, c - 1)
    /\ prev + c <= Len(log) => log[prev + c].term # entries[c].term

Replaced(log, prev, entries, c, k, new) ==
    /\ Departs(log, prev, entries, c)
    /\ Len(new) = prev + k
    /\ \A j \in 1..(prev + c - 1) : new[j] = log[j]
    /\ \A j \in c..k : new[prev + j] = entries[j]

\* The log new is what is left of log after k turns.
Taken(log, prev, entries, k, new) ==
    \/ new = log /\ Agrees(log, prev, entries, k)
    \/ \E c \in 1..k : Replaced(log, prev, entries, c, k, new)

\* The log after a turn for entry e at the given index.
AfterTurn(log, index, e) ==
    IF index > Len(log) THEN Append(log, e)
    ELSE IF log[index].term = e.term THEN log
    ELSE Append(SubSeq(log, 1, index - 1), e)

\* What the loop does not touch.
SameApartFromLog(n, p) ==
    /\ p.term = n.term /\ p.role = n.role /\ p.alive = n.alive /\ p.timer = n.timer
    /\ p.snapshot = n.snapshot /\ p.commit_index = n.commit_index /\ p.machine = n.machine

LEMMA AdoptKeepsLog ==
    ASSUME NEW n \in NodeState, NEW V, NEW k
    PROVE  SameApartFromLog(n, _adopt_config(n, V, k)) /\ _adopt_config(n, V, k).log = n.log
BY DEF _adopt_config, SameApartFromLog, NodeState

LEMMA RebuildKeepsLog ==
    ASSUME NEW n \in NodeState
    PROVE  SameApartFromLog(n, _rebuild_config(n)) /\ _rebuild_config(n).log = n.log
BY AdoptKeepsLog DEF _rebuild_config

LEMMA LogOfTurn ==
    ASSUME NEW n \in NodeState, Bare(n), NEW index \in Nat \ {0}, NEW e \in Entry
    PROVE  LET p == TakeEntry(n, index, e)
           IN  /\ p \in NodeState
               /\ SameApartFromLog(n, p)
               /\ p.log = AfterTurn(n.log, index, e)
<1> DEFINE present == last_log_index(n) >= index
           cut == [n EXCEPT !.log = DelFrom(@, _phys(n, index))]
           room == IF present THEN CheckConfig(cut, index) ELSE n
           appended == [room EXCEPT !.log = Append(@, e)]
           p == TakeEntry(n, index, e)
<1>1. n.log \in Seq(Entry) /\ Len(n.log) \in Nat
  BY DEF NodeState
<1>0. last_log_index(n) = Len(n.log)
  BY BareReads
<1>2. present <=> ~(index > Len(n.log))
  BY <1>0, <1>1
<1>3. p \in NodeState
  BY TakeEntryType
<1>4. present => Conflicts(n, index, e) = (n.log[index].term # e.term)
  <2> SUFFICES ASSUME present PROVE Conflicts(n, index, e) = (n.log[index].term # e.term)
    OBVIOUS
  <2>1. index \in 1..Len(n.log)
    BY <1>1, <1>2
  <2> QED BY <2>1, BareEntry DEF Conflicts
<1>5. /\ cut \in NodeState
      /\ SameApartFromLog(n, cut)
      /\ present => cut.log = SubSeq(n.log, 1, index - 1)
  <2>1. _phys(n, index) \in Int
    BY LogReads
  <2>2. DelFrom(n.log, _phys(n, index)) \in Seq(Entry)
    BY <1>1, <2>1, Slices
  <2>3. cut \in NodeState /\ SameApartFromLog(n, cut)
    BY <2>2 DEF NodeState, SameApartFromLog
  <2>4. cut.log = DelFrom(n.log, _phys(n, index))
    BY DEF NodeState
  <2>5. ASSUME present PROVE DelFrom(n.log, _phys(n, index)) = SubSeq(n.log, 1, index - 1)
    <3>1. index \in 1..Len(n.log)
      BY <1>1, <1>2, <2>5
    <3> QED BY <3>1, BareCut
  <2> QED BY <2>3, <2>4, <2>5
<1> HIDE DEF cut
<1>6. /\ room \in NodeState
      /\ SameApartFromLog(n, room)
      /\ room.log = IF present THEN SubSeq(n.log, 1, index - 1) ELSE n.log
  <2>1. /\ CheckConfig(cut, index) \in NodeState
        /\ SameApartFromLog(cut, CheckConfig(cut, index))
        /\ CheckConfig(cut, index).log = cut.log
    BY <1>5, RebuildKeepsLog, RebuildConfigType DEF CheckConfig, SameApartFromLog
  <2>2. CASE present
    BY <1>5, <2>1, <2>2 DEF SameApartFromLog
  <2>3. CASE ~present
    BY <2>3 DEF SameApartFromLog
  <2> QED BY <2>2, <2>3
<1> HIDE DEF room
<1>7. /\ appended \in NodeState
      /\ SameApartFromLog(n, appended)
      /\ appended.log = Append(room.log, e)
  <2>0. room \in NodeState
    BY <1>6
  <2>1. Append(room.log, e) \in Seq(Entry)
    BY <2>0 DEF NodeState
  <2>2. appended \in NodeState /\ appended.log = Append(room.log, e)
    BY <2>0, <2>1 DEF NodeState
  <2>3. SameApartFromLog(room, appended)
    BY <2>0 DEF SameApartFromLog, NodeState
  <2> QED BY <1>6, <2>2, <2>3 DEF SameApartFromLog
<1> HIDE DEF appended
<1> DEFINE adopted == _adopt_config(appended, e.command.voters, index)
<1>8. SameApartFromLog(n, adopted) /\ adopted.log = appended.log
  <2>1. SameApartFromLog(appended, adopted) /\ adopted.log = appended.log
    BY <1>7, AdoptKeepsLog
  <2> HIDE DEF adopted
  <2> QED BY <1>7, <2>1 DEF SameApartFromLog
<1>9. p = IF present /\ ~Conflicts(n, index, e) THEN n
          ELSE IF IsConfig(e.command) THEN adopted ELSE appended
  BY DEF TakeEntry, appended, room, cut
<1> HIDE DEF p, present, adopted
<1>10. SameApartFromLog(n, p)
  BY <1>7, <1>8, <1>9 DEF SameApartFromLog
<1>11. p.log = IF present /\ ~Conflicts(n, index, e) THEN n.log ELSE Append(room.log, e)
  BY <1>7, <1>8, <1>9
<1> QED BY <1>2, <1>3, <1>4, <1>6, <1>10, <1>11 DEF p, AfterTurn

\* One turn of the loop, seen from the log it started with.
LEMMA TakenTurn ==
    ASSUME NEW log \in Seq(Entry), NEW prev \in Nat, prev <= Len(log),
           NEW entries \in Seq(Entry), NEW k \in 1..Len(entries), NEW x \in Seq(Entry),
           Taken(log, prev, entries, k - 1, x), NEW new,
           new = AfterTurn(x, prev + k, entries[k])
    PROVE  Taken(log, prev, entries, k, new)
<1> DEFINE e == entries[k]
           index == prev + k
<1>1. e \in Entry /\ Len(log) \in Nat /\ Len(x) \in Nat /\ k \in Nat /\ index \in Nat \ {0}
  OBVIOUS
<1>2. CASE x = log /\ Agrees(log, prev, entries, k - 1)
  <2>1. CASE index > Len(log)
    <3>1. Len(log) = prev + k - 1 /\ new = Append(log, e)
      BY <1>1, <1>2, <2>1 DEF Agrees, AfterTurn
    <3>2. Len(new) = prev + k /\ new[index] = e /\ \A j \in 1..(prev + k - 1) : new[j] = log[j]
      <4>1. index = Len(log) + 1
        BY <1>1, <3>1
      <4>0. log \in Seq(Entry) /\ e \in Entry /\ new = Append(log, e)
        BY <1>1, <3>1
      <4> HIDE DEF e, index
      <4>2. Extends(log, e, new)
        BY <4>0, AppendedExtends
      <4> QED BY <3>1, <4>1, <4>2 DEF Extends
    <3>3. Departs(log, prev, entries, k)
      BY <1>1, <1>2, <2>1 DEF Departs
    <3>4. Replaced(log, prev, entries, k, k, new)
      BY <1>1, <3>2, <3>3 DEF Replaced
    <3> QED BY <1>1, <3>4 DEF Taken
  <2>2. CASE index <= Len(log) /\ log[index].term = e.term
    <3>1. new = log
      BY <1>1, <1>2, <2>2 DEF AfterTurn
    <3>2. Agrees(log, prev, entries, k)
      BY <1>1, <1>2, <2>2 DEF Agrees
    <3> QED BY <3>1, <3>2 DEF Taken
  <2>3. CASE index <= Len(log) /\ log[index].term # e.term
    <3> DEFINE left == SubSeq(log, 1, index - 1)
    <3>1. new = Append(left, e)
      <4>1. ~(prev + k > Len(x)) /\ x[prev + k].term # entries[k].term
        BY <1>1, <1>2, <2>3
      <4> QED BY <1>2, <4>1 DEF AfterTurn
    <3>2. left \in Seq(Entry) /\ Len(left) = index - 1 /\ \A j \in 1..(index - 1) : left[j] = log[j]
      BY <1>1, <2>3
    <3> HIDE DEF left
    <3>3. Len(new) = prev + k /\ new[index] = e /\ \A j \in 1..(prev + k - 1) : new[j] = log[j]
      <4>1. index = Len(left) + 1
        BY <1>1, <3>2
      <4>0. left \in Seq(Entry) /\ e \in Entry /\ new = Append(left, e)
        BY <1>1, <3>1, <3>2
      <4> HIDE DEF e, index
      <4>6. Extends(left, e, new)
        BY <4>0, AppendedExtends
      <4>2. Len(new) = Len(left) + 1
        BY <4>6 DEF Extends
      <4>3. new[Len(left) + 1] = e
        BY <4>6 DEF Extends
      <4>4. \A j \in 1..Len(left) : new[j] = left[j]
        BY <4>6 DEF Extends
      <4>5. Len(left) = prev + k - 1
        BY <3>2 DEF index
      <4> QED BY <3>2, <4>1, <4>2, <4>3, <4>4, <4>5 DEF index
    <3>4. Departs(log, prev, entries, k)
      BY <1>1, <1>2, <2>3 DEF Departs
    <3>5. Replaced(log, prev, entries, k, k, new)
      BY <1>1, <3>3, <3>4 DEF Replaced
    <3> QED BY <1>1, <3>5 DEF Taken
  <2> QED BY <1>1, <2>1, <2>2, <2>3
<1>3. ASSUME NEW c \in 1..(k - 1), Replaced(log, prev, entries, c, k - 1, x)
      PROVE  Taken(log, prev, entries, k, new)
  <2>1. Len(x) = prev + k - 1 /\ new = Append(x, e)
    BY <1>1, <1>3 DEF Replaced, AfterTurn
  <2>2. Len(new) = prev + k /\ new[index] = e /\ \A j \in 1..(prev + k - 1) : new[j] = x[j]
    <3>1. x \in Seq(Entry) /\ e \in Entry
      BY <1>1
    <3>2. Len(x) + 1 = prev + k /\ index = Len(x) + 1
      BY <1>1, <2>1
    <3>3. new = Append(x, e)
      BY <2>1
    <3> HIDE DEF e, index
    <3>4. Extends(x, e, new)
      BY <3>1, <3>3, AppendedExtends
    <3> QED BY <2>1, <3>2, <3>4 DEF Extends
  <2>3. \A j \in 1..(prev + c - 1) : new[j] = log[j]
    BY <1>1, <1>3, <2>2 DEF Replaced
  <2>4. ASSUME NEW j \in c..k PROVE new[prev + j] = entries[j]
    <3>1. CASE j = k
      BY <2>2, <3>1
    <3>2. CASE j # k
      <4>1. prev + j \in 1..(prev + k - 1) /\ j \in c..(k - 1)
        BY <1>1, <3>2
      <4> QED BY <1>3, <2>2, <4>1 DEF Replaced
    <3> QED BY <3>1, <3>2
  <2>5. Replaced(log, prev, entries, c, k, new)
    BY <1>3, <2>2, <2>3, <2>4 DEF Replaced
  <2>6. c \in 1..k
    BY <1>1
  <2> QED BY <2>5, <2>6 DEF Taken
<1> QED BY <1>2, <1>3 DEF Taken

LEMMA LogOfLoop ==
    ASSUME NEW n \in NodeState, Bare(n), NEW prev \in 0..Len(n.log), NEW entries \in Seq(Entry)
    PROVE  LET p == TakeEntries(n, prev, entries)
           IN  /\ p \in NodeState
               /\ SameApartFromLog(n, p)
               /\ Taken(n.log, prev, entries, Len(entries), p.log)
<1> DEFINE S == [k \in 0..Len(entries) |->
                   {x \in NodeState : /\ SameApartFromLog(n, x)
                                      /\ Taken(n.log, prev, entries, k, x.log)}]
<1>1. n.log \in Seq(Entry) /\ Len(n.log) \in Nat /\ prev \in Nat /\ Len(entries) \in Nat
  BY DEF NodeState
<1>2. n \in S[0]
  <2>1. Taken(n.log, prev, entries, 0, n.log)
    BY <1>1 DEF Taken, Agrees
  <2>2. SameApartFromLog(n, n)
    BY DEF SameApartFromLog
  <2> QED BY <1>1, <2>1, <2>2
<1>3. ASSUME NEW k \in 1..Len(entries), NEW s \in S[k - 1]
      PROVE  TakeEntry(s, prev + k, entries[k]) \in S[k]
  <2> DEFINE p == TakeEntry(s, prev + k, entries[k])
  <2>1. k - 1 \in 0..Len(entries) /\ k \in 0..Len(entries)
    BY <1>1
  <2>2. s \in NodeState /\ SameApartFromLog(n, s) /\ Taken(n.log, prev, entries, k - 1, s.log)
    BY <2>1
  <2>3. Bare(s)
    BY <2>2 DEF Bare, SameApartFromLog
  <2>4. prev + k \in Nat \ {0} /\ entries[k] \in Entry
    BY <1>1
  <2>5. /\ p \in NodeState
        /\ SameApartFromLog(s, p)
        /\ p.log = AfterTurn(s.log, prev + k, entries[k])
    BY <2>2, <2>3, <2>4, LogOfTurn
  <2> HIDE DEF p
  <2>6. s.log \in Seq(Entry)
    BY <2>2 DEF NodeState
  <2>7. Taken(n.log, prev, entries, k, p.log)
    <3>1. prev <= Len(n.log)
      BY <1>1
    <3> QED BY <1>1, <2>2, <2>5, <2>6, <3>1, TakenTurn
  <2>8. SameApartFromLog(n, p)
    BY <2>2, <2>5 DEF SameApartFromLog
  <2>9. p \in S[k]
    BY <2>1, <2>5, <2>7, <2>8
  <2> QED BY <2>9 DEF p
<1> DEFINE p == TakeEntries(n, prev, entries)
<1> HIDE DEF S
<1>4. p \in S[Len(entries)]
  BY <1>2, <1>3, TakeEntriesByTurns
<1> HIDE DEF p
<1>5. p \in NodeState /\ SameApartFromLog(n, p) /\ Taken(n.log, prev, entries, Len(entries), p.log)
  BY <1>1, <1>4 DEF S
<1> QED BY <1>5 DEF p

---------------------------------------------------------------------------
(***************************************************************************)
(* What a step of server i is to its log, seen from outside: n is its      *)
(* record before the step and e the effect.                                *)
(***************************************************************************)
InRange(n) == \A v \in Node : n.next_index[v] <= Len(n.log) + 1

\* What a handler relies on.
Ready(n) == Bare(n) /\ Applied(n) /\ (n.role = "leader" => InRange(n))

\* The log and what was applied of it are as they were.
Idles(n, p) ==
    /\ p.log = n.log /\ p.snapshot = n.snapshot
    /\ p.commit_index = n.commit_index /\ p.machine = n.machine

\* The server follows, or has its role, its term and its bookkeeping as before.
Remains(n, p) ==
    /\ n.term <= p.term
    /\ p.role # "follower" =>
          /\ p.role = n.role /\ p.term = n.term
          /\ p.match_index = n.match_index /\ p.client_index = n.client_index
          /\ p.role = "leader" => InRange(p)

\* A message r of a server that is now p: no request for votes, no
\* acknowledgement, and only a leader replicates and asks for ReadAcks.
Speaks(i, p, r) ==
    /\ r.src = i /\ r.dst # i /\ r.term = p.term
    /\ r.type \notin {"RequestVote", "InstallSnapshot"} /\ ~IsAck(r)
    /\ r.type \in {"AppendEntries", "ReadHeartbeat"} => p.role = "leader"
    /\ r.type = "AppendEntries" => StretchOf(p.log, r) /\ r.leader_commit = p.commit_index

Rests(i, n, e) ==
    /\ Idles(n, e.node)
    /\ Remains(n, e.node)
    /\ \A r \in e.out : Speaks(i, e.node, r) /\ ~IsGrant(r)

---------------------------------------------------------------------------
(* Messages. *)

LEMMA SendSpeaks ==
    ASSUME NEW i \in Node, NEW p \in Node, p # i, NEW n \in NodeState, Ready(n),
           n.role = "leader", NEW r, r = _send_append_entries(i, n, p)
    PROVE  Speaks(i, n, r) /\ ~IsGrant(r)
<1> DEFINE prev == n.next_index[p] - 1
           K == Len(n.log)
<1>1. n.log \in Seq(Entry) /\ K \in Nat /\ prev \in 0..K /\ prev \in Int
  <2>1. n.log \in Seq(Entry) /\ n.next_index[p] \in Nat \ {0}
    BY DEF NodeState
  <2>2. n.next_index[p] <= K + 1
    BY DEF Ready, InRange
  <2>3. K \in Nat
    BY <2>1
  <2> QED BY <2>1, <2>2, <2>3
<1>2. Bare(n)
  BY DEF Ready
<1>3. base_index(n) = 0
  BY <1>2, BareReads
<1> HIDE DEF prev
<1>4. r = AppendEntries(i, p, n, prev)
  BY <1>1, <1>3 DEF _send_append_entries, prev
<1>5. /\ r.type = "AppendEntries" /\ r.src = i /\ r.dst = p /\ r.term = n.term
      /\ r.prev_index = prev /\ r.prev_term = term_at(n, prev)
      /\ r.entries = log_suffix(n, prev + 1) /\ r.leader_commit = n.commit_index
  BY <1>4 DEF AppendEntries
<1>6. /\ Len(r.entries) = K - prev
      /\ \A j \in 1..(K - prev) : r.entries[j] = n.log[prev + j]
  BY <1>1, <1>2, <1>5, BareSuffix
<1>7. term_at(n, prev) = IF prev = 0 THEN 0 ELSE n.log[prev].term
  <2>1. CASE prev = 0
    BY <1>2, <2>1, BareBottom
  <2>2. CASE prev # 0
    <3>1. prev \in 1..Len(n.log)
      BY <1>1, <2>2
    <3> QED BY <1>2, <2>2, <3>1, BareEntry
  <2> QED BY <2>1, <2>2
<1>8. StretchOf(n.log, r)
  <2>1. Match(r) = K
    BY <1>1, <1>5, <1>6 DEF Match
  <2> QED BY <1>1, <1>5, <1>6, <1>7, <2>1 DEF StretchOf
<1> QED BY <1>5, <1>8 DEF Speaks, IsAck, IsGrant

LEMMA BroadcastSpeaks ==
    ASSUME NEW i \in Node, NEW n \in NodeState, Ready(n), n.role = "leader"
    PROVE  \A r \in _broadcast_heartbeats(i, n) : Speaks(i, n, r) /\ ~IsGrant(r)
<1>1. n.voters \subseteq Node
  BY DEF NodeState
<1> QED BY <1>1, SendSpeaks DEF _broadcast_heartbeats

\* Replies, but for acknowledgements and granted votes.
LEMMA RepliesSpeak ==
    ASSUME NEW i, NEW p, p # i, NEW n
    PROVE  /\ \A r : r = AppendReply(i, p, n, FALSE, 0) => Speaks(i, n, r) /\ ~IsGrant(r)
           /\ \A r, k : r = ReadAck(i, p, n, k) => Speaks(i, n, r) /\ ~IsGrant(r)
           /\ \A r, k : r = ReadHeartbeat(i, p, n, k) /\ n.role = "leader" =>
                            Speaks(i, n, r) /\ ~IsGrant(r)
BY DEF AppendReply, ReadAck, ReadHeartbeat, Speaks, IsAck, IsGrant

---------------------------------------------------------------------------
(* Handlers that leave the log alone. *)

LEMMA IdleIsReady ==
    ASSUME NEW n, NEW p, Ready(n), Idles(n, p), p.role = "leader" => InRange(p)
    PROVE  Ready(p)
BY DEF Ready, Idles, Bare, Applied

LEMMA SilentRests ==
    ASSUME NEW i, NEW n \in NodeState, NEW p, Idles(n, p), Remains(n, p)
    PROVE  Rests(i, n, Silent(p))
BY DEF Rests, Silent, Effect

LEMMA StaysSame ==
    ASSUME NEW n \in NodeState, Ready(n)
    PROVE  Idles(n, n) /\ Remains(n, n)
<1>1. n.term \in Nat
  BY DEF NodeState
<1> QED BY <1>1 DEF Idles, Remains, Ready

LEMMA FollowerIdles ==
    ASSUME NEW n \in NodeState, NEW t \in Nat, n.term <= t, NEW p, p = _become_follower(n, t)
    PROVE  /\ p \in NodeState
           /\ Idles(n, p) /\ Remains(n, p)
           /\ p.role = "follower" /\ p.term = t
<1>1. p \in NodeState
  BY BecomeFollowerType
<1>2. Idles(n, p) /\ p.role = "follower" /\ p.term = t
  BY DEF _become_follower, NodeState, Idles
<1> QED BY <1>1, <1>2 DEF Remains

LEMMA HeartbeatTimeoutRests ==
    ASSUME NEW i \in Node, NEW n \in NodeState, Ready(n), n.role = "leader"
    PROVE  Rests(i, n, HeartbeatTimeout(i, n))
<1> DEFINE p == [n EXCEPT !.timer = "heartbeat"]
<1>1. n.term \in Nat
  BY DEF NodeState
<1>2. /\ Idles(n, p) /\ p.term = n.term /\ p.role = n.role
      /\ p.match_index = n.match_index /\ p.client_index = n.client_index
      /\ p.next_index = n.next_index
  BY DEF Idles, NodeState
<1> HIDE DEF p
<1>3. Remains(n, p)
  BY <1>1, <1>2 DEF Remains, Ready, InRange, Idles
<1>4. \A r \in _broadcast_heartbeats(i, n) : Speaks(i, p, r) /\ ~IsGrant(r)
  BY <1>2, BroadcastSpeaks DEF Speaks, Idles
<1>5. HeartbeatTimeout(i, n) = Effect(p, _broadcast_heartbeats(i, n), {})
  BY DEF HeartbeatTimeout, p
<1> QED BY <1>2, <1>3, <1>4, <1>5 DEF Rests, Effect

LEMMA ReadHeartbeatRests ==
    ASSUME NEW i \in Node, NEW n \in NodeState, Ready(n), NEW m \in Message,
           m.type = "ReadHeartbeat", m.src # i
    PROVE  Rests(i, n, _on_read_heartbeat(i, n, m))
<1> DEFINE follow == IF m.term > n.term THEN _become_follower(n, m.term) ELSE n
           armed  == IF m.term >= n.term THEN [follow EXCEPT !.timer = "election"] ELSE follow
<1>1. m.term \in Nat /\ n.term \in Nat
  BY DEF Message, NodeState
<1>2. follow \in NodeState /\ Idles(n, follow) /\ Remains(n, follow)
  BY <1>1, FollowerIdles, StaysSame
<1> HIDE DEF follow
<1>3. Idles(n, armed) /\ Remains(n, armed)
  BY <1>2 DEF Idles, Remains, InRange, NodeState
<1> HIDE DEF armed
<1>4. _on_read_heartbeat(i, n, m) = Effect(armed, {ReadAck(i, m.src, armed, m.read_id)}, {})
  BY DEF _on_read_heartbeat, armed, follow
<1>5. \A r \in {ReadAck(i, m.src, armed, m.read_id)} : Speaks(i, armed, r) /\ ~IsGrant(r)
  BY RepliesSpeak
<1> QED BY <1>3, <1>4, <1>5 DEF Rests, Effect

LEMMA ServeRests ==
    ASSUME NEW n \in NodeState, Ready(n), NEW S,
           NEW p, p = [n EXCEPT !.pending_reads = S], NEW q
    PROVE  Idles(n, _try_serve_read(p, q).node) /\ Remains(n, _try_serve_read(p, q).node)
           /\ _try_serve_read(p, q).out = {}
<1> DEFINE done == [p EXCEPT !.pending_reads = @ \ {q}]
<1>1. n.term \in Nat
  BY DEF NodeState
<1>2. Idles(n, p) /\ Remains(n, p) /\ Idles(n, done) /\ Remains(n, done)
  BY <1>1 DEF Idles, Remains, Ready, InRange, NodeState
<1> HIDE DEF done
<1>3. _try_serve_read(p, q).node \in {p, done} /\ _try_serve_read(p, q).out = {}
  BY DEF _try_serve_read, Silent, Effect, done
<1> QED BY <1>2, <1>3

LEMMA ReadAckRests ==
    ASSUME NEW i \in Node, NEW n \in NodeState, Ready(n), NEW m \in Message, m.type = "ReadAck"
    PROVE  Rests(i, n, _on_read_ack(i, n, m))
<1> DEFINE p == CHOOSE q \in n.pending_reads : q.id = m.read_id
           acked == [p EXCEPT !.acks = @ \cup {m.src}]
           served == _try_serve_read([n EXCEPT !.pending_reads = (@ \ {p}) \cup {acked}], acked)
<1>1. m.term \in Nat /\ n.term \in Nat
  BY DEF Message, NodeState
<1>2. Idles(n, served.node) /\ Remains(n, served.node) /\ served.out = {}
  <2> HIDE DEF p, acked
  <2> QED BY ServeRests
<1> HIDE DEF served
<1>3. Rests(i, n, served)
  BY <1>2 DEF Rests
<1>4. m.term > n.term => Rests(i, n, Silent(_become_follower(n, m.term)))
  BY <1>1, FollowerIdles, SilentRests
<1>5. Rests(i, n, Silent(n))
  BY StaysSame, SilentRests
<1>6. _on_read_ack(i, n, m) = IF m.term > n.term THEN Silent(_become_follower(n, m.term))
        ELSE IF m.term # n.term \/ n.role # "leader"
                  \/ ~ \E q \in n.pending_reads : q.id = m.read_id
        THEN Silent(n) ELSE served
  BY DEF _on_read_ack, served, acked, p
<1> QED BY <1>3, <1>4, <1>5, <1>6

LEMMA RequestReadRests ==
    ASSUME NEW i \in Node, NEW n \in NodeState, Ready(n), n.role = "leader", NEW c, NEW r
    PROVE  Rests(i, n, request_read(i, n, c, r))
<1> DEFINE p == [id |-> n.next_read_id, command |-> ClientCommand(c, r),
                 index |-> n.commit_index, acks |-> {i}]
           asked == [n EXCEPT !.next_read_id = @ + 1, !.pending_reads = @ \cup {p}]
           done == _try_serve_read(asked, p)
           out == {ReadHeartbeat(i, q, n, p.id) : q \in n.voters \ {i}}
<1>1. n.term \in Nat
  BY DEF NodeState
<1>2. /\ Idles(n, asked) /\ asked.term = n.term /\ asked.role = n.role
      /\ asked.match_index = n.match_index /\ asked.client_index = n.client_index
      /\ asked.next_index = n.next_index
  <2> HIDE DEF p
  <2> QED BY DEF Idles, NodeState
<1>3. done.node \in {asked, [asked EXCEPT !.pending_reads = @ \ {p}]}
  <2> HIDE DEF p, asked
  <2> QED BY DEF _try_serve_read, Silent, Effect
<1>4. /\ Idles(n, done.node) /\ done.node.term = n.term /\ done.node.role = n.role
      /\ done.node.match_index = n.match_index /\ done.node.client_index = n.client_index
      /\ done.node.next_index = n.next_index
  <2>1. LET q == [asked EXCEPT !.pending_reads = @ \ {p}]
        IN  /\ Idles(n, q) /\ q.term = n.term /\ q.role = n.role
            /\ q.match_index = n.match_index /\ q.client_index = n.client_index
            /\ q.next_index = n.next_index
    <3> HIDE DEF p
    <3> QED BY DEF Idles, NodeState
  <2> HIDE DEF done, asked, p
  <2> QED BY <1>2, <1>3, <2>1
<1> HIDE DEF done, asked
<1>5. Remains(n, done.node)
  BY <1>1, <1>4 DEF Remains, Ready, InRange, Idles
<1>6. \A s \in out : Speaks(i, done.node, s) /\ ~IsGrant(s)
  <2> HIDE DEF p
  <2>1. \A s \in out : Speaks(i, n, s) /\ ~IsGrant(s)
    BY RepliesSpeak
  <2> QED BY <1>4, <2>1 DEF Speaks, Idles
<1>7. request_read(i, n, c, r) = Effect(done.node, out, done.reported)
  BY DEF request_read, done, asked
<1> HIDE DEF out, p
<1> QED BY <1>4, <1>5, <1>6, <1>7 DEF Rests, Effect

LEMMA ResumeRests ==
    ASSUME NEW i, NEW n \in NodeState, Ready(n)
    PROVE  Rests(i, n, Silent(resume(n)))
<1>1. n.term \in Nat
  BY DEF NodeState
<1>2. Idles(n, resume(n)) /\ Remains(n, resume(n))
  BY <1>1 DEF Idles, Remains, Ready, InRange, NodeState, resume
<1> QED BY <1>2, SilentRests

---------------------------------------------------------------------------
(* Handlers of elections. *)

\* The log of the candidate that asks with m is at least as up to date.
KnowsLess(log, m) ==
    \/ m.last_log_term > LastTerm(log)
    \/ m.last_log_term = LastTerm(log) /\ m.last_log_index >= Len(log)

\* The server answers a request for votes.
Votes(i, n, m, e) ==
    /\ Idles(n, e.node)
    /\ Remains(n, e.node)
    /\ \A r \in e.out : Speaks(i, e.node, r) /\
            (IsGrant(r) => r.dst = m.src /\ r.term = m.term /\ KnowsLess(n.log, m))

LEMMA RequestVoteVotes ==
    ASSUME NEW i \in Node, NEW n \in NodeState, Ready(n), NEW m \in Message,
           m.type = "RequestVote", m.src # i
    PROVE  Votes(i, n, m, _on_request_vote(i, n, m))
<1> DEFINE at == IF m.term > n.term THEN _become_follower(n, m.term) ELSE n
           granted == /\ m.term = at.term
                      /\ at.voted_for \in {None, m.src}
                      /\ UpToDate(at, m)
           after == IF granted THEN [at EXCEPT !.voted_for = m.src, !.timer = "election"] ELSE at
           reply == VoteReply(i, m.src, after, granted)
<1>1. m.term \in Nat /\ n.term \in Nat
  BY DEF Message, NodeState
<1>2. at \in NodeState /\ Idles(n, at) /\ Remains(n, at)
  BY <1>1, FollowerIdles, StaysSame
<1> HIDE DEF at
<1>3. granted => m.term = at.term /\ KnowsLess(n.log, m)
  <2>1. Bare(at) /\ at.log = n.log
    BY <1>2 DEF Ready, Bare, Idles
  <2>2. /\ last_log_index(at) = Len(n.log)
        /\ term_at(at, last_log_index(at)) = LastTerm(n.log)
    BY <1>2, <2>1, BareReads, BareLastTerm
  <2> QED BY <2>2 DEF UpToDate, KnowsLess
<1>4. Idles(n, after) /\ Remains(n, after) /\ after.term = at.term
  <2> HIDE DEF granted
  <2> QED BY <1>2 DEF Idles, Remains, InRange, NodeState
<1> HIDE DEF granted, after
<1>5. Speaks(i, after, reply) /\ (IsGrant(reply) => granted)
  <2>1. Speaks(i, after, reply)
    BY DEF VoteReply, Speaks, IsAck
  <2>2. reply.granted = granted
    BY DEF VoteReply
  <2> QED BY <2>1, <2>2 DEF IsGrant
<1>6. reply.dst = m.src /\ reply.term = after.term
  BY DEF VoteReply
<1>7. _on_request_vote(i, n, m) = Effect(after, {reply}, {})
  BY DEF _on_request_vote, after, granted, at
<1> HIDE DEF reply
<1> QED BY <1>3, <1>4, <1>5, <1>6, <1>7 DEF Votes, Effect

\* A new leader believes nothing of the others and knows its own log.
InOffice(i, p) ==
    /\ \A v \in Node : /\ p.next_index[v] = Len(p.log) + 1
                       /\ p.match_index[v] = IF v = i THEN Len(p.log) ELSE 0
    /\ \A k \in 1..Len(p.log) : p.log[k].command.client \in Client =>
            p.log[k].command.req <= p.client_index[p.log[k].command.client]

\* A request for votes, which describes the log of its candidate.
Asks(i, p, r) ==
    /\ r.type = "RequestVote" /\ r.src = i /\ r.dst # i /\ r.term = p.term
    /\ r.last_log_index = Len(p.log) /\ r.last_log_term = LastTerm(p.log)

\* The server stands for election, or has won it.
Competes(i, n, e) ==
    /\ Idles(n, e.node)
    /\ \/ e.node.term = n.term /\ n.role = "candidate" /\ e.node.role = "leader"
       \/ e.node.term = n.term + 1 /\ e.node.role \in {"candidate", "leader"}
    /\ e.node.role = "leader" => InOffice(i, e.node)
    /\ \A r \in e.out : (Speaks(i, e.node, r) \/ Asks(i, e.node, r)) /\ ~IsGrant(r)

LEMMA RebuiltIndexCovers ==
    ASSUME NEW n \in NodeState, NEW k \in 1..Len(n.log), n.log[k].command.client \in Client
    PROVE  n.log[k].command.req <= _rebuild_client_index(n)[n.log[k].command.client]
<1> DEFINE c == n.log[k].command.client
           at == {j \in 1..Len(n.log) : n.log[j].command.client = c}
           ids == {n.log[j].command.req : j \in at}
<1>1. n.log \in Seq(Entry) /\ Len(n.log) \in Nat
  BY DEF NodeState
<1>2. IsFiniteSet(at)
  <2>1. IsFiniteSet(1..Len(n.log))
    BY <1>1, FS_Interval
  <2> QED BY <2>1, FS_Subset
<1>3. ids \in SUBSET Nat
  <2>1. \A j \in 1..Len(n.log) : n.log[j] \in Entry
    BY <1>1
  <2> QED BY <2>1 DEF Entry, Command
<1>4. n.log[k].command.req \in ids
  OBVIOUS
<1> DEFINE req == [j \in at |-> n.log[j].command.req]
<1>5. IsFiniteSet(ids)
  <2>1. req \in Surjection(at, ids)
    BY DEF Surjection
  <2> HIDE DEF at, ids, req
  <2> QED BY <1>2, <2>1, FS_Surjection
<1> HIDE DEF ids
<1>6. n.log[k].command.req <= Maximum(ids)
  BY <1>3, <1>4, <1>5, MaximumIsGreatest
<1>7. _rebuild_client_index(n)[c] = Maximum(ids)
  BY <1>4 DEF _rebuild_client_index, ids, at
<1> QED BY <1>6, <1>7

LEMMA BecomeLeaderCompetes ==
    ASSUME NEW i \in Node, NEW n \in NodeState, Bare(n), Applied(n)
    PROVE  LET e == _become_leader(i, n)
           IN  /\ Idles(n, e.node) /\ e.node.term = n.term /\ e.node.role = "leader"
               /\ InOffice(i, e.node)
               /\ \A r \in e.out : Speaks(i, e.node, r) /\ ~IsGrant(r)
<1> DEFINE last == last_log_index(n)
           index == _rebuild_client_index(n)
           lead == [n EXCEPT !.role = "leader",
                             !.next_index = [p \in Node |-> last + 1],
                             !.match_index = [p \in Node |-> IF p = i THEN last ELSE 0],
                             !.committed_this_term = FALSE,
                             !.client_index = index,
                             !.timer = "heartbeat"]
<1>1. last = Len(n.log) /\ last \in Nat
  BY BareReads, LogReads
<1>2. index \in [Client -> Int]
  BY RebuildClientIndexType
<1> HIDE DEF last, index
<1>3. lead \in NodeState
  <2>1. /\ [p \in Node |-> last + 1] \in [Node -> Nat \ {0}]
        /\ [p \in Node |-> IF p = i THEN last ELSE 0] \in [Node -> Nat]
    BY <1>1
  <2> QED BY <1>2, <2>1 DEF NodeState, Role
<1>4. /\ Idles(n, lead) /\ lead.term = n.term /\ lead.role = "leader"
      /\ lead.next_index = [p \in Node |-> last + 1]
      /\ lead.match_index = [p \in Node |-> IF p = i THEN last ELSE 0]
      /\ lead.client_index = index
  BY DEF Idles, NodeState
<1> HIDE DEF lead
<1>5. InOffice(i, lead)
  <2>1. lead.log = n.log
    BY <1>4 DEF Idles
  <2>2. \A v \in Node : /\ lead.next_index[v] = last + 1
                        /\ lead.match_index[v] = IF v = i THEN last ELSE 0
    BY <1>4
  <2>3. \A k \in 1..Len(n.log) : n.log[k].command.client \in Client =>
            n.log[k].command.req <= index[n.log[k].command.client]
    BY RebuiltIndexCovers DEF index
  <2> QED BY <1>1, <1>4, <2>1, <2>2, <2>3 DEF InOffice
<1>6. Ready(lead)
  <2>1. n.log \in Seq(Entry) /\ Len(n.log) \in Nat
    BY DEF NodeState
  <2> QED BY <1>1, <1>4, <2>1 DEF Ready, Bare, Applied, InRange, Idles
<1>7. _become_leader(i, n) = Effect(lead, _broadcast_heartbeats(i, lead), {})
  BY DEF _become_leader, lead, last, index
<1> QED BY <1>3, <1>4, <1>5, <1>6, <1>7, BroadcastSpeaks DEF Effect

LEMMA MaybeWinCompetes ==
    ASSUME NEW i \in Node, NEW n \in NodeState, Bare(n), Applied(n), n.role = "candidate"
    PROVE  LET e == _maybe_win(i, n)
           IN  /\ Idles(n, e.node) /\ e.node.term = n.term
               /\ \/ e = Silent(n)
                  \/ e.node.role = "leader" /\ InOffice(i, e.node)
               /\ \A r \in e.out : Speaks(i, e.node, r) /\ ~IsGrant(r)
<1>1. CASE IsMajority(n.votes, n.voters)
  <2>1. _maybe_win(i, n) = _become_leader(i, n)
    BY <1>1 DEF _maybe_win
  <2> QED BY <2>1, BecomeLeaderCompetes
<1>2. CASE ~IsMajority(n.votes, n.voters)
  <2>1. _maybe_win(i, n) = Silent(n)
    BY <1>2 DEF _maybe_win
  <2> QED BY <2>1 DEF Silent, Effect, Idles
<1> QED BY <1>1, <1>2

LEMMA VoteReplyCompetes ==
    ASSUME NEW i \in Node, NEW n \in NodeState, Ready(n), NEW m \in Message, m.type = "VoteReply"
    PROVE  \/ Rests(i, n, _on_vote_reply(i, n, m))
           \/ Competes(i, n, _on_vote_reply(i, n, m))
<1> DEFINE counted == [n EXCEPT !.votes = @ \cup {m.src}]
           win == _maybe_win(i, counted)
<1>1. m.term \in Nat /\ m.src \in Node /\ n.term \in Nat
  BY DEF Message, NodeState
<1>2. /\ counted \in NodeState /\ Idles(n, counted) /\ Remains(n, counted)
      /\ counted.term = n.term /\ counted.role = n.role
  <2>1. /\ counted \in NodeState /\ Idles(n, counted)
        /\ counted.term = n.term /\ counted.role = n.role
        /\ counted.next_index = n.next_index /\ counted.match_index = n.match_index
        /\ counted.client_index = n.client_index
    BY <1>1 DEF NodeState, Idles
  <2> HIDE DEF counted
  <2> QED BY <1>1, <2>1 DEF Idles, Remains, Ready, InRange
<1> HIDE DEF counted
<1>3. n.role = "candidate" => Rests(i, n, win) \/ Competes(i, n, win)
  <2> SUFFICES ASSUME n.role = "candidate" PROVE Rests(i, n, win) \/ Competes(i, n, win)
    OBVIOUS
  <2>1. Bare(counted) /\ Applied(counted)
    BY <1>2 DEF Ready, Bare, Applied, Idles
  <2>2. /\ Idles(counted, win.node) /\ win.node.term = counted.term
        /\ \/ win = Silent(counted)
           \/ win.node.role = "leader" /\ InOffice(i, win.node)
        /\ \A r \in win.out : Speaks(i, win.node, r) /\ ~IsGrant(r)
    BY <1>2, <2>1, MaybeWinCompetes
  <2> HIDE DEF win
  <2>3. CASE win = Silent(counted)
    BY <1>2, <2>3, SilentRests
  <2>4. CASE win.node.role = "leader" /\ InOffice(i, win.node)
    BY <1>2, <2>2, <2>4 DEF Competes, Idles
  <2> QED BY <2>2, <2>3, <2>4
<1> HIDE DEF win
<1>4. m.term > n.term => Rests(i, n, Silent(_become_follower(n, m.term)))
  BY <1>1, FollowerIdles, SilentRests
<1>5. Rests(i, n, Silent(n))
  BY StaysSame, SilentRests
<1>6. _on_vote_reply(i, n, m) =
        IF m.term > n.term THEN Silent(_become_follower(n, m.term))
        ELSE IF n.role # "candidate" \/ m.term < n.term \/ ~m.granted THEN Silent(n)
        ELSE win
  BY DEF _on_vote_reply, win, counted
<1> QED BY <1>3, <1>4, <1>5, <1>6

LEMMA StartElectionCompetes ==
    ASSUME NEW i \in Node, NEW n \in NodeState, Ready(n), n.role # "leader"
    PROVE  \/ Rests(i, n, start_election(i, n))
           \/ Competes(i, n, start_election(i, n))
<1> DEFINE cand == [n EXCEPT !.term = @ + 1, !.role = "candidate", !.voted_for = i,
                             !.votes = {i}, !.timer = "election"]
           asked == {RequestVote(i, p, cand) : p \in cand.voters \ {i}}
           win == _maybe_win(i, cand)
           rearmed == [n EXCEPT !.timer = "election"]
<1>1. n.term \in Nat
  BY DEF NodeState
<1>2. CASE i \notin n.voters
  <2>1. Idles(n, rearmed) /\ Remains(n, rearmed)
    BY <1>1 DEF Idles, Remains, NodeState
  <2> HIDE DEF rearmed
  <2>2. start_election(i, n) = Silent(rearmed)
    BY <1>2 DEF start_election, rearmed
  <2> QED BY <2>1, <2>2, SilentRests
<1>3. CASE i \in n.voters
  <2>1. cand \in NodeState
    BY CandidateType
  <2>2. Idles(n, cand) /\ cand.term = n.term + 1 /\ cand.role = "candidate"
    BY DEF Idles, NodeState
  <2> HIDE DEF cand
  <2>3. Bare(cand) /\ Applied(cand) /\ cand.log = n.log
    BY <2>2 DEF Ready, Bare, Applied, Idles
  <2>4. /\ Idles(cand, win.node) /\ win.node.term = cand.term
        /\ \/ win = Silent(cand)
           \/ win.node.role = "leader" /\ InOffice(i, win.node)
        /\ \A r \in win.out : Speaks(i, win.node, r) /\ ~IsGrant(r)
    BY <2>1, <2>2, <2>3, MaybeWinCompetes
  <2> HIDE DEF win
  <2>5. win.node.role \in {"candidate", "leader"}
    BY <2>2, <2>4 DEF Silent, Effect
  <2>6. win.node.role = "leader" => InOffice(i, win.node)
    BY <2>2, <2>4 DEF Silent, Effect
  <2>7. \A r \in asked : Asks(i, win.node, r) /\ ~IsGrant(r)
    <3>1. /\ last_log_index(cand) = Len(cand.log)
          /\ term_at(cand, last_log_index(cand)) = LastTerm(cand.log)
      BY <2>1, <2>3, BareReads, BareLastTerm
    <3>2. win.node.log = cand.log
      BY <2>4 DEF Idles
    <3> QED BY <2>4, <3>1, <3>2 DEF Asks, RequestVote, IsGrant
  <2> HIDE DEF asked
  <2>8. start_election(i, n) = Effect(win.node, asked \cup win.out, {})
    BY <1>3 DEF start_election, win, asked, cand
  <2>9. Idles(n, win.node)
    BY <2>2, <2>4 DEF Idles
  <2>10. Competes(i, n, Effect(win.node, asked \cup win.out, {}))
    BY <2>2, <2>4, <2>5, <2>6, <2>7, <2>9 DEF Competes, Effect
  <2> QED BY <2>8, <2>10
<1> QED BY <1>2, <1>3

\* A crash loses the role and what was applied, and keeps term and log.
Crashes(n, e) ==
    /\ e.out = {}
    /\ e.node.log = n.log /\ e.node.snapshot = n.snapshot /\ e.node.term = n.term
    /\ e.node.commit_index = 0 /\ e.node.machine = <<>>
    /\ e.node.role = "follower" /\ ~e.node.alive

LEMMA PauseCrashes ==
    ASSUME NEW n \in NodeState, Ready(n)
    PROVE  Crashes(n, Silent(pause(n)))
<1> DEFINE restored == Restore(n, n.snapshot)
           down == [restored EXCEPT
              !.alive = FALSE, !.role = "follower", !.timer = "none",
              !.next_index = [p \in Node |-> 1], !.match_index = [p \in Node |-> 0],
              !.votes = {}, !.client_index = [c \in Client |-> -1],
              !.pending_reads = {}, !.committed_this_term = FALSE]
<1>1. n.snapshot.image = <<>> /\ n.snapshot.last_index = 0
  BY DEF Ready, Bare, NoSnapshot
<1>2. down \in NodeState
  BY CrashedType
<1>3. /\ down.log = n.log /\ down.snapshot = n.snapshot /\ down.term = n.term
      /\ down.commit_index = 0 /\ down.machine = <<>>
      /\ down.role = "follower" /\ down.alive = FALSE
  BY <1>1 DEF Restore, NodeState
<1> HIDE DEF down
<1>4. SameApartFromLog(down, pause(n)) /\ pause(n).log = down.log
  BY <1>2, RebuildKeepsLog DEF pause, down
<1> QED BY <1>3, <1>4 DEF Crashes, SameApartFromLog, Silent, Effect

---------------------------------------------------------------------------
(* A leader appends an entry. *)

\* A leader that stays one appends an entry with the given command.
AppendsEntry(i, n, command, p) ==
    /\ n.role = "leader" /\ p.role = "leader" /\ p.term = n.term
    /\ p.snapshot = n.snapshot
    /\ p.commit_index = n.commit_index /\ p.machine = n.machine
    /\ Extends(n.log, [term |-> n.term, command |-> command], p.log)
    /\ InRange(p)
    /\ \A v \in Node : \/ p.match_index[v] = n.match_index[v]
                       \/ v = i /\ p.match_index[v] <= Len(p.log)

\* The entry is a request that its index does not cover.
Appends(i, n, e) ==
    /\ \E c \in Client : \E r \in Nat :
          /\ r > n.client_index[c]
          /\ AppendsEntry(i, n, ClientCommand(c, r), e.node)
          /\ e.node.client_index = [n.client_index EXCEPT ![c] = r]
    /\ \A r \in e.out : Speaks(i, e.node, r) /\ ~IsGrant(r)

\* The entry is a configuration that the server may change to.
Reconfigures(i, n, e) ==
    /\ \E V \in SUBSET Node :
          /\ MayChangeConfig(i, n, V)
          /\ AppendsEntry(i, n, encode_config(V), e.node)
          /\ e.node.client_index = n.client_index
    /\ \A r \in e.out : Speaks(i, e.node, r) /\ ~IsGrant(r)

LEMMA AppendToLogAppends ==
    ASSUME NEW i \in Node, NEW n \in NodeState, Ready(n), n.role = "leader",
           NEW command \in Command, NEW p, p = AppendToLog(i, n, command)
    PROVE  /\ p \in NodeState /\ Ready(p) /\ AppendsEntry(i, n, command, p)
           /\ p.client_index = n.client_index
<1> DEFINE entry == [term |-> n.term, command |-> command]
           grown == [n EXCEPT !.log = Append(@, entry)]
           new == [grown EXCEPT !.match_index[i] = last_log_index(grown)]
<1>1. /\ n.match_index \in [Node -> Nat]
      /\ n.log \in Seq(Entry) /\ Len(n.log) \in Nat /\ n.term \in Nat
  BY DEF NodeState
<1>2. entry \in Entry
  BY <1>1 DEF Entry
<1>3. p = new
  BY DEF AppendToLog
<1>4. Append(n.log, entry) \in Seq(Entry) /\ Extends(n.log, entry, Append(n.log, entry))
  BY <1>1, <1>2, AppendedExtends
<1> HIDE DEF entry
<1>5. grown \in NodeState /\ grown.log = Append(n.log, entry)
  BY <1>4 DEF NodeState
<1>6. /\ grown.snapshot = n.snapshot /\ grown.term = n.term
      /\ grown.role = n.role /\ grown.commit_index = n.commit_index
      /\ grown.machine = n.machine /\ grown.match_index = n.match_index
      /\ grown.next_index = n.next_index /\ grown.client_index = n.client_index
  BY DEF NodeState
<1> HIDE DEF grown
<1>7. last_log_index(grown) = Len(n.log) + 1
  <2>1. Bare(grown)
    BY <1>6 DEF Ready, Bare
  <2>2. Len(grown.log) = Len(n.log) + 1
    BY <1>4, <1>5 DEF Extends
  <2>3. last_log_index(grown) = Len(grown.log)
    BY <1>5, <2>1, BareLast
  <2> QED BY <2>2, <2>3
<1>8. /\ new \in NodeState
      /\ new.log = grown.log /\ new.snapshot = grown.snapshot /\ new.term = grown.term
      /\ new.role = grown.role /\ new.commit_index = grown.commit_index
      /\ new.machine = grown.machine
      /\ new.match_index = [grown.match_index EXCEPT ![i] = Len(n.log) + 1]
      /\ new.next_index = grown.next_index /\ new.client_index = grown.client_index
  <2>1. [grown.match_index EXCEPT ![i] = Len(n.log) + 1] \in [Node -> Nat]
    BY <1>1, <1>6
  <2> QED BY <1>5, <1>7, <2>1 DEF NodeState
<1> HIDE DEF new
<1>9. Extends(n.log, entry, p.log) /\ Len(p.log) = Len(n.log) + 1
  BY <1>3, <1>4, <1>5, <1>8 DEF Extends
<1>10. /\ p \in NodeState /\ p.snapshot = n.snapshot /\ p.term = n.term
       /\ p.role = n.role /\ p.commit_index = n.commit_index /\ p.machine = n.machine
       /\ p.match_index = [n.match_index EXCEPT ![i] = Len(p.log)]
       /\ p.next_index = n.next_index /\ p.client_index = n.client_index
  BY <1>3, <1>6, <1>8, <1>9
<1>11. InRange(p)
  <2>1. n.next_index \in [Node -> Nat \ {0}]
    BY DEF NodeState
  <2> QED BY <1>1, <1>9, <1>10, <2>1 DEF Ready, InRange
<1>12. Ready(p)
  <2>1. n.commit_index \in Nat /\ n.commit_index <= Len(n.log)
    BY DEF NodeState, Ready, Applied
  <2>2. \A k \in 1..n.commit_index : p.log[k] = n.log[k]
    BY <1>1, <1>9, <2>1 DEF Extends
  <2>3. Applied(p)
    BY <1>1, <1>9, <1>10, <2>1, <2>2 DEF Ready, Applied
  <2> QED BY <1>10, <1>11, <2>3 DEF Ready, Bare
<1>13. \A v \in Node : \/ p.match_index[v] = n.match_index[v]
                       \/ v = i /\ p.match_index[v] <= Len(p.log)
  <2>1. ASSUME NEW v \in Node, v # i PROVE p.match_index[v] = n.match_index[v]
    BY <1>1, <1>10, <2>1
  <2>2. p.match_index[i] <= Len(p.log)
    <3>1. p.match_index[i] = Len(p.log)
      BY <1>1, <1>10
    <3>2. Len(p.log) \in Nat
      BY <1>1, <1>9
    <3> QED BY <3>1, <3>2
  <2> QED BY <2>1, <2>2
<1> QED BY <1>9, <1>10, <1>11, <1>12, <1>13 DEF AppendsEntry, entry

LEMMA ClientCommandAppends ==
    ASSUME NEW i \in Node, NEW n \in NodeState, Ready(n), n.role = "leader",
           NEW c \in Client, NEW r \in Nat
    PROVE  \/ Rests(i, n, client_command(i, n, c, r))
           \/ Appends(i, n, client_command(i, n, c, r))
<1> DEFINE asked == [n EXCEPT !.client_index[c] = r]
           p == AppendToLog(i, asked, ClientCommand(c, r))
           out == _broadcast_heartbeats(i, p)
<1>1. CASE r <= n.client_index[c]
  <2>1. client_command(i, n, c, r) = Silent(n)
    BY <1>1 DEF client_command
  <2> QED BY <2>1, StaysSame, SilentRests
<1>2. CASE ~(r <= n.client_index[c])
  <2>1. n.client_index \in [Client -> Int] /\ ClientCommand(c, r) \in Command
    BY DEF NodeState, ClientCommand, Command
  <2>2. asked \in NodeState /\ asked.client_index = [n.client_index EXCEPT ![c] = r]
    BY IndexedType DEF NodeState
  <2>3. /\ asked.log = n.log /\ asked.snapshot = n.snapshot /\ asked.term = n.term
        /\ asked.role = n.role /\ asked.commit_index = n.commit_index
        /\ asked.machine = n.machine /\ asked.match_index = n.match_index
        /\ asked.next_index = n.next_index
    BY DEF NodeState
  <2>4. client_command(i, n, c, r) = Effect(p, out, {})
    BY <1>2 DEF client_command
  <2> HIDE DEF asked
  <2>5. Ready(asked)
    BY <2>3 DEF Ready, Bare, Applied, InRange
  <2>6. /\ p \in NodeState /\ Ready(p) /\ AppendsEntry(i, asked, ClientCommand(c, r), p)
        /\ p.client_index = asked.client_index
    BY <2>1, <2>2, <2>3, <2>5, AppendToLogAppends
  <2> HIDE DEF p
  <2>7. AppendsEntry(i, n, ClientCommand(c, r), p)
    BY <2>3, <2>6 DEF AppendsEntry
  <2>8. \A s \in out : Speaks(i, p, s) /\ ~IsGrant(s)
    BY <2>6, <2>7, BroadcastSpeaks DEF AppendsEntry
  <2> HIDE DEF out
  <2>9. r > n.client_index[c]
    BY <1>2, <2>1
  <2>10. Effect(p, out, {}).node = p /\ Effect(p, out, {}).out = out
    BY DEF Effect
  <2>11. Appends(i, n, Effect(p, out, {}))
    BY <2>2, <2>6, <2>7, <2>8, <2>9, <2>10 DEF Appends
  <2> QED BY <2>4, <2>11
<1> QED BY <1>1, <1>2

LEMMA ChangeConfigReconfigures ==
    ASSUME NEW i \in Node, NEW n \in NodeState, Ready(n), n.role = "leader",
           NEW V \in SUBSET Node, MayChangeConfig(i, n, V)
    PROVE  Reconfigures(i, n, change_config(i, n, V))
<1> DEFINE grown == AppendToLog(i, n, encode_config(V))
           p == _adopt_config(grown, V, last_log_index(grown))
           out == _broadcast_heartbeats(i, p)
<1>1. encode_config(V) \in Command
  BY DEF encode_config, Command
<1>2. change_config(i, n, V) = Effect(p, out, {})
  BY DEF change_config
<1>3. /\ grown \in NodeState /\ Ready(grown) /\ AppendsEntry(i, n, encode_config(V), grown)
      /\ grown.client_index = n.client_index
  BY <1>1, AppendToLogAppends
<1> HIDE DEF grown
<1>4. last_log_index(grown) \in Nat
  BY <1>3, LogReads, 0 \in Int
<1>5. p \in NodeState
  BY <1>3, <1>4, AdoptConfigType
<1>6. /\ p.log = grown.log /\ p.snapshot = grown.snapshot /\ p.term = grown.term
      /\ p.role = grown.role /\ p.commit_index = grown.commit_index
      /\ p.machine = grown.machine /\ p.match_index = grown.match_index
      /\ p.next_index = grown.next_index /\ p.client_index = grown.client_index
  BY <1>3 DEF _adopt_config, NodeState
<1> HIDE DEF p
<1>7. Ready(p) /\ AppendsEntry(i, n, encode_config(V), p) /\ p.role = "leader"
  BY <1>3, <1>6 DEF Ready, Bare, Applied, InRange, AppendsEntry
<1>8. \A s \in out : Speaks(i, p, s) /\ ~IsGrant(s)
  BY <1>5, <1>7, BroadcastSpeaks
<1> HIDE DEF out
<1>9. Effect(p, out, {}).node = p /\ Effect(p, out, {}).out = out
  BY DEF Effect
<1>10. Reconfigures(i, n, Effect(p, out, {}))
  BY <1>3, <1>6, <1>7, <1>8, <1>9 DEF Reconfigures
<1> QED BY <1>2, <1>10

---------------------------------------------------------------------------
(* A follower takes entries. *)

\* The log has what the message says comes before its entries.
Meets(log, m) ==
    /\ m.prev_index <= Len(log)
    /\ m.prev_index > 0 => log[m.prev_index].term = m.prev_term

\* The log is up to date with the message.
TakenFrom(log, m, new) == Taken(log, m.prev_index, m.entries, Len(m.entries), new)

Takes(i, n, m, e) ==
    /\ m.type = "AppendEntries" /\ n.term <= m.term /\ e.node.term = m.term
    /\ Meets(n.log, m) /\ TakenFrom(n.log, m, e.node.log)
    /\ e.node.role = "follower" /\ e.node.snapshot = n.snapshot
    /\ \/ e.node.commit_index = n.commit_index
       \/ /\ e.node.commit_index > n.commit_index
          /\ e.node.commit_index <= m.leader_commit /\ e.node.commit_index <= Match(m)
    /\ Applied(e.node)
    /\ e.out = {AppendReply(i, m.src, e.node, TRUE, Match(m))}

LEMMA TakenReaches ==
    ASSUME NEW log, NEW m, m.prev_index \in Nat, m.entries \in Seq(Entry),
           NEW new, Len(new) \in Nat, TakenFrom(log, m, new)
    PROVE  Match(m) \in Nat /\ Match(m) <= Len(new)
BY DEF TakenFrom, Taken, Agrees, Replaced, Match

LEMMA FollowCommitApplies ==
    ASSUME SnapshotThreshold = 0, NEW n \in NodeState, Bare(n), Applied(n),
           NEW m, m.leader_commit \in Nat, Match(m) \in Nat, Match(m) <= Len(n.log)
    PROVE  LET p == FollowCommit(n, m)
           IN  /\ p \in NodeState /\ Applied(p)
               /\ p.log = n.log /\ p.snapshot = n.snapshot
               /\ p.term = n.term /\ p.role = n.role
               /\ \/ p.commit_index = n.commit_index
                  \/ /\ p.commit_index > n.commit_index
                     /\ p.commit_index <= m.leader_commit /\ p.commit_index <= Match(m)
<1> DEFINE index == Larger(n.commit_index, CommitBound(m))
           q == _set_commit_index(n, index)
           p == FollowCommit(n, m)
<1>1. n.commit_index \in Nat /\ n.commit_index <= Len(n.log) /\ Len(n.log) \in Nat
  BY DEF NodeState, Applied
<1>2. /\ index \in Nat /\ index <= Len(n.log)
      /\ \/ index = n.commit_index
         \/ index > n.commit_index /\ index <= m.leader_commit /\ index <= Match(m)
  BY <1>1 DEF Larger, CommitBound
<1> HIDE DEF index
<1>3. /\ q \in NodeState /\ Applied(q)
      /\ q = [n EXCEPT !.commit_index = Larger(n.commit_index, index), !.machine = q.machine]
  BY <1>2, SetCommitIndexApplies
<1> HIDE DEF q
<1>4. /\ q.log = n.log /\ q.snapshot = n.snapshot /\ q.term = n.term /\ q.role = n.role
      /\ q.commit_index = Larger(n.commit_index, index)
  BY <1>3 DEF NodeState
<1>5. q.commit_index = index
  BY <1>1, <1>2, <1>4 DEF Larger
<1>6. p = IF m.leader_commit > n.commit_index THEN q ELSE n
  BY DEF FollowCommit, q, index
<1> QED BY <1>2, <1>3, <1>4, <1>5, <1>6

LEMMA AppendEntriesTakes ==
    ASSUME SnapshotThreshold = 0, NEW i \in Node, NEW n \in NodeState, Ready(n),
           NEW m \in Message, m.type = "AppendEntries", m.src # i,
           n.term <= m.term /\ Meets(n.log, m) =>
               \A new \in Seq(Entry) : TakenFrom(n.log, m, new) => SameUpTo(n.log, new, n.commit_index)
    PROVE  \/ Rests(i, n, _on_append_entries(i, n, m))
           \/ Takes(i, n, m, _on_append_entries(i, n, m))
<1> DEFINE seen == IF m.term > n.term THEN _become_follower(n, m.term) ELSE n
           follow == IF seen.role # "follower" THEN _become_follower(seen, m.term)
                                               ELSE [seen EXCEPT !.timer = "election"]
           taken == TakeEntries(follow, m.prev_index, m.entries)
           after == FollowCommit(taken, m)
<1>1. /\ m.term \in Nat /\ m.src \in Node /\ n.term \in Nat
      /\ m.prev_index \in Nat /\ m.entries \in Seq(Entry) /\ m.leader_commit \in Nat
  BY DEF Message, NodeState
<1>2. _on_append_entries(i, n, m) =
        IF m.term < n.term
        THEN Effect(n, {AppendReply(i, m.src, n, FALSE, 0)}, {})
        ELSE IF ~Consistent(follow, m)
        THEN Effect(follow, {AppendReply(i, m.src, follow, FALSE, 0)}, {})
        ELSE Effect(after, {AppendReply(i, m.src, after, TRUE, Match(m))}, AppliedSince(n, after))
  BY DEF _on_append_entries, after, taken, follow, seen
<1>3. CASE m.term < n.term
  <2>1. \A r \in {AppendReply(i, m.src, n, FALSE, 0)} : Speaks(i, n, r) /\ ~IsGrant(r)
    BY RepliesSpeak
  <2>2. Rests(i, n, Effect(n, {AppendReply(i, m.src, n, FALSE, 0)}, {}))
    BY <2>1, StaysSame DEF Rests, Effect
  <2> QED BY <1>2, <1>3, <2>2
<1>4. CASE ~(m.term < n.term)
  <2>1. seen \in NodeState /\ Idles(n, seen) /\ seen.term = m.term
    BY <1>1, <1>4, FollowerIdles, StaysSame
  <2> HIDE DEF seen
  <2>2. follow \in NodeState /\ Idles(n, follow) /\ follow.term = m.term /\ follow.role = "follower"
    <3>1. CASE seen.role # "follower"
      <4>1. m.term <= m.term
        BY <1>1
      <4> QED BY <1>1, <2>1, <3>1, <4>1, FollowerIdles DEF Idles
    <3>2. CASE seen.role = "follower"
      <4>1. /\ [seen EXCEPT !.timer = "election"] \in NodeState
            /\ Idles(seen, [seen EXCEPT !.timer = "election"])
            /\ [seen EXCEPT !.timer = "election"].term = seen.term
            /\ [seen EXCEPT !.timer = "election"].role = seen.role
        BY <2>1 DEF NodeState, Idles
      <4> QED BY <2>1, <3>2, <4>1 DEF Idles
    <3> QED BY <3>1, <3>2
  <2> HIDE DEF follow
  <2>3. Ready(follow) /\ follow.log = n.log /\ follow.commit_index = n.commit_index
    BY <2>2, IdleIsReady DEF Idles
  <2>4. CASE ~Consistent(follow, m)
    <3>1. \A r \in {AppendReply(i, m.src, follow, FALSE, 0)} : Speaks(i, follow, r) /\ ~IsGrant(r)
      BY RepliesSpeak
    <3>2. Remains(n, follow)
      BY <1>1, <1>4, <2>2 DEF Remains
    <3>3. Rests(i, n, Effect(follow, {AppendReply(i, m.src, follow, FALSE, 0)}, {}))
      BY <2>2, <3>1, <3>2 DEF Rests, Effect
    <3> QED BY <1>2, <1>4, <2>4, <3>3
  <2>5. CASE Consistent(follow, m)
    <3>1. Meets(n.log, m)
      <4>1. last_log_index(follow) = Len(n.log)
        BY <2>2, <2>3, BareReads DEF Ready
      <4>2. m.prev_index > 0 /\ m.prev_index <= Len(n.log) =>
               term_at(follow, m.prev_index) = n.log[m.prev_index].term
        BY <1>1, <2>2, <2>3, BareEntry DEF Ready
      <4>3. Len(n.log) \in Nat
        BY DEF NodeState
      <4> QED BY <1>1, <2>5, <4>1, <4>2, <4>3 DEF Consistent, Meets
    <3>2. m.prev_index \in 0..Len(n.log)
      BY <1>1, <3>1 DEF Meets, NodeState
    <3>3. /\ taken \in NodeState /\ SameApartFromLog(follow, taken)
          /\ TakenFrom(n.log, m, taken.log)
      BY <1>1, <2>2, <2>3, <3>2, LogOfLoop DEF Ready, TakenFrom
    <3> HIDE DEF taken
    <3>4. taken.log \in Seq(Entry) /\ Len(taken.log) \in Nat
      BY <3>3 DEF NodeState
    <3>5. SameUpTo(n.log, taken.log, n.commit_index)
      BY <1>1, <1>4, <3>1, <3>3, <3>4
    <3>6. Bare(taken) /\ Applied(taken)
      <4>1. n.commit_index \in Nat
        BY DEF NodeState
      <4>2. /\ taken.machine = n.machine /\ taken.commit_index = n.commit_index
            /\ taken.snapshot = n.snapshot
        BY <2>2, <3>3 DEF SameApartFromLog, Idles
      <4> QED BY <3>5, <4>1, <4>2 DEF Ready, Bare, Applied, SameUpTo
    <3>7. Match(m) \in Nat /\ Match(m) <= Len(taken.log)
      BY <1>1, <3>3, <3>4, TakenReaches
    <3>8. /\ after \in NodeState /\ Applied(after)
          /\ after.log = taken.log /\ after.snapshot = taken.snapshot
          /\ after.term = taken.term /\ after.role = taken.role
          /\ \/ after.commit_index = taken.commit_index
             \/ /\ after.commit_index > taken.commit_index
                /\ after.commit_index <= m.leader_commit /\ after.commit_index <= Match(m)
      BY <1>1, <3>3, <3>6, <3>7, FollowCommitApplies
    <3> HIDE DEF after
    <3>9. Takes(i, n, m, Effect(after, {AppendReply(i, m.src, after, TRUE, Match(m))},
                                AppliedSince(n, after)))
      BY <1>1, <1>4, <2>2, <3>1, <3>3, <3>8 DEF Takes, Effect, SameApartFromLog, Idles
    <3> QED BY <1>2, <1>4, <2>5, <3>9
  <2> QED BY <2>4, <2>5
<1> QED BY <1>3, <1>4

---------------------------------------------------------------------------
(* A leader hears of what a follower has. *)

Hears(n, m, e) ==
    /\ IsAck(m) /\ n.role = "leader" /\ m.term = n.term
    /\ e.node.role = "leader" /\ e.node.term = n.term
    /\ e.node.log = n.log /\ e.node.snapshot = n.snapshot
    /\ e.node.client_index = n.client_index
    /\ InRange(e.node) /\ Applied(e.node)
    /\ \A v \in Node : \/ e.node.match_index[v] = n.match_index[v]
                       \/ v = m.src /\ e.node.match_index[v] = m.match_index
    /\ \/ e.node.commit_index = n.commit_index
       \/ /\ e.node.commit_index > n.commit_index /\ e.node.commit_index <= Len(n.log)
          /\ \A j \in e.node.commit_index..Len(n.log) : n.log[j].term = n.term
          /\ IsMajority({v \in Node : e.node.match_index[v] >= e.node.commit_index}, n.voters)
    /\ e.out = {}

LEMMA AdvanceCommitApplies ==
    ASSUME SnapshotThreshold = 0, NEW n \in NodeState, Bare(n), Applied(n)
    PROVE  LET p == _advance_commit(n)
           IN  /\ Applied(p)
               /\ p.log = n.log /\ p.snapshot = n.snapshot /\ p.term = n.term /\ p.role = n.role
               /\ p.match_index = n.match_index /\ p.next_index = n.next_index
               /\ p.client_index = n.client_index
               /\ \/ p.commit_index = n.commit_index
                  \/ /\ p.commit_index > n.commit_index /\ p.commit_index <= Len(n.log)
                     /\ \A j \in p.commit_index..Len(n.log) : n.log[j].term = n.term
                     /\ IsMajority({v \in Node : n.match_index[v] >= p.commit_index}, n.voters)
<1> DEFINE ready == {k \in (n.commit_index + 1)..last_log_index(n) :
                        OfThisTerm(n, k) /\ Replicated(n, k)}
           q == _set_commit_index(n, Maximum(ready))
           p == _advance_commit(n)
<1>0. last_log_index(n) = Len(n.log)
  BY BareReads
<1>1. n.commit_index \in Nat /\ Len(n.log) \in Nat /\ last_log_index(n) = Len(n.log)
  BY <1>0 DEF NodeState
<1>2. CASE ready = {}
  BY <1>2 DEF _advance_commit
<1>3. CASE ready # {}
  <2> DEFINE top == Maximum(ready)
  <2>1. top \in ready
    <3>1. ready \in SUBSET ((n.commit_index + 1)..Len(n.log))
      BY <1>1
    <3>2. n.commit_index + 1 \in Nat
      BY <1>1
    <3> HIDE DEF ready
    <3> QED BY <1>1, <1>3, <3>1, <3>2, RangeMaximum
  <2>2. /\ top \in Nat /\ top > n.commit_index /\ top <= Len(n.log)
        /\ OfThisTerm(n, top) /\ Replicated(n, top)
    BY <1>1, <2>1
  <2>3. p = [q EXCEPT !.committed_this_term = TRUE]
    BY <1>3 DEF _advance_commit
  <2> HIDE DEF ready, top
  <2> DEFINE s == _set_commit_index(n, top)
  <2>4. /\ s \in NodeState /\ Applied(s)
        /\ s = [n EXCEPT !.commit_index = Larger(n.commit_index, top), !.machine = s.machine]
    BY <2>2, SetCommitIndexApplies
  <2>5. q = s
    BY DEF top
  <2> HIDE DEF q, s
  <2>6. /\ s.log = n.log /\ s.snapshot = n.snapshot /\ s.term = n.term /\ s.role = n.role
        /\ s.match_index = n.match_index /\ s.next_index = n.next_index
        /\ s.client_index = n.client_index /\ s.commit_index = top
    <3>1. Larger(n.commit_index, top) = top
      BY <1>1, <2>2 DEF Larger
    <3> QED BY <2>4, <3>1 DEF NodeState
  <2>7. /\ p.log = s.log /\ p.snapshot = s.snapshot /\ p.term = s.term /\ p.role = s.role
        /\ p.match_index = s.match_index /\ p.next_index = s.next_index
        /\ p.client_index = s.client_index /\ p.commit_index = s.commit_index
        /\ p.machine = s.machine
    BY <2>3, <2>4, <2>5 DEF NodeState
  <2>8. Applied(p)
    BY <2>4, <2>7 DEF Applied
  <2>9. \A j \in top..Len(n.log) : n.log[j].term = n.term
    <3>1. ASSUME NEW j \in top..Len(n.log) PROVE n.log[j].term = n.term
      <4>1. j \in 1..Len(n.log)
        BY <1>1, <2>2
      <4>2. term_at(n, j) = n.term
        BY <1>1, <2>2 DEF OfThisTerm
      <4> QED BY <4>1, <4>2, BareEntry
    <3> QED BY <3>1
  <2>10. IsMajority({v \in Node : n.match_index[v] >= top}, n.voters)
    BY <2>2 DEF Replicated
  <2> QED BY <2>2, <2>6, <2>7, <2>8, <2>9, <2>10
<1> QED BY <1>2, <1>3

LEMMA AppendReplyHears ==
    ASSUME SnapshotThreshold = 0, NEW i \in Node, NEW n \in NodeState, Ready(n),
           NEW m \in Message, m.type = "AppendReply", m.src # i,
           n.role = "leader" /\ IsAck(m) /\ m.term = n.term => m.match_index <= Len(n.log)
    PROVE  \/ Rests(i, n, _on_append_reply(i, n, m))
           \/ Hears(n, m, _on_append_reply(i, n, m))
<1> DEFINE acked == [n EXCEPT !.match_index[m.src] = Larger(@, m.match_index),
                              !.next_index[m.src] = Larger(@, NextAfter(m.match_index))]
           after == _advance_commit(acked)
           backed == [n EXCEPT !.next_index[m.src] = BackOff(@)]
           sent == _send_append_entries(i, backed, m.src)
<1>1. /\ m.term \in Nat /\ m.src \in Node /\ m.match_index \in Nat /\ n.term \in Nat
      /\ n.match_index \in [Node -> Nat] /\ n.next_index \in [Node -> Nat \ {0}]
      /\ Len(n.log) \in Nat
  <2> HIDE DEF acked, after, backed, sent
  <2>1. m.term \in Nat /\ m.src \in Node /\ m.match_index \in Nat
    BY DEF Message
  <2>2. /\ n.term \in Nat /\ n.log \in Seq(Entry)
        /\ n.match_index \in [Node -> Nat] /\ n.next_index \in [Node -> Nat \ {0}]
    BY DEF NodeState
  <2>3. Len(n.log) \in Nat
    BY <2>2
  <2> QED BY <2>1, <2>2, <2>3
<1>2. _on_append_reply(i, n, m) =
        IF m.term > n.term THEN Silent(_become_follower(n, m.term))
        ELSE IF n.role # "leader" \/ m.term < n.term THEN Silent(n)
        ELSE IF m.success THEN Effect(after, {}, AppliedSince(n, after))
        ELSE Effect(backed, {sent}, {})
  BY DEF _on_append_reply, sent, backed, after, acked
<1>3. m.term > n.term => Rests(i, n, Silent(_become_follower(n, m.term)))
  BY <1>1, FollowerIdles, SilentRests
<1>4. Rests(i, n, Silent(n))
  BY StaysSame, SilentRests
<1>5. ASSUME n.role = "leader", m.term = n.term, m.success
      PROVE  Hears(n, m, Effect(after, {}, AppliedSince(n, after)))
  <2>1. /\ acked \in NodeState
        /\ acked.match_index = [n.match_index EXCEPT ![m.src] = Larger(@, m.match_index)]
        /\ acked.next_index = [n.next_index EXCEPT ![m.src] = Larger(@, NextAfter(m.match_index))]
    BY <1>1, AckedType DEF NodeState
  <2>2. /\ Idles(n, acked) /\ acked.term = n.term /\ acked.role = n.role
        /\ acked.client_index = n.client_index /\ acked.voters = n.voters
    BY DEF Idles, NodeState
  <2> HIDE DEF acked
  <2>3. Bare(acked) /\ Applied(acked)
    BY <2>2 DEF Ready, Bare, Applied, Idles
  <2>4. /\ Applied(after)
        /\ after.log = acked.log /\ after.snapshot = acked.snapshot
        /\ after.term = acked.term /\ after.role = acked.role
        /\ after.match_index = acked.match_index /\ after.next_index = acked.next_index
        /\ after.client_index = acked.client_index
        /\ \/ after.commit_index = acked.commit_index
           \/ /\ after.commit_index > acked.commit_index /\ after.commit_index <= Len(acked.log)
              /\ \A j \in after.commit_index..Len(acked.log) : acked.log[j].term = acked.term
              /\ IsMajority({v \in Node : acked.match_index[v] >= after.commit_index}, acked.voters)
    BY <2>1, <2>3, AdvanceCommitApplies
  <2> HIDE DEF after
  <2>5. m.match_index <= Len(n.log) /\ IsAck(m)
    BY <1>5 DEF IsAck
  <2>6. InRange(after)
    BY <1>1, <1>5, <2>1, <2>2, <2>4, <2>5 DEF InRange, Ready, Larger, NextAfter, Idles
  <2>7. \A v \in Node : \/ after.match_index[v] = n.match_index[v]
                        \/ v = m.src /\ after.match_index[v] = m.match_index
    BY <1>1, <2>1, <2>4 DEF Larger
  <2>8. after.log = n.log /\ after.snapshot = n.snapshot /\ acked.commit_index = n.commit_index
    BY <2>2, <2>4 DEF Idles
  <2>9. \/ after.commit_index = n.commit_index
        \/ /\ after.commit_index > n.commit_index /\ after.commit_index <= Len(n.log)
           /\ \A j \in after.commit_index..Len(n.log) : n.log[j].term = n.term
           /\ IsMajority({v \in Node : after.match_index[v] >= after.commit_index}, n.voters)
    BY <2>2, <2>4, <2>8
  <2> QED BY <1>5, <2>2, <2>4, <2>5, <2>6, <2>7, <2>8, <2>9 DEF Hears, Effect
<1>6. ASSUME n.role = "leader", m.term = n.term
      PROVE  Rests(i, n, Effect(backed, {sent}, {}))
  <2>1. /\ backed \in NodeState
        /\ backed.next_index = [n.next_index EXCEPT ![m.src] = BackOff(@)]
    BY <1>1, BackedType DEF NodeState
  <2>2. /\ Idles(n, backed) /\ backed.term = n.term /\ backed.role = n.role
        /\ backed.match_index = n.match_index /\ backed.client_index = n.client_index
    BY DEF Idles, NodeState
  <2> HIDE DEF backed
  <2>3. InRange(backed)
    BY <1>1, <1>6, <2>1, <2>2 DEF InRange, Ready, Larger, BackOff, Idles
  <2>4. Ready(backed)
    BY <2>2, <2>3, IdleIsReady
  <2>5. Speaks(i, backed, sent) /\ ~IsGrant(sent)
    BY <1>1, <1>6, <2>1, <2>2, <2>4, SendSpeaks
  <2>6. Remains(n, backed)
    BY <1>1, <2>2, <2>3 DEF Remains
  <2> QED BY <2>2, <2>5, <2>6 DEF Rests, Effect
<1> HIDE DEF after, backed, sent
<1> QED BY <1>1, <1>2, <1>3, <1>4, <1>5, <1>6

---------------------------------------------------------------------------
(* Types, with snapshots, membership changes, reads and crashes or without. *)

LEMMA InitNodeType == InitNode \in NodeState
<1>1. /\ [p \in Node |-> 1] \in [Node -> Nat \ {0}]
      /\ [p \in Node |-> 0] \in [Node -> Nat]
      /\ [c \in Client |-> -1] \in [Client -> Int]
      /\ InitialVoters \in SUBSET Node
  BY VotersAssumption
<1> QED BY <1>1, NoSnapshotType DEF InitNode, NodeState, Role

LEMMA InitType == Init => TypeOK
<1> SUFFICES ASSUME Init PROVE TypeOK
  OBVIOUS
<1>1. node \in [Node -> NodeState]
  BY InitNodeType DEF Init
<1>2. /\ msgs \subseteq Message
      /\ next_req \in [Client -> Nat]
      /\ leaders \subseteq Nat \X Node
  BY DEF Init
<1>3. committed \in Seq([entry : Entry, term : Nat])
  BY DEF Init
<1>4. read_floor \in [Node -> Seq(Nat)]
  BY DEF Init
<1> QED BY <1>1, <1>2, <1>3, <1>4 DEF TypeOK

(***************************************************************************)
(* A step of server i preserves the type invariant if its effect has the   *)
(* right type: what the drivers and the checker record of it is typed by   *)
(* the server's new record.                                                *)
(***************************************************************************)
LEMMA StepType ==
    ASSUME TypeOK, NEW i \in Node, NEW e, GoodEffect(e), Step(i, e)
    PROVE  TypeOK'
<1>1. e.node \in NodeState /\ e.out \subseteq Message
  BY DEF GoodEffect
<1>2. e.node.term \in Nat /\ e.node.machine \in Seq(Entry)
  BY <1>1 DEF NodeState
<1>3. node' \in [Node -> NodeState]
  BY <1>1 DEF TypeOK, Step
<1>4. msgs' \subseteq Message
  BY <1>1 DEF TypeOK, Step
<1>5. next_req' \in [Client -> Nat]
  BY DEF TypeOK, Step, _on_apply
<1>6. leaders' \subseteq Nat \X Node
  BY <1>2 DEF TypeOK, Step, ObserveLeader
<1>7. committed' \in Seq([entry : Entry, term : Nat])
  <2> DEFINE count == Larger(0, Len(e.node.machine) - Len(committed))
             Seen(k) == [entry |-> e.node.machine[Len(committed) + k], term |-> e.node.term]
             new == [k \in 1..count |-> Seen(k)]
  <2>1. committed \in Seq([entry : Entry, term : Nat])
    BY DEF TypeOK
  <2>2. count \in Nat
    BY <1>2, <2>1 DEF Larger
  <2>3. \A k \in 1..count : Seen(k) \in [entry : Entry, term : Nat]
    <3> TAKE k \in 1..count
    <3>1. Len(committed) + k \in 1..Len(e.node.machine)
      BY <1>2, <2>1 DEF Larger
    <3> QED BY <1>2, <3>1
  <2> HIDE DEF count, Seen
  <2>4. new \in Seq([entry : Entry, term : Nat])
    BY <2>2, <2>3
  <2> HIDE DEF new
  <2>5. committed' = committed \o new
    BY DEF Step, ObserveCommits, new, Seen, count
  <2> QED BY <2>1, <2>4, <2>5
<1>8. read_floor' \in [Node -> Seq(Nat)]
  <2>1. read_floor \in [Node -> Seq(Nat)] /\ Len(committed) \in Nat
    BY DEF TypeOK
  <2>2. Append(read_floor[i], Len(committed)) \in Seq(Nat)
    BY <2>1
  <2>3. read_floor' \in {read_floor,
                         [read_floor EXCEPT ![i] = Append(@, Len(committed))]}
    BY DEF Step, ObserveRead
  <2> QED BY <2>1, <2>2, <2>3
<1> QED BY <1>3, <1>4, <1>5, <1>6, <1>7, <1>8 DEF TypeOK

LEMMA NextType == TypeOK /\ [Next]_vars => TypeOK'
<1> SUFFICES ASSUME TypeOK, [Next]_vars PROVE TypeOK'
  OBVIOUS
<1>1. /\ \A i \in Node : node[i] \in NodeState
      /\ msgs \subseteq Message
      /\ \A c \in Client : next_req[c] \in Nat
  BY DEF TypeOK
<1>2. ASSUME NEW m \in msgs, Deliver(m) PROVE TypeOK'
  <2>1. m \in Message /\ m.dst \in Node
    BY <1>1 DEF Message
  <2> QED BY <1>1, <1>2, <2>1, HandleType, StepType DEF Deliver
<1>3. ASSUME NEW i \in Node, _on_election_timeout(i) PROVE TypeOK'
  BY <1>1, <1>3, StartElectionType, StepType DEF _on_election_timeout
<1>4. ASSUME NEW i \in Node, _on_heartbeat(i) PROVE TypeOK'
  BY <1>1, <1>4, HeartbeatTimeoutType, StepType DEF _on_heartbeat
<1>5. ASSUME NEW i \in Node, NEW c \in Client, _client_tick(c, i) PROVE TypeOK'
  <2>1. CASE Step(i, client_command(i, node[i], c, next_req[c]))
    BY <1>1, <2>1, ClientCommandType, StepType
  <2>2. CASE Step(i, request_read(i, node[i], c, next_req[c]))
    BY <1>1, <2>2, RequestReadType, StepType
  <2> QED BY <1>5, <2>1, <2>2 DEF _client_tick
<1>6. ASSUME NEW i \in Node, NEW V \in Proposals, _membership_tick(i, V) PROVE TypeOK'
  <2>1. V \in SUBSET Node
    BY EnvironmentAssumption
  <2> QED BY <1>1, <1>6, <2>1, ChangeConfigType, StepType DEF _membership_tick
<1>7. ASSUME NEW i \in Node, Pause(i) PROVE TypeOK'
  <2>1. GoodEffect(Silent(pause(node[i])))
    BY <1>1, PauseType DEF Silent, Effect, GoodEffect
  <2> QED BY <1>7, <2>1, StepType DEF Pause
<1>8. ASSUME NEW i \in Node, Resume(i) PROVE TypeOK'
  <2>1. GoodEffect(Silent(resume(node[i])))
    BY <1>1, ResumeType DEF Silent, Effect, GoodEffect
  <2> QED BY <1>8, <2>1, StepType DEF Resume
<1>9. CASE UNCHANGED vars
  BY <1>9 DEF TypeOK, vars
<1> QED BY <1>2, <1>3, <1>4, <1>5, <1>6, <1>7, <1>8, <1>9 DEF Next

(***************************************************************************)
(* Type correctness: every reachable record of a server, every message and *)
(* every observation has its type, next_index stays positive (the leader's *)
(* back-off never runs below the first entry) and every log stays a        *)
(* sequence of entries through truncation, compaction and re-seeding.      *)
(***************************************************************************)
THEOREM TypeCorrectness == Spec => []TypeOK
<1>1. Init => TypeOK
  BY InitType
<1>2. TypeOK /\ [Next]_vars => TypeOK'
  BY NextType
<1> QED BY <1>1, <1>2, PTL DEF Spec

---------------------------------------------------------------------------
(* What a step is to elections, whichever action it is. *)

\* From n to m, the server kept its vote.
KeepsVote(n, m) ==
    /\ n.term <= m.term
    /\ n.term = m.term /\ n.voted_for # None => m.voted_for = n.voted_for

\* Server i grants only the vote that it has recorded.
GrantsItsVote(i, e) ==
    \A r \in e.out : IsGrant(r) =>
        r.src = i /\ r.term = e.node.term /\ r.dst = e.node.voted_for

\* A step that does not leave server i a follower left its standing as it was,
\* made it stand for election, or counted a vote that it was granted.
TakesPart(i, n, e) ==
    e.node.role # "follower" =>
        \/ SameStanding(n, e.node)
        \/ Stands(i, n, e)
        \/ \E m \in msgs : IsGrant(m) /\ m.dst = i /\ Counts(n, m, e)
        \/ n.role = e.node.role /\ n.term = e.node.term /\ n.votes = e.node.votes
               /\ n.voted_for \in {None, e.node.voted_for}

ElectionStep(i, n, e) ==
    /\ GoodEffect(e)
    /\ KeepsVote(n, e.node)
    /\ GrantsItsVote(i, e)
    /\ TakesPart(i, n, e)

LEMMA QuietStep ==
    ASSUME NEW i \in Node, NEW n \in NodeState, NEW e, GoodEffect(e), Quiet(n, e)
    PROVE  ElectionStep(i, n, e)
BY DEF ElectionStep, KeepsVote, GrantsItsVote, TakesPart, Quiet, Recedes

LEMMA StandsStep ==
    ASSUME NEW i \in Node, NEW n \in NodeState, NEW e, GoodEffect(e), Stands(i, n, e)
    PROVE  ElectionStep(i, n, e)
<1>1. n.term \in Nat /\ e.node.term = n.term + 1
  BY DEF NodeState, Stands
<1>2. KeepsVote(n, e.node)
  BY <1>1 DEF KeepsVote
<1>3. GrantsItsVote(i, e) /\ TakesPart(i, n, e)
  BY DEF GrantsItsVote, TakesPart, Stands
<1> QED BY <1>2, <1>3 DEF ElectionStep

LEMMA GrantsStep ==
    ASSUME NEW i \in Node, NEW n \in NodeState, NEW m \in Message, NEW e, GoodEffect(e),
           Grants(n, m, e), \A r \in e.out : r.src = i
    PROVE  ElectionStep(i, n, e)
<1>1. n.term \in Nat /\ m.term \in Nat
  BY DEF NodeState, Message
<1>2. KeepsVote(n, e.node)
  BY <1>1 DEF KeepsVote, Grants
<1>3. GrantsItsVote(i, e)
  BY DEF GrantsItsVote, Grants
<1>4. TakesPart(i, n, e)
  BY DEF TakesPart, Grants
<1> QED BY <1>2, <1>3, <1>4 DEF ElectionStep

LEMMA CountsStep ==
    ASSUME NEW i \in Node, NEW n \in NodeState, NEW m \in msgs, NEW e, GoodEffect(e),
           m.type = "VoteReply", m.dst = i, Counts(n, m, e)
    PROVE  ElectionStep(i, n, e)
<1>1. n.term \in Nat
  BY DEF NodeState
<1>2. KeepsVote(n, e.node)
  BY <1>1 DEF KeepsVote, Counts
<1>3. GrantsItsVote(i, e)
  BY DEF GrantsItsVote, Counts
<1>4. IsGrant(m)
  BY DEF IsGrant, Counts
<1>5. TakesPart(i, n, e)
  BY <1>4 DEF TakesPart
<1> QED BY <1>2, <1>3, <1>5 DEF ElectionStep

LEMMA DeliverStep ==
    ASSUME TypeOK, NEW m \in msgs, NEW i \in Node, m.dst = i
    PROVE  ElectionStep(i, node[i], handle(i, node[i], m))
<1>1. m \in Message /\ node[i] \in NodeState
  BY DEF TypeOK
<1>2. GoodEffect(handle(i, node[i], m))
  BY <1>1, HandleType
<1>3. CASE m.type = "RequestVote"
  <2>1. handle(i, node[i], m) = _on_request_vote(i, node[i], m)
    BY <1>3 DEF handle
  <2> QED BY <1>1, <1>2, <1>3, <2>1, RequestVoteGrants, QuietStep, GrantsStep
<1>4. CASE m.type = "VoteReply"
  <2>1. handle(i, node[i], m) = _on_vote_reply(i, node[i], m)
    BY <1>4 DEF handle
  <2> QED BY <1>1, <1>2, <1>4, <2>1, VoteReplyCounts, QuietStep, CountsStep
<1>5. CASE m.type \notin {"RequestVote", "VoteReply"}
  <2>1. m.type \in {"AppendEntries", "AppendReply", "InstallSnapshot",
                    "ReadHeartbeat", "ReadAck"}
    BY <1>1, <1>5 DEF Message
  <2>2. Quiet(node[i], handle(i, node[i], m))
    BY <1>1, <2>1, AppendEntriesQuiet, AppendReplyQuiet, InstallSnapshotQuiet,
       ReadHeartbeatQuiet, ReadAckQuiet DEF handle
  <2> QED BY <1>1, <1>2, <2>2, QuietStep
<1> QED BY <1>3, <1>4, <1>5

(***************************************************************************)
(* Every step of the cluster is the effect of one call at one server, and  *)
(* an election step; if nobody proposes a configuration, it spreads none.  *)
(***************************************************************************)
Performs(i, e) ==
    \/ node[i].alive /\ \E m \in msgs : m.dst = i /\ e = handle(i, node[i], m)
    \/ node[i].alive /\ node[i].role # "leader" /\ e = start_election(i, node[i])
    \/ /\ Leads(i)
       /\ \/ e = HeartbeatTimeout(i, node[i])
          \/ \E c \in Client : \/ e = client_command(i, node[i], c, next_req[c])
                              \/ /\ node[i].committed_this_term
                                 /\ e = request_read(i, node[i], c, next_req[c])
          \/ \E V \in Proposals :
                 MayChangeConfig(i, node[i], V) /\ e = change_config(i, node[i], V)
    \/ node[i].alive /\ e = Silent(pause(node[i]))
    \/ ~node[i].alive /\ e = Silent(resume(node[i]))

LEMMA EveryStep ==
    ASSUME TypeOK, Next
    PROVE  \E i \in Node : \E e :
              /\ Step(i, e)
              /\ Performs(i, e)
              /\ ElectionStep(i, node[i], e)
              /\ AllSettled /\ Proposals = {} => SettledEffect(e)
<1> DEFINE Goal == \E i \in Node : \E e :
              /\ Step(i, e)
              /\ Performs(i, e)
              /\ ElectionStep(i, node[i], e)
              /\ AllSettled /\ Proposals = {} => SettledEffect(e)
<1>1. /\ \A i \in Node : node[i] \in NodeState
      /\ msgs \subseteq Message
      /\ \A c \in Client : next_req[c] \in Nat
  BY DEF TypeOK
<1>2. ASSUME NEW m \in msgs, Deliver(m) PROVE Goal
  <2>1. m \in Message /\ m.dst \in Node
    BY <1>1 DEF Message
  <2>2. Step(m.dst, handle(m.dst, node[m.dst], m))
    BY <1>2 DEF Deliver
  <2>3. ElectionStep(m.dst, node[m.dst], handle(m.dst, node[m.dst], m))
    BY <2>1, DeliverStep
  <2>4. AllSettled => SettledEffect(handle(m.dst, node[m.dst], m))
    BY <1>1, <2>1, SettledHandle DEF AllSettled
  <2>5. Performs(m.dst, handle(m.dst, node[m.dst], m))
    BY <1>2 DEF Performs, Deliver
  <2> QED BY <2>1, <2>2, <2>3, <2>4, <2>5
<1>3. ASSUME NEW i \in Node, _on_election_timeout(i) PROVE Goal
  <2>1. Step(i, start_election(i, node[i]))
    BY <1>3 DEF _on_election_timeout
  <2>2. ElectionStep(i, node[i], start_election(i, node[i]))
    BY <1>1, StartElectionStands, StartElectionType, QuietStep, StandsStep
  <2>3. AllSettled => SettledEffect(start_election(i, node[i]))
    BY <1>1, SettledStartElection DEF AllSettled
  <2>4. Performs(i, start_election(i, node[i]))
    BY <1>3 DEF Performs, _on_election_timeout
  <2> QED BY <2>1, <2>2, <2>3, <2>4
<1>4. ASSUME NEW i \in Node, _on_heartbeat(i) PROVE Goal
  <2>1. Step(i, HeartbeatTimeout(i, node[i]))
    BY <1>4 DEF _on_heartbeat
  <2>2. ElectionStep(i, node[i], HeartbeatTimeout(i, node[i]))
    BY <1>1, HeartbeatTimeoutQuiet, HeartbeatTimeoutType, QuietStep
  <2>3. AllSettled => SettledEffect(HeartbeatTimeout(i, node[i]))
    BY <1>1, SettledHeartbeatTimeout DEF AllSettled
  <2>4. Performs(i, HeartbeatTimeout(i, node[i]))
    BY <1>4 DEF Performs, Leads, _on_heartbeat
  <2> QED BY <2>1, <2>2, <2>3, <2>4
<1>5. ASSUME NEW i \in Node, NEW c \in Client, _client_tick(c, i) PROVE Goal
  <2>1. CASE Step(i, client_command(i, node[i], c, next_req[c]))
    <3>1. ElectionStep(i, node[i], client_command(i, node[i], c, next_req[c]))
      BY <1>1, ClientCommandQuiet, ClientCommandType, QuietStep
    <3>2. AllSettled => SettledEffect(client_command(i, node[i], c, next_req[c]))
      BY <1>1, SettledClientCommand DEF AllSettled
    <3>3. Performs(i, client_command(i, node[i], c, next_req[c]))
      BY <1>5 DEF Performs, _client_tick
    <3> QED BY <2>1, <3>1, <3>2, <3>3
  <2>2. CASE node[i].committed_this_term /\ Step(i, request_read(i, node[i], c, next_req[c]))
    <3>1. ElectionStep(i, node[i], request_read(i, node[i], c, next_req[c]))
      BY <1>1, RequestReadQuiet, RequestReadType, QuietStep
    <3>2. AllSettled => SettledEffect(request_read(i, node[i], c, next_req[c]))
      BY <1>1, SettledRequestRead DEF AllSettled
    <3>3. Performs(i, request_read(i, node[i], c, next_req[c]))
      BY <1>5, <2>2 DEF Performs, _client_tick
    <3> QED BY <2>2, <3>1, <3>2, <3>3
  <2> QED BY <1>5, <2>1, <2>2 DEF _client_tick
<1>6. ASSUME NEW i \in Node, NEW V \in Proposals, _membership_tick(i, V) PROVE Goal
  <2>1. V \in SUBSET Node /\ Proposals # {}
    BY EnvironmentAssumption
  <2>2. Step(i, change_config(i, node[i], V))
    BY <1>6 DEF _membership_tick
  <2>3. ElectionStep(i, node[i], change_config(i, node[i], V))
    BY <1>1, <2>1, ChangeConfigQuiet, ChangeConfigType, QuietStep
  <2>4. Performs(i, change_config(i, node[i], V))
    BY <1>6 DEF Performs, _membership_tick
  <2> QED BY <2>1, <2>2, <2>3, <2>4
<1>7. ASSUME NEW i \in Node, Pause(i) PROVE Goal
  <2>1. Step(i, Silent(pause(node[i])))
    BY <1>7 DEF Pause
  <2>2. GoodEffect(Silent(pause(node[i])))
    BY <1>1, PauseType DEF Silent, Effect, GoodEffect
  <2>3. ElectionStep(i, node[i], Silent(pause(node[i])))
    BY <1>1, <2>2, PauseQuiet, QuietStep
  <2>4. AllSettled => SettledEffect(Silent(pause(node[i])))
    BY <1>1, SettledPause DEF AllSettled
  <2>5. Performs(i, Silent(pause(node[i])))
    BY <1>7 DEF Performs, Pause
  <2> QED BY <2>1, <2>3, <2>4, <2>5
<1>8. ASSUME NEW i \in Node, Resume(i) PROVE Goal
  <2>1. Step(i, Silent(resume(node[i])))
    BY <1>8 DEF Resume
  <2>2. GoodEffect(Silent(resume(node[i])))
    BY <1>1, ResumeType DEF Silent, Effect, GoodEffect
  <2>3. ElectionStep(i, node[i], Silent(resume(node[i])))
    BY <1>1, <2>2, ResumeQuiet, QuietStep
  <2>4. AllSettled => SettledEffect(Silent(resume(node[i])))
    BY <1>1, SettledResume DEF AllSettled
  <2>5. Performs(i, Silent(resume(node[i])))
    BY <1>8 DEF Performs, Resume
  <2> QED BY <2>1, <2>3, <2>4, <2>5
<1> HIDE DEF Goal
<1>9. Goal
  BY <1>2, <1>3, <1>4, <1>5, <1>6, <1>7, <1>8 DEF Next
<1> QED BY <1>9 DEF Goal

---------------------------------------------------------------------------
(***************************************************************************)
(* A vote is final: in any cluster, with membership changes, snapshots and *)
(* crashes or without, no step moves a server to an earlier term, nor      *)
(* changes or withdraws a vote within the term it was given in.            *)
(***************************************************************************)
THEOREM VotesAreFinal == Spec => VoteIsFinal
<1> DEFINE Final == \A i \in Node :
               /\ node[i].term <= node'[i].term
               /\ node[i].term = node'[i].term /\ node[i].voted_for # None =>
                      node'[i].voted_for = node[i].voted_for
<1>1. TypeOK /\ [Next]_vars => [Final]_vars
  <2> SUFFICES ASSUME TypeOK, Next PROVE Final
    OBVIOUS
  <2>1. PICK i \in Node : \E e : Step(i, e) /\ ElectionStep(i, node[i], e)
    BY EveryStep
  <2>2. PICK e : Step(i, e) /\ ElectionStep(i, node[i], e)
    BY <2>1
  <2>3. node \in [Node -> NodeState]
    BY DEF TypeOK
  <2>4. node' = [node EXCEPT ![i] = e.node]
    BY <2>2 DEF Step
  <2>5. KeepsVote(node[i], e.node)
    BY <2>2 DEF ElectionStep
  <2>6. ASSUME NEW j \in Node PROVE KeepsVote(node[j], node'[j])
    <3>1. node[j].term \in Nat
      BY <2>3 DEF NodeState
    <3> QED BY <2>3, <2>4, <2>5, <3>1 DEF KeepsVote
  <2> QED BY <2>6 DEF KeepsVote
<1>2. Spec => []TypeOK
  BY TypeCorrectness
<1> QED BY <1>1, <1>2, PTL DEF Spec, VoteIsFinal

---------------------------------------------------------------------------
(* Majorities and pledges. *)

LEMMA MoreIsMajority ==
    ASSUME NEW V \in SUBSET Node, NEW S, NEW T, S \subseteq T, IsMajority(S, V)
    PROVE  IsMajority(T, V)
<1>1. IsFiniteSet(V)
  BY VotersAssumption, FS_Subset
<1>2. IsFiniteSet(T \cap V) /\ IsFiniteSet(S \cap V)
  BY <1>1, FS_Intersection
<1>3. Cardinality(S \cap V) <= Cardinality(T \cap V)
  BY <1>2, FS_Subset
<1>4. /\ Cardinality(S \cap V) \in Nat
      /\ Cardinality(T \cap V) \in Nat
      /\ Cardinality(V) \in Nat
  BY <1>1, <1>2, FS_CardinalityType
<1> QED BY <1>3, <1>4 DEF IsMajority

LEMMA MajoritiesMeet ==
    ASSUME NEW V \in SUBSET Node, NEW S, NEW T, IsMajority(S, V), IsMajority(T, V)
    PROVE  \E v \in S \cap T : v \in V
<1> DEFINE A == S \cap V
           B == T \cap V
<1>1. IsFiniteSet(V)
  BY VotersAssumption, FS_Subset
<1>2. IsFiniteSet(A) /\ IsFiniteSet(B)
  BY <1>1, FS_Intersection
<1>3. /\ Cardinality(A) \in Nat
      /\ Cardinality(B) \in Nat
      /\ Cardinality(V) \in Nat
  BY <1>1, <1>2, FS_CardinalityType
<1>4. Cardinality(A) * 2 > Cardinality(V)
      /\ Cardinality(B) * 2 > Cardinality(V)
  BY DEF IsMajority
<1>5. A \subseteq V /\ B \subseteq V
  OBVIOUS
<1> HIDE DEF A, B
<1>6. Cardinality(A) + Cardinality(B) > Cardinality(V)
  BY <1>3, <1>4
<1>7. A \cap B # {}
  BY <1>1, <1>5, <1>6, FS_MajoritiesIntersect
<1> QED BY <1>7 DEF A, B

\* Majorities of two configurations that differ by one server share a voter,
\* if the second has the server that the first has not.
LEMMA OneMoreMeets ==
    ASSUME NEW V \in SUBSET Node, NEW a \in Node, a \notin V, NEW S, NEW T,
           IsMajority(S, V), IsMajority(T, V \cup {a})
    PROVE  \E v \in S \cap T : v \in V
<1> DEFINE A == S \cap V
           W == V \cup {a}
           B == T \cap W
           C == T \cap V
<1>1. IsFiniteSet(V) /\ IsFiniteSet(W)
  BY VotersAssumption, FS_Subset
<1>2. IsFiniteSet(A) /\ IsFiniteSet(B) /\ IsFiniteSet(C)
  BY <1>1, FS_Intersection
<1>3. /\ Cardinality(A) \in Nat /\ Cardinality(B) \in Nat /\ Cardinality(C) \in Nat
      /\ Cardinality(V) \in Nat /\ Cardinality(W) \in Nat
  BY <1>1, <1>2, FS_CardinalityType
<1>4. Cardinality(A) * 2 > Cardinality(V) /\ Cardinality(B) * 2 > Cardinality(W)
  BY DEF IsMajority
<1>5. Cardinality(W) = Cardinality(V) + 1
  BY <1>1, FS_AddElement
<1>6. Cardinality(B) <= Cardinality(C) + 1
  <2>1. CASE a \in T
    <3>1. B = C \cup {a} /\ a \notin C
      BY <2>1
    <3>2. Cardinality(C \cup {a}) = Cardinality(C) + 1
      BY <1>2, <3>1, FS_AddElement
    <3> HIDE DEF B, C
    <3>3. Cardinality(B) = Cardinality(C) + 1
      BY <3>1, <3>2
    <3> QED BY <1>3, <3>3
  <2>2. CASE a \notin T
    <3>1. B = C
      BY <2>2
    <3> QED BY <1>3, <3>1
  <2> QED BY <2>1, <2>2
<1>7. A \subseteq V /\ C \subseteq V
  OBVIOUS
<1> HIDE DEF A, B, C, W
<1>8. Cardinality(A) + Cardinality(C) > Cardinality(V)
  BY <1>3, <1>4, <1>5, <1>6
<1>9. A \cap C # {}
  BY <1>1, <1>7, <1>8, FS_MajoritiesIntersect
<1> QED BY <1>9 DEF A, C

\* Majorities of neighbouring configurations share a voter.
LEMMA NeighboursMeet ==
    ASSUME NEW V \in SUBSET Node, NEW W \in SUBSET Node, OneApart(V, W), NEW S, NEW T,
           IsMajority(S, V), IsMajority(T, W)
    PROVE  \E v \in S \cap T : v \in V \cap W
<1>1. PICK a : (V \ W) \cup (W \ V) = {a}
  <2>1. IsFiniteSet((V \ W) \cup (W \ V))
    BY VotersAssumption, FS_Subset
  <2> QED BY <2>1, FS_Singleton DEF OneApart
<1>2. CASE a \in W
  <2>1. W = V \cup {a} /\ a \notin V /\ a \in Node
    BY <1>1, <1>2
  <2> QED BY <2>1, OneMoreMeets
<1>3. CASE a \notin W
  <2>1. V = W \cup {a} /\ a \notin W /\ a \in Node
    BY <1>1, <1>3
  <2>2. \E v \in T \cap S : v \in W
    BY <2>1, OneMoreMeets
  <2> QED BY <2>1, <2>2
<1> QED BY <1>2, <1>3

LEMMA NeighboursAreMutual ==
    ASSUME NEW V, NEW W, OneApart(V, W) PROVE OneApart(W, V)
<1>1. (V \ W) \cup (W \ V) = (W \ V) \cup (V \ W)
  OBVIOUS
<1> QED BY <1>1 DEF OneApart

\* A voter of x in a term is pledged to it, so two elected servers are one.
LEMMA ElectedOnce ==
    ASSUME GrantsArePledged, NEW t, NEW x \in Node, NEW y \in Node,
           Pledged(node[x], msgs, x, t, x), Pledged(node[y], msgs, y, t, y),
           NEW v \in Ballots(msgs, t, x) \cap Ballots(msgs, t, y)
    PROVE  x = y
<1>1. Pledged(node[v], msgs, v, t, x) /\ Pledged(node[v], msgs, v, t, y)
  BY DEF Ballots, GrantsArePledged
<1>2. CASE v = x /\ v = y
  BY <1>2
<1>3. CASE v # x
  <2>1. PICK m \in msgs : IsGrant(m) /\ m.src = v /\ m.dst = x /\ m.term = t
    BY <1>3 DEF Ballots
  <2> QED BY <1>1, <2>1 DEF Pledged
<1>4. CASE v # y
  <2>1. PICK m \in msgs : IsGrant(m) /\ m.src = v /\ m.dst = y /\ m.term = t
    BY <1>4 DEF Ballots
  <2> QED BY <1>1, <2>1 DEF Pledged
<1> QED BY <1>2, <1>3, <1>4

LEMMA InvIsSafe == ElectionInv => ElectionSafety
<1> SUFFICES ASSUME ElectionInv, NEW x \in leaders, NEW y \in leaders, x[1] = y[1]
             PROVE  x[2] = y[2]
  BY DEF ElectionSafety
<1>1. x[2] \in Node /\ y[2] \in Node
  BY DEF ElectionInv, VoteInv, TypeOK
<1> DEFINE S == Ballots(msgs, x[1], x[2])
           T == Ballots(msgs, y[1], y[2])
<1>2. IsMajority(S, InitialVoters) /\ IsMajority(T, InitialVoters)
  BY DEF ElectionInv
<1>3. \E v \in S \cap T : TRUE
  <2> HIDE DEF S, T
  <2> QED BY <1>2, VotersAssumption, MajoritiesMeet
<1>4. /\ Pledged(node[x[2]], msgs, x[2], x[1], x[2])
      /\ Pledged(node[y[2]], msgs, y[2], y[1], y[2])
      /\ GrantsArePledged
  BY DEF ElectionInv, VoteInv
<1> QED BY <1>1, <1>3, <1>4, ElectedOnce

---------------------------------------------------------------------------
(* An election step preserves the invariant. *)

\* What is pledged stays pledged.
LEMMA PledgesStay ==
    ASSUME TypeOK, NEW i \in Node, NEW e, Step(i, e), ElectionStep(i, node[i], e),
           NEW v \in Node, NEW t \in Nat, NEW x \in Node, Pledged(node[v], msgs, v, t, x)
    PROVE  Pledged(node'[v], msgs', v, t, x)
<1>1. /\ node \in [Node -> NodeState]
      /\ node' = [node EXCEPT ![i] = e.node]
      /\ msgs' = msgs \cup e.out
  BY DEF TypeOK, Step
<1>2. /\ KeepsVote(node[i], e.node)
      /\ GrantsItsVote(i, e)
  BY DEF ElectionStep
<1>3. x # None
  BY NoneAssumption
<1>4. CASE v = i
  <2>1. node'[v] = e.node
    BY <1>1, <1>4
  <2>2. node[i].term \in Nat /\ e.node.term \in Nat
    BY <1>1 DEF NodeState, ElectionStep, GoodEffect
  <2>3. t <= e.node.term
    BY <1>2, <1>4, <2>2 DEF Pledged, KeepsVote
  <2>4. t = e.node.term => e.node.voted_for = x
    BY <1>2, <1>3, <1>4, <2>2 DEF Pledged, KeepsVote
  <2>5. \A m \in msgs' : IsGrant(m) /\ m.src = v /\ m.term = t => m.dst = x
    BY <1>1, <1>2, <2>4 DEF Pledged, GrantsItsVote
  <2> QED BY <2>1, <2>3, <2>4, <2>5 DEF Pledged
<1>5. CASE v # i
  <2>1. node'[v] = node[v]
    BY <1>1, <1>5
  <2>2. \A m \in msgs' : IsGrant(m) /\ m.src = v => m \in msgs
    BY <1>1, <1>2, <1>5 DEF GrantsItsVote
  <2> QED BY <2>1, <2>2 DEF Pledged
<1> QED BY <1>4, <1>5

LEMMA BallotsStay ==
    ASSUME NEW i, NEW e, Step(i, e), NEW t, NEW x
    PROVE  Ballots(msgs, t, x) \subseteq Ballots(msgs', t, x)
<1>1. msgs \subseteq msgs'
  BY DEF Step
<1> QED BY <1>1 DEF Ballots

LEMMA GrantsStayPledged ==
    ASSUME TypeOK, GrantsArePledged, NEW i \in Node, NEW e, Step(i, e),
           ElectionStep(i, node[i], e)
    PROVE  GrantsArePledged'
<1>1. /\ node \in [Node -> NodeState]
      /\ node' = [node EXCEPT ![i] = e.node]
      /\ msgs \subseteq Message
      /\ msgs' = msgs \cup e.out
      /\ GrantsItsVote(i, e)
  BY DEF TypeOK, Step, ElectionStep
<1>2. ASSUME NEW m \in msgs, IsGrant(m) PROVE Pledged(node'[m.src], msgs', m.src, m.term, m.dst)
  <2>1. m.src \in Node /\ m.dst \in Node /\ m.term \in Nat
    BY <1>1 DEF Message
  <2> QED BY <1>2, <2>1, PledgesStay DEF GrantsArePledged
<1>3. ASSUME NEW r \in e.out, IsGrant(r) PROVE Pledged(node'[r.src], msgs', r.src, r.term, r.dst)
  <2>1. r.src = i /\ r.term = e.node.term /\ r.dst = e.node.voted_for
    BY <1>1, <1>3 DEF GrantsItsVote
  <2>2. node'[i] = e.node
    BY <1>1
  <2>3. e.node.term <= e.node.term
    BY DEF ElectionStep, GoodEffect, NodeState
  <2>4. \A m \in e.out : IsGrant(m) => m.dst = r.dst
    BY <1>1, <2>1 DEF GrantsItsVote
  <2>5. ASSUME NEW m \in msgs, IsGrant(m), m.src = i, m.term = r.term
        PROVE  m.dst = r.dst
    BY <1>2, <2>1, <2>2, <2>5 DEF Pledged
  <2> QED BY <1>1, <2>1, <2>2, <2>3, <2>4, <2>5 DEF Pledged
<1> QED BY <1>1, <1>2, <1>3 DEF GrantsArePledged

LEMMA BallotsStayMajority ==
    ASSUME NEW V \in SUBSET Node, NEW i, NEW e, Step(i, e), NEW t, NEW x,
           IsMajority(Ballots(msgs, t, x), V)
    PROVE  IsMajority(Ballots(msgs', t, x), V)
<1> DEFINE S == Ballots(msgs, t, x)
           T == Ballots(msgs', t, x)
<1>1. S \subseteq T
  BY BallotsStay
<1> HIDE DEF S, T
<1>2. IsMajority(S, V)
  BY DEF S
<1>3. IsMajority(T, V)
  BY <1>1, <1>2, MoreIsMajority
<1> QED BY <1>3 DEF T

\* A server that keeps its role, its term and its votes.
LEMMA StaysAmbitious ==
    ASSUME TypeOK, NEW i \in Node, NEW e, Step(i, e), ElectionStep(i, node[i], e),
           NEW j \in Node, Ambitious(node[j], msgs, j), NEW n \in NodeState, n = node'[j],
           n.role = node[j].role, n.term = node[j].term, n.votes = node[j].votes
    PROVE  Ambitious(n, msgs', j)
<1> SUFFICES ASSUME n.role # "follower" PROVE Ambitious(n, msgs', j)
  BY DEF Ambitious
<1>1. n.term \in Nat
  BY DEF NodeState
<1>2. Pledged(n, msgs', j, n.term, j)
  BY <1>1, PledgesStay DEF Ambitious
<1>3. n.role = "candidate" => n.votes \subseteq Ballots(msgs', n.term, j)
  BY BallotsStay DEF Ambitious
<1> QED BY <1>2, <1>3 DEF Ambitious

\* A server that stands for election.
LEMMA StandingIsAmbitious ==
    ASSUME TypeOK, GrantsArePledged, NEW i \in Node, NEW e, Step(i, e),
           GoodEffect(e), Stands(i, node[i], e)
    PROVE  Ambitious(e.node, msgs', i)
<1>1. /\ node \in [Node -> NodeState]
      /\ node' = [node EXCEPT ![i] = e.node]
      /\ msgs' = msgs \cup e.out
      /\ msgs \subseteq Message
  BY DEF TypeOK, Step
<1>2. node[i].term \in Nat /\ e.node.term = node[i].term + 1 /\ e.node.voted_for = i
  BY <1>1 DEF NodeState, Stands
<1>3. Pledged(e.node, msgs', i, e.node.term, i)
  <2>1. ASSUME NEW m \in msgs', IsGrant(m), m.src = i, m.term = e.node.term PROVE FALSE
    <3>1. m \in msgs
      BY <1>1, <2>1 DEF Stands
    <3>2. m.term <= node[i].term
      BY <2>1, <3>1 DEF GrantsArePledged, Pledged
    <3> QED BY <1>2, <2>1, <3>2
  <2> QED BY <1>2, <2>1 DEF Pledged
<1>4. e.node.votes \subseteq Ballots(msgs', e.node.term, i)
  BY DEF Stands, Ballots
<1> QED BY <1>3, <1>4 DEF Ambitious

\* A candidate that counts a vote.
LEMMA CountingIsAmbitious ==
    ASSUME TypeOK, NEW i \in Node, NEW e, Step(i, e), ElectionStep(i, node[i], e),
           Ambitious(node[i], msgs, i),
           NEW m \in msgs, IsGrant(m), m.dst = i, Counts(node[i], m, e)
    PROVE  Ambitious(e.node, msgs', i)
<1>1. node[i].term \in Nat /\ e.node.term = node[i].term /\ node[i].role = "candidate"
  BY DEF TypeOK, NodeState, Counts
<1>2. Pledged(e.node, msgs', i, e.node.term, i)
  <2>1. node'[i] = e.node
    BY DEF TypeOK, Step
  <2> QED BY <1>1, <2>1, PledgesStay DEF Ambitious
<1>3. m.src \in Node
  BY DEF TypeOK, Message
<1>4. e.node.votes \subseteq Ballots(msgs, e.node.term, i)
  BY <1>1, <1>3 DEF Ambitious, Counts, Ballots
<1>5. e.node.votes \subseteq Ballots(msgs', e.node.term, i)
  BY <1>4, BallotsStay
<1> QED BY <1>2, <1>5 DEF Ambitious

\* Whoever becomes leader holds the votes of a majority of its configuration.
LEMMA LeaderHasWon ==
    ASSUME VoteInv, NEW i \in Node, NEW e, Step(i, e), ElectionStep(i, node[i], e),
           e.node.role = "leader"
    PROVE  \/ node[i].role = "leader" /\ e.node.term = node[i].term
           \/ IsMajority(Ballots(msgs', e.node.term, i), node[i].voters)
<1>1. node[i] \in NodeState /\ e.node \in NodeState /\ node[i].voters \in SUBSET Node
  BY DEF VoteInv, TypeOK, ElectionStep, GoodEffect, NodeState
<1> DEFINE T == Ballots(msgs', e.node.term, i)
<1>2. e.node.votes \subseteq T /\ IsMajority(e.node.votes, node[i].voters) => IsMajority(T, node[i].voters)
  <2> HIDE DEF T
  <2> QED BY <1>1, MoreIsMajority
<1>3. CASE Stands(i, node[i], e)
  <2>1. e.node.votes \subseteq T /\ IsMajority(e.node.votes, node[i].voters)
    BY <1>3 DEF Stands, Ballots
  <2> QED BY <1>2, <2>1
<1>4. ASSUME NEW m \in msgs, IsGrant(m), m.dst = i, Counts(node[i], m, e)
      PROVE  IsMajority(T, node[i].voters)
  <2>1. IsMajority(e.node.votes, node[i].voters)
    BY <1>4 DEF Counts
  <2>2. m.src \in Node
    BY DEF VoteInv, TypeOK, Message
  <2>3. e.node.votes \subseteq Ballots(msgs, e.node.term, i)
    BY <1>4, <2>2 DEF VoteInv, Ambitious, Counts, Ballots
  <2>4. Ballots(msgs, e.node.term, i) \subseteq T
    BY BallotsStay
  <2> QED BY <1>2, <2>1, <2>3, <2>4
<1> QED BY <1>3, <1>4 DEF ElectionStep, TakesPart, SameStanding

LEMMA AllStayAmbitious ==
    ASSUME VoteInv, NEW i \in Node, NEW e, Step(i, e), ElectionStep(i, node[i], e)
    PROVE  \A j \in Node : Ambitious(node'[j], msgs', j)
<1>1. /\ TypeOK
      /\ node \in [Node -> NodeState]
      /\ node' = [node EXCEPT ![i] = e.node]
      /\ e.node \in NodeState
  BY DEF VoteInv, TypeOK, Step, ElectionStep, GoodEffect
<1>2. ASSUME NEW j \in Node, j # i PROVE Ambitious(node'[j], msgs', j)
  <2>1. node'[j] = node[j] /\ node[j] \in NodeState
    BY <1>1, <1>2
  <2>2. Ambitious(node[j], msgs', j)
    BY <1>1, <2>1, StaysAmbitious DEF VoteInv
  <2> QED BY <2>1, <2>2
<1>3. Ambitious(e.node, msgs', i)
  <2> SUFFICES ASSUME e.node.role # "follower" PROVE Ambitious(e.node, msgs', i)
    BY DEF Ambitious
  <2>1. Ambitious(node[i], msgs, i) /\ GrantsArePledged
    BY DEF VoteInv
  <2>2. CASE SameStanding(node[i], e.node)
    BY <1>1, <2>1, <2>2, StaysAmbitious DEF SameStanding
  <2>3. CASE Stands(i, node[i], e)
    BY <1>1, <2>1, <2>3, StandingIsAmbitious DEF ElectionStep
  <2>4. ASSUME NEW m \in msgs, IsGrant(m), m.dst = i, Counts(node[i], m, e)
        PROVE  Ambitious(e.node, msgs', i)
    BY <1>1, <2>1, <2>4, CountingIsAmbitious
  <2>5. CASE /\ node[i].role = e.node.role
             /\ node[i].term = e.node.term
             /\ node[i].votes = e.node.votes
    BY <1>1, <2>1, <2>5, StaysAmbitious
  <2> QED BY <2>2, <2>3, <2>4, <2>5 DEF ElectionStep, TakesPart
<1>4. node'[i] = e.node
  BY <1>1
<1> QED BY <1>2, <1>3, <1>4

LEMMA AllStaySettled ==
    ASSUME TypeOK, AllSettled, NEW i \in Node, NEW e, Step(i, e), SettledEffect(e)
    PROVE  AllSettled'
BY DEF TypeOK, AllSettled, Step, SettledEffect

LEMMA LeadersStayPledged ==
    ASSUME VoteInv, NEW i \in Node, NEW e, Step(i, e), ElectionStep(i, node[i], e),
           Ambitious(e.node, msgs', i)
    PROVE  /\ \A j \in Node : node'[j].role = "leader" => <<node'[j].term, j>> \in leaders'
           /\ \A x \in leaders' : Pledged(node'[x[2]], msgs', x[2], x[1], x[2])
<1>1. /\ TypeOK /\ leaders \subseteq Nat \X Node
      /\ node' = [node EXCEPT ![i] = e.node] /\ node'[i] = e.node
      /\ leaders' = leaders \cup (IF e.node.role = "leader" THEN {<<e.node.term, i>>} ELSE {})
  BY DEF VoteInv, TypeOK, Step, ObserveLeader
<1>2. \A x \in leaders : Pledged(node'[x[2]], msgs', x[2], x[1], x[2])
  BY <1>1, PledgesStay DEF VoteInv
<1>3. e.node.role = "leader" => Pledged(node'[i], msgs', i, e.node.term, i)
  BY <1>1 DEF Ambitious
<1>4. \A x \in leaders' :
        x \in leaders \/ (e.node.role = "leader" /\ x[1] = e.node.term /\ x[2] = i)
  BY <1>1
<1>5. \A j \in Node : node'[j].role = "leader" => <<node'[j].term, j>> \in leaders'
  BY <1>1 DEF VoteInv, TypeOK
<1> QED BY <1>2, <1>3, <1>4, <1>5

\* The invariant holds initially and every step preserves it.
LEMMA ElectionsBegin == Init => ElectionInv
<1> SUFFICES ASSUME Init PROVE ElectionInv
  OBVIOUS
<1>1. TypeOK
  BY InitType
<1>2. /\ \A i \in Node : node[i] = InitNode
      /\ msgs = {}
      /\ leaders = {}
  BY DEF Init
<1>3. Settled(InitNode) /\ InitNode.role = "follower"
  BY DEF Settled, Plain, InitNode, NoSnapshot
<1> QED BY <1>1, <1>2, <1>3 DEF ElectionInv, VoteInv, AllSettled, GrantsArePledged, Ambitious

LEMMA VotesStay ==
    ASSUME VoteInv, NEW i \in Node, NEW e, Step(i, e), ElectionStep(i, node[i], e)
    PROVE  VoteInv'
<1>1. TypeOK /\ GrantsArePledged
  BY DEF VoteInv
<1>2. TypeOK'
  BY <1>1, StepType DEF ElectionStep
<1>3. GrantsArePledged'
  BY <1>1, GrantsStayPledged
<1>4. \A j \in Node : Ambitious(node'[j], msgs', j)
  BY AllStayAmbitious
<1>5. /\ \A j \in Node : node'[j].role = "leader" => <<node'[j].term, j>> \in leaders'
      /\ \A x \in leaders' : Pledged(node'[x[2]], msgs', x[2], x[1], x[2])
  <2>1. node'[i] = e.node
    BY <1>1 DEF TypeOK, Step
  <2> QED BY <1>4, <2>1, LeadersStayPledged
<1> QED BY <1>2, <1>3, <1>4, <1>5 DEF VoteInv

LEMMA ElectionsStay ==
    ASSUME ElectionInv, NEW i \in Node, NEW e, Step(i, e), ElectionStep(i, node[i], e),
           SettledEffect(e)
    PROVE  ElectionInv'
<1>1. VoteInv /\ TypeOK /\ AllSettled
  BY DEF ElectionInv, VoteInv
<1>2. VoteInv'
  BY <1>1, VotesStay
<1>3. AllSettled'
  BY <1>1, AllStaySettled
<1>4. ASSUME NEW x \in leaders'
      PROVE  IsMajority(Ballots(msgs', x[1], x[2]), InitialVoters)
  <2>1. x \in leaders \/ (e.node.role = "leader" /\ x[1] = e.node.term /\ x[2] = i)
    BY DEF Step, ObserveLeader
  <2>2. \A y \in leaders : IsMajority(Ballots(msgs', y[1], y[2]), InitialVoters)
    BY VotersAssumption, BallotsStayMajority DEF ElectionInv
  <2>3. node[i].voters = InitialVoters
    BY <1>1 DEF AllSettled, Settled
  <2>4. CASE node[i].role = "leader" /\ e.node.term = node[i].term
    <3>1. <<node[i].term, i>> \in leaders
      BY <1>1, <2>4 DEF VoteInv
    <3> QED BY <2>1, <2>2, <2>4, <3>1
  <2> QED BY <1>1, <2>1, <2>2, <2>3, <2>4, LeaderHasWon
<1>5. \A x \in leaders' : IsMajority(Ballots(msgs, x[1], x[2]), InitialVoters)'
  BY <1>4
<1> QED BY <1>2, <1>3, <1>5 DEF ElectionInv

LEMMA VotesStutter ==
    ASSUME VoteInv, UNCHANGED vars
    PROVE  VoteInv'
<1>1. node' = node /\ msgs' = msgs /\ leaders' = leaders
  BY DEF vars
<1>2. TypeOK'
  BY NextType DEF VoteInv
<1> QED BY <1>1, <1>2 DEF VoteInv, GrantsArePledged

LEMMA ElectionsStutter ==
    ASSUME ElectionInv, UNCHANGED vars
    PROVE  ElectionInv'
<1>1. node' = node /\ msgs' = msgs /\ leaders' = leaders
  BY DEF vars
<1>2. VoteInv'
  BY VotesStutter DEF ElectionInv
<1> QED BY <1>1, <1>2 DEF ElectionInv, AllSettled

(***************************************************************************)
(* Election Safety: in a cluster of any size whose membership nobody       *)
(* changes, no two servers are ever seen leading the same term, with any   *)
(* schedule of crashes, restarts, lost, repeated and overtaken messages.   *)
(***************************************************************************)
THEOREM OneLeaderPerTerm ==
    ASSUME Proposals = {}
    PROVE  Spec => []ElectionSafety
<1>1. ElectionInv /\ [Next]_vars => ElectionInv'
  <2> SUFFICES ASSUME ElectionInv, Next PROVE ElectionInv'
    BY ElectionsStutter
  <2>1. TypeOK /\ AllSettled
    BY DEF ElectionInv, VoteInv
  <2>2. PICK i \in Node : \E e : Step(i, e) /\ ElectionStep(i, node[i], e) /\ SettledEffect(e)
    BY <2>1, EveryStep
  <2>3. PICK e : Step(i, e) /\ ElectionStep(i, node[i], e) /\ SettledEffect(e)
    BY <2>2
  <2> QED BY <2>3, ElectionsStay
<1>2. ElectionInv => ElectionSafety
  BY InvIsSafe
<1> QED BY <1>1, <1>2, ElectionsBegin, PTL DEF Spec

---------------------------------------------------------------------------
(* The timers. *)

\* A leader has voted for itself and hears no other leader of its term.
LEMMA LeaderStandsAlone ==
    ASSUME VoteInv, ElectionSafety, TimerInv, NEW i \in Node, node[i].role = "leader"
    PROVE  /\ node[i].voted_for = i
           /\ \A m \in msgs : m.type = "ReadHeartbeat" /\ m.dst = i => m.term # node[i].term
<1>1. node[i].term \in Nat
  BY DEF VoteInv, TypeOK, NodeState
<1>2. Pledged(node[i], msgs, i, node[i].term, i)
  BY DEF VoteInv, Ambitious
<1>3. node[i].voted_for = i
  BY <1>1, <1>2 DEF Pledged
<1>4. ElectionSafety
  OBVIOUS
<1>5. <<node[i].term, i>> \in leaders
  BY DEF VoteInv
<1>6. ASSUME NEW m \in msgs, m.type = "ReadHeartbeat", m.dst = i, m.term = node[i].term
      PROVE  FALSE
  <2>1. m.src # i /\ <<m.term, m.src>> \in leaders
    BY <1>6 DEF TimerInv, CallsOthers
  <2> DEFINE x == <<m.term, m.src>>
             y == <<node[i].term, i>>
  <2>2. x \in leaders /\ y \in leaders /\ x[1] = y[1]
    BY <1>5, <1>6, <2>1
  <2>3. x[2] = y[2]
    BY <1>4, <2>2 DEF ElectionSafety
  <2> QED BY <2>1, <2>3
<1> QED BY <1>3, <1>6

LEMMA DeliverAwake ==
    ASSUME VoteInv, ElectionSafety, TimerInv, NEW m \in msgs, NEW i \in Node, m.dst = i, node[i].alive
    PROVE  StaysAwake(i, handle(i, node[i], m))
<1>1. m \in Message /\ node[i] \in NodeState
  BY DEF VoteInv, TypeOK
<1>2. Awake(node[i])
  BY DEF TimerInv, Waits, Awake
<1>3. CASE m.type = "RequestVote"
  <2>1. m.src # i
    BY <1>3 DEF TimerInv, CallsOthers
  <2>2. node[i].role = "leader" => node[i].voted_for = i
    BY LeaderStandsAlone
  <2>3. handle(i, node[i], m) = _on_request_vote(i, node[i], m)
    BY <1>3 DEF handle
  <2> QED BY <1>1, <1>2, <1>3, <2>1, <2>2, <2>3, RequestVoteAwake
<1>4. CASE m.type = "ReadHeartbeat"
  <2>1. node[i].role = "leader" => m.term # node[i].term
    BY <1>4, LeaderStandsAlone
  <2>2. handle(i, node[i], m) = _on_read_heartbeat(i, node[i], m)
    BY <1>4 DEF handle
  <2> QED BY <1>1, <1>2, <1>4, <2>1, <2>2, ReadHeartbeatAwake
<1>5. CASE m.type \notin {"RequestVote", "ReadHeartbeat"}
  <2>1. m.type \in {"VoteReply", "AppendEntries", "AppendReply", "InstallSnapshot", "ReadAck"}
    BY <1>1, <1>5 DEF Message
  <2> QED BY <1>1, <1>2, <2>1, VoteReplyAwake, AppendEntriesAwake, AppendReplyAwake,
             InstallSnapshotAwake, ReadAckAwake DEF handle
<1> QED BY <1>3, <1>4, <1>5

LEMMA PerformsAwake ==
    ASSUME VoteInv, ElectionSafety, TimerInv, NEW i \in Node, NEW e, Performs(i, e)
    PROVE  StaysAwake(i, e) \/ e = Silent(pause(node[i]))
<1>1. node[i] \in NodeState /\ \A c \in Client : next_req[c] \in Nat
  BY DEF VoteInv, TypeOK
<1>2. node[i].alive => Awake(node[i])
  BY DEF TimerInv, Waits, Awake
<1>3. CASE node[i].alive /\ \E m \in msgs : m.dst = i /\ e = handle(i, node[i], m)
  BY <1>3, DeliverAwake
<1>4. CASE node[i].alive /\ node[i].role # "leader" /\ e = start_election(i, node[i])
  BY <1>1, <1>2, <1>4, StartElectionAwake
<1>5. CASE Leads(i)
  <2>1. node[i].alive /\ node[i].role = "leader"
    BY <1>5 DEF Leads
  <2>2. CASE e = HeartbeatTimeout(i, node[i])
    BY <1>1, <1>2, <2>1, <2>2, HeartbeatTimeoutAwake
  <2>3. CASE \E c \in Client : e = client_command(i, node[i], c, next_req[c])
    BY <1>1, <1>2, <2>1, <2>3, ClientCommandAwake
  <2>4. CASE \E c \in Client : e = request_read(i, node[i], c, next_req[c])
    BY <1>1, <1>2, <2>1, <2>4, RequestReadAwake
  <2>5. CASE \E V \in Proposals : e = change_config(i, node[i], V)
    BY <1>1, <1>2, <2>1, <2>5, ChangeConfigAwake, EnvironmentAssumption
  <2>6. CASE e = Silent(pause(node[i]))
    BY <2>6
  <2> QED BY <1>3, <1>4, <2>1, <2>2, <2>3, <2>4, <2>5, <2>6 DEF Performs
<1>6. CASE ~node[i].alive /\ e = Silent(resume(node[i]))
  <2>1. node[i].role = "follower"
    BY <1>6 DEF TimerInv, Waits
  <2> QED BY <1>1, <1>6, <2>1, ResumeWakes, SilentAwake
<1> QED BY <1>3, <1>4, <1>5, <1>6 DEF Performs

LEMMA TimersStay ==
    ASSUME VoteInv, TimerInv, NEW i \in Node, NEW e, Step(i, e), GoodEffect(e),
           StaysAwake(i, e) \/ e = Silent(pause(node[i]))
    PROVE  TimerInv'
<1>1. /\ node \in [Node -> NodeState]
      /\ node' = [node EXCEPT ![i] = e.node]
      /\ msgs' = msgs \cup e.out
      /\ leaders' = leaders \cup (IF e.node.role = "leader" THEN {<<e.node.term, i>>} ELSE {})
  BY DEF VoteInv, TypeOK, Step, ObserveLeader
<1>2. Waits(e.node) /\ \A r \in e.out : Calls(i, e.node, r)
  <2>1. CASE StaysAwake(i, e)
    BY <2>1 DEF StaysAwake, Awake, Waits
  <2>2. CASE e = Silent(pause(node[i]))
    <3>1. e.node = pause(node[i]) /\ e.out = {}
      BY <2>2 DEF Silent, Effect
    <3>2. node[i] \in NodeState
      BY <1>1
    <3> QED BY <3>1, <3>2, PauseSleeps DEF Waits
  <2> QED BY <2>1, <2>2
<1>3. \A j \in Node : Waits(node'[j])
  BY <1>1, <1>2 DEF TimerInv
<1>5. \A m \in msgs' : /\ m.type = "RequestVote" => m.src # m.dst
                       /\ m.type = "ReadHeartbeat" =>
                              m.src # m.dst /\ <<m.term, m.src>> \in leaders'
  <2>1. ASSUME NEW m \in msgs
        PROVE  /\ m.type = "RequestVote" => m.src # m.dst
               /\ m.type = "ReadHeartbeat" =>
                      m.src # m.dst /\ <<m.term, m.src>> \in leaders'
    BY <1>1 DEF TimerInv, CallsOthers
  <2>2. ASSUME NEW m \in e.out
        PROVE  /\ m.type = "RequestVote" => m.src # m.dst
               /\ m.type = "ReadHeartbeat" =>
                      m.src # m.dst /\ <<m.term, m.src>> \in leaders'
    BY <1>1, <1>2 DEF Calls
  <2> QED BY <1>1, <2>1, <2>2
<1> QED BY <1>3, <1>5 DEF TimerInv, CallsOthers, Waits

LEMMA TimersBegin == Init => TimerInv
BY DEF Init, TimerInv, Waits, InitNode, CallsOthers

(***************************************************************************)
(* A server that is up always waits for what its role makes it wait for, a *)
(* leader for its next heartbeat and any other for an election, in a       *)
(* cluster of any size whose membership nobody changes, with snapshots,    *)
(* reads, crashes and restarts: no handler leaves a server with nothing to *)
(* wake it, or with the wrong alarm.                                       *)
(***************************************************************************)
THEOREM ServersStayAwake ==
    ASSUME Proposals = {}
    PROVE  Spec => []TimerMatchesRole
<1>1. ElectionInv /\ TimerInv /\ [Next]_vars => ElectionInv' /\ TimerInv'
  <2> SUFFICES ASSUME ElectionInv, TimerInv, [Next]_vars PROVE ElectionInv' /\ TimerInv'
    OBVIOUS
  <2>1. CASE UNCHANGED vars
    <3>1. node' = node /\ msgs' = msgs /\ leaders' = leaders
      BY <2>1 DEF vars
    <3>2. TimerInv'
      BY <3>1 DEF TimerInv, Waits, CallsOthers
    <3> QED BY <2>1, <3>2, ElectionsStutter
  <2>2. CASE Next
    <3>1. TypeOK /\ AllSettled /\ VoteInv /\ ElectionSafety
      BY InvIsSafe DEF ElectionInv, VoteInv
    <3>2. PICK i \in Node : \E e : /\ Step(i, e)
                                   /\ Performs(i, e)
                                   /\ ElectionStep(i, node[i], e)
                                   /\ SettledEffect(e)
      BY <2>2, <3>1, EveryStep
    <3>3. PICK e : Step(i, e) /\ Performs(i, e) /\ ElectionStep(i, node[i], e) /\ SettledEffect(e)
      BY <3>2
    <3>4. StaysAwake(i, e) \/ e = Silent(pause(node[i]))
      BY <3>1, <3>3, PerformsAwake
    <3>5. GoodEffect(e)
      BY <3>3 DEF ElectionStep
    <3> QED BY <3>1, <3>3, <3>4, <3>5, ElectionsStay, TimersStay
  <2> QED BY <2>1, <2>2
<1>2. TimerInv => TimerMatchesRole
  BY DEF TimerInv, Waits, TimerMatchesRole
<1> QED BY <1>1, <1>2, ElectionsBegin, TimersBegin, PTL DEF Spec

---------------------------------------------------------------------------
(* Configurations: what each operation of RaftNode does to the log and to  *)
(* the configuration, and then what each action of the cluster does.       *)

---------------------------------------------------------------------------
(* Operations that leave the log and the configuration alone. *)

\* A server whose log is whole and names its configuration.
Governed(n) == Bare(n) /\ Governs(n.log, n.voters, n.config_index)

SameConfig(n, p) ==
    /\ p.log = n.log /\ p.snapshot = n.snapshot
    /\ p.voters = n.voters /\ p.config_index = n.config_index

\* An effect after which the server is governed, and that sends no snapshot.
GovernedEffect(e) == Governed(e.node) /\ \A r \in e.out : r.type # "InstallSnapshot"

LEMMA SameIsGoverned ==
    ASSUME NEW n, Governed(n), NEW p, SameConfig(n, p)
    PROVE  Governed(p)
BY DEF Governed, Bare, SameConfig

LEMMA SameIsSound ==
    ASSUME NEW n, Governed(n), NEW e, SameConfig(n, e.node),
           \A r \in e.out : r.type # "InstallSnapshot"
    PROVE  GovernedEffect(e)
BY SameIsGoverned DEF GovernedEffect

LEMMA FollowerSame ==
    ASSUME NEW n \in NodeState, NEW t
    PROVE  SameConfig(n, _become_follower(n, t))
BY DEF SameConfig, _become_follower, NodeState

(***************************************************************************)
(* A server without a snapshot sends none: next_index stays above 0.       *)
(***************************************************************************)
LEMMA SendsNoSnapshot ==
    ASSUME NEW i, NEW n \in NodeState, Bare(n), NEW p \in Node
    PROVE  _send_append_entries(i, n, p).type # "InstallSnapshot"
<1>1. n.next_index[p] \in Nat \ {0}
  BY DEF NodeState
<1>2. base_index(n) = 0
  BY DEF Bare, NoSnapshot, base_index
<1>3. ~ (n.next_index[p] - 1 < base_index(n))
  BY <1>1, <1>2
<1> QED BY <1>3 DEF _send_append_entries, AppendEntries

LEMMA BroadcastsNoSnapshot ==
    ASSUME NEW i, NEW n \in NodeState, Bare(n)
    PROVE  \A r \in _broadcast_heartbeats(i, n) : r.type # "InstallSnapshot"
<1>1. n.voters \subseteq Node
  BY DEF NodeState
<1> QED BY <1>1, SendsNoSnapshot DEF _broadcast_heartbeats

\* Without compaction, to commit is to raise the index and to apply.
LEMMA SetCommitIndexSame ==
    ASSUME SnapshotThreshold = 0, NEW n \in NodeState, NEW index
    PROVE  SameConfig(n, _set_commit_index(n, index))
BY DEF _set_commit_index, _maybe_compact, SameConfig, NodeState

---------------------------------------------------------------------------
(* Operations that change the log or the configuration. *)

(***************************************************************************)
(* Rebuilding from the log gives what the log names.                       *)
(***************************************************************************)
LEMMA RebuildGoverns ==
    ASSUME NEW n \in NodeState, Bare(n)
    PROVE  Governed(_rebuild_config(n)) /\ _rebuild_config(n).log = n.log
<1> DEFINE P == ConfigPositions(n)
           p == _rebuild_config(n)
<1>1. n.log \in Seq(Entry) /\ Len(n.log) \in Nat
  BY DEF NodeState
<1>2. base_index(n) = 0 /\ n.snapshot.voters = InitialVoters
  BY DEF Bare, NoSnapshot, base_index
<1>3. P \in SUBSET (1..Len(n.log)) /\ \A j \in 1..Len(n.log) : IsConfig(n.log[j].command) => j \in P
  BY DEF ConfigPositions
<1>4. CASE P = {}
  <2>1. p = [n EXCEPT !.voters = InitialVoters, !.config_index = 0]
    BY <1>2, <1>4 DEF _rebuild_config, _adopt_config
  <2>2. p.log = n.log /\ p.snapshot = n.snapshot /\ p.voters = InitialVoters /\ p.config_index = 0
    BY <2>1 DEF NodeState
  <2> HIDE DEF p, P
  <2> QED BY <1>3, <1>4, <2>2 DEF Governed, Governs, Bare, p
<1>5. CASE P # {}
  <2> DEFINE k == LastOf(P)
  <2>1. k \in P /\ \A j \in P : j <= k
    BY <1>1, <1>3, <1>5, LastOfIsLast
  <2>2. k \in 1..Len(n.log) /\ IsConfig(n.log[k].command)
    BY <2>1 DEF ConfigPositions
  <2>3. p = [n EXCEPT !.voters = n.log[k].command.voters, !.config_index = base_index(n) + k]
    BY <1>5 DEF _rebuild_config, _adopt_config
  <2>4. base_index(n) + k = k
    BY <1>2, <2>2
  <2> HIDE DEF p, k, P
  <2>5. /\ p.log = n.log /\ p.snapshot = n.snapshot
        /\ p.voters = n.log[k].command.voters /\ p.config_index = k
    BY <2>3, <2>4 DEF NodeState
  <2>6. Governs(n.log, n.log[k].command.voters, k)
    BY <1>1, <1>3, <2>1, <2>2 DEF Governs
  <2> QED BY <2>5, <2>6 DEF Governed, Bare, p
<1> QED BY <1>4, <1>5

LEMMA PlainKeepsGoverns ==
    ASSUME NEW log \in Seq(Entry), NEW e \in Entry, ~IsConfig(e.command), NEW new,
           Extends(log, e, new), NEW V, NEW k \in Nat, Governs(log, V, k)
    PROVE  Governs(new, V, k)
<1>1. Len(log) \in Nat
  OBVIOUS
<1>2. ASSUME NEW j \in 1..Len(new), IsConfig(new[j].command) PROVE j <= k
  <2>1. j # Len(log) + 1 /\ j \in 1..Len(log)
    BY <1>1, <1>2 DEF Extends
  <2> QED BY <1>2, <2>1 DEF Extends, Governs
<1>3. CASE k = 0
  BY <1>2, <1>3 DEF Governs
<1>4. CASE k # 0
  <2>1. k \in 1..Len(log) /\ IsConfig(log[k].command) /\ V = log[k].command.voters
    BY <1>1, <1>4 DEF Governs
  <2>2. new[k] = log[k] /\ k <= Len(new)
    BY <1>1, <2>1 DEF Extends
  <2> QED BY <1>2, <1>4, <2>1, <2>2 DEF Governs
<1> QED BY <1>3, <1>4

LEMMA ConfigGoverns ==
    ASSUME NEW log \in Seq(Entry), NEW e \in Entry, IsConfig(e.command), NEW new,
           Extends(log, e, new)
    PROVE  Governs(new, e.command.voters, Len(log) + 1)
<1>1. Len(log) \in Nat
  OBVIOUS
<1> QED BY <1>1 DEF Extends, Governs

(***************************************************************************)
(* A truncation below the entry that governs is seen by comparing indices. *)
(***************************************************************************)
LEMMA CutIsGoverned ==
    ASSUME NEW n \in NodeState, Governed(n), NEW index \in 1..Len(n.log)
    PROVE  LET p == CheckConfig([n EXCEPT !.log = DelFrom(@, _phys(n, index))], index)
           IN  p \in NodeState /\ Governed(p) /\ Len(p.log) = index - 1
<1> DEFINE cut == [n EXCEPT !.log = DelFrom(@, _phys(n, index))]
           new == SubSeq(n.log, 1, index - 1)
           p == CheckConfig(cut, index)
<1>1. n.log \in Seq(Entry) /\ Len(n.log) \in Nat /\ n.config_index \in Nat
  BY DEF NodeState
<1>2. Bare(n)
  BY DEF Governed
<1>3. cut = [n EXCEPT !.log = new]
  BY <1>2, BareCut
<1>4. /\ new \in Seq(Entry) /\ Len(new) = index - 1
      /\ \A j \in 1..(index - 1) : new[j] = n.log[j]
  BY <1>1
<1> HIDE DEF cut, new
<1>5. cut \in NodeState /\ cut.log = new /\ cut.snapshot = n.snapshot
      /\ cut.voters = n.voters /\ cut.config_index = n.config_index
  BY <1>3, <1>4 DEF NodeState
<1>6. Bare(cut)
  BY <1>2, <1>5 DEF Bare
<1>7. CASE n.config_index >= index
  <2>1. p = _rebuild_config(cut)
    BY <1>5, <1>7 DEF CheckConfig
  <2> HIDE DEF p
  <2> QED BY <1>4, <1>5, <1>6, <2>1, RebuildGoverns, RebuildConfigType DEF p, cut
<1>8. CASE ~ (n.config_index >= index)
  <2>1. p = cut
    BY <1>5, <1>8 DEF CheckConfig
  <2>2. Governs(new, n.voters, n.config_index)
    <3>1. Governs(n.log, n.voters, n.config_index)
      BY DEF Governed
    <3>2. n.config_index <= index - 1
      BY <1>1, <1>8
    <3>3. ASSUME NEW j \in 1..Len(new), IsConfig(new[j].command) PROVE j <= n.config_index
      BY <1>1, <1>4, <3>1, <3>3 DEF Governs
    <3>4. CASE n.config_index = 0
      BY <3>1, <3>3, <3>4 DEF Governs
    <3>5. CASE n.config_index # 0
      <4>1. n.config_index \in 1..(index - 1)
        BY <1>1, <3>2, <3>5
      <4>2. new[n.config_index] = n.log[n.config_index]
        BY <1>4, <4>1
      <4> QED BY <1>4, <3>1, <3>2, <3>3, <3>5, <4>2 DEF Governs
    <3> QED BY <3>4, <3>5
  <2> HIDE DEF p
  <2>3. Governed(cut)
    BY <1>5, <1>6, <2>2 DEF Governed
  <2> QED BY <1>4, <1>5, <2>1, <2>3 DEF p, cut
<1> QED BY <1>7, <1>8 DEF cut

(***************************************************************************)
(* A turn of the loop for the entry at an index that the log reaches.      *)
(***************************************************************************)
LEMMA TurnIsGoverned ==
    ASSUME NEW n \in NodeState, Governed(n), NEW index \in Nat \ {0}, index <= Len(n.log) + 1,
           NEW e \in Entry
    PROVE  LET p == TakeEntry(n, index, e)
           IN  p \in NodeState /\ Governed(p) /\ index <= Len(p.log)
<1> DEFINE present == last_log_index(n) >= index
           cut == [n EXCEPT !.log = DelFrom(@, _phys(n, index))]
           room == IF present THEN CheckConfig(cut, index) ELSE n
           appended == [room EXCEPT !.log = Append(@, e)]
           adopted == _adopt_config(appended, e.command.voters, index)
           p == TakeEntry(n, index, e)
<1>1. n.log \in Seq(Entry) /\ Len(n.log) \in Nat /\ Bare(n)
  BY DEF NodeState, Governed
<1>2. last_log_index(n) = Len(n.log)
  BY <1>1, BareLast
<1>3. p \in NodeState
  BY TakeEntryType
<1>4. p = IF present /\ ~Conflicts(n, index, e) THEN n
          ELSE IF IsConfig(e.command) THEN adopted ELSE appended
  BY DEF TakeEntry
<1>5. room \in NodeState /\ Governed(room) /\ Len(room.log) = index - 1
  <2>1. CASE present
    <3>1. index \in 1..Len(n.log)
      BY <1>1, <1>2, <2>1
    <3> QED BY <2>1, <3>1, CutIsGoverned
  <2>2. CASE ~present
    BY <1>1, <1>2, <2>2
  <2> QED BY <2>1, <2>2
<1> HIDE DEF room, p
<1> DEFINE new == Append(room.log, e)
<1>6. /\ room.log \in Seq(Entry) /\ room.config_index \in Nat
      /\ Bare(room) /\ Governs(room.log, room.voters, room.config_index)
  BY <1>5 DEF NodeState, Governed
<1>7. Extends(room.log, e, new)
  BY <1>6, AppendedExtends
<1>8. /\ appended.log = new /\ appended.snapshot = room.snapshot
      /\ appended.voters = room.voters /\ appended.config_index = room.config_index
  BY <1>5 DEF NodeState
<1>9. /\ adopted.log = new /\ adopted.snapshot = room.snapshot
      /\ adopted.voters = e.command.voters /\ adopted.config_index = index
  BY <1>5 DEF NodeState, _adopt_config
<1> HIDE DEF new, appended, adopted
<1>10. Len(new) = index
  BY <1>1, <1>5, <1>7 DEF Extends
<1>11. CASE present /\ ~Conflicts(n, index, e)
  BY <1>1, <1>2, <1>3, <1>4, <1>11 DEF p
<1>12. CASE ~(present /\ ~Conflicts(n, index, e)) /\ IsConfig(e.command)
  <2>1. Governs(new, e.command.voters, Len(room.log) + 1)
    BY <1>6, <1>7, <1>12, ConfigGoverns
  <2>2. Len(room.log) + 1 = index
    BY <1>5
  <2>3. Governed(adopted)
    BY <1>6, <1>9, <2>1, <2>2 DEF Governed, Bare
  <2>4. p = adopted
    BY <1>4, <1>12
  <2> QED BY <1>3, <1>9, <1>10, <2>3, <2>4 DEF p
<1>13. CASE ~(present /\ ~Conflicts(n, index, e)) /\ ~IsConfig(e.command)
  <2>1. Governs(new, room.voters, room.config_index)
    BY <1>6, <1>7, <1>13, PlainKeepsGoverns
  <2>2. Governed(appended)
    BY <1>6, <1>8, <2>1 DEF Governed, Bare
  <2>3. p = appended
    BY <1>4, <1>13
  <2> QED BY <1>3, <1>8, <1>10, <2>2, <2>3 DEF p
<1> QED BY <1>11, <1>12, <1>13

LEMMA LoopIsGoverned ==
    ASSUME NEW n \in NodeState, Governed(n), NEW prev \in 0..Len(n.log), NEW entries \in Seq(Entry)
    PROVE  LET p == TakeEntries(n, prev, entries) IN p \in NodeState /\ Governed(p)
<1> DEFINE S == [k \in 0..Len(entries) |->
                   {x \in NodeState : Governed(x) /\ prev + k <= Len(x.log)}]
<1>1. n.log \in Seq(Entry) /\ Len(n.log) \in Nat /\ prev \in Nat /\ Len(entries) \in Nat
  BY DEF NodeState
<1>2. n \in S[0]
  BY <1>1
<1>3. ASSUME NEW k \in 1..Len(entries), NEW s \in S[k - 1]
      PROVE  TakeEntry(s, prev + k, entries[k]) \in S[k]
  <2> DEFINE p == TakeEntry(s, prev + k, entries[k])
  <2>1. k - 1 \in 0..Len(entries) /\ k \in 0..Len(entries)
    BY <1>1
  <2>2. s \in NodeState /\ Governed(s) /\ prev + (k - 1) <= Len(s.log)
    BY <2>1
  <2>3. prev + k \in Nat \ {0} /\ entries[k] \in Entry /\ prev + k <= Len(s.log) + 1
    <3>1. Len(s.log) \in Nat
      BY <2>2 DEF NodeState
    <3> QED BY <1>1, <2>2, <3>1
  <2>4. p \in NodeState /\ Governed(p) /\ prev + k <= Len(p.log)
    BY <2>2, <2>3, TurnIsGoverned
  <2> HIDE DEF p
  <2>5. p \in S[k]
    BY <2>1, <2>4
  <2> QED BY <2>5 DEF p
<1> HIDE DEF S
<1>4. TakeEntries(n, prev, entries) \in S[Len(entries)]
  BY <1>2, <1>3, TakeEntriesByTurns
<1> QED BY <1>1, <1>4 DEF S

---------------------------------------------------------------------------
(* What handlers do. *)

\* Answers and requests are no snapshots.
LEMMA RepliesNoSnapshot ==
    ASSUME NEW i, NEW p, NEW n
    PROVE  /\ \A g : VoteReply(i, p, n, g).type # "InstallSnapshot"
           /\ \A s, k : AppendReply(i, p, n, s, k).type # "InstallSnapshot"
           /\ \A k : ReadHeartbeat(i, p, n, k).type # "InstallSnapshot"
           /\ \A k : ReadAck(i, p, n, k).type # "InstallSnapshot"
           /\ RequestVote(i, p, n).type # "InstallSnapshot"
BY DEF VoteReply, AppendReply, ReadHeartbeat, ReadAck, RequestVote

LEMMA SilentSound ==
    ASSUME NEW n, Governed(n), NEW p, SameConfig(n, p)
    PROVE  GovernedEffect(Silent(p))
BY SameIsGoverned DEF GovernedEffect, Silent, Effect

LEMMA RequestVoteSound ==
    ASSUME NEW i \in Node, NEW n \in NodeState, Governed(n), NEW m \in Message,
           m.type = "RequestVote"
    PROVE  GovernedEffect(_on_request_vote(i, n, m))
<1> DEFINE at == IF m.term > n.term THEN _become_follower(n, m.term) ELSE n
           granted == /\ m.term = at.term
                      /\ at.voted_for \in {None, m.src}
                      /\ UpToDate(at, m)
           after == IF granted THEN [at EXCEPT !.voted_for = m.src, !.timer = "election"] ELSE at
           reply == VoteReply(i, m.src, after, granted)
<1>1. at \in NodeState /\ SameConfig(n, at)
  <2>1. m.term \in Nat
    BY DEF Message
  <2> QED BY <2>1, FollowerSame, BecomeFollowerType DEF SameConfig
<1> HIDE DEF at, granted
<1>2. SameConfig(n, after)
  BY <1>1 DEF SameConfig, NodeState
<1> HIDE DEF after
<1>3. reply.type # "InstallSnapshot"
  BY RepliesNoSnapshot
<1> HIDE DEF reply
<1>4. _on_request_vote(i, n, m) = Effect(after, {reply}, {})
  BY DEF _on_request_vote, reply, after, granted, at
<1> QED BY <1>2, <1>3, <1>4, SameIsGoverned DEF GovernedEffect, Effect

LEMMA MaybeWinSound ==
    ASSUME NEW i \in Node, NEW n \in NodeState, Governed(n)
    PROVE  GovernedEffect(_maybe_win(i, n))
<1> DEFINE e == _become_leader(i, n)
<1>1. SameConfig(n, e.node) /\ e.node \in NodeState
  <2>1. GoodEffect(e)
    BY BecomeLeaderType
  <2>2. SameConfig(n, e.node)
    BY DEF SameConfig, _become_leader, Effect, NodeState
  <2> QED BY <2>1, <2>2 DEF GoodEffect
<1>2. e.out = _broadcast_heartbeats(i, e.node)
  BY DEF _become_leader, Effect
<1> HIDE DEF e
<1>3. Governed(e.node) /\ Bare(e.node)
  BY <1>1, SameIsGoverned DEF Governed
<1>4. GovernedEffect(e)
  BY <1>1, <1>2, <1>3, BroadcastsNoSnapshot DEF GovernedEffect
<1>5. SameConfig(n, n)
  BY DEF SameConfig
<1> QED BY <1>4, <1>5, SilentSound DEF _maybe_win, e

LEMMA VoteReplySound ==
    ASSUME NEW i \in Node, NEW n \in NodeState, Governed(n), NEW m \in Message,
           m.type = "VoteReply"
    PROVE  GovernedEffect(_on_vote_reply(i, n, m))
<1> DEFINE counted == [n EXCEPT !.votes = @ \cup {m.src}]
<1>1. m.src \in Node
  BY DEF Message
<1>2. counted \in NodeState /\ SameConfig(n, counted) /\ SameConfig(n, n)
  BY <1>1 DEF NodeState, SameConfig
<1> HIDE DEF counted
<1>3. GovernedEffect(_maybe_win(i, counted))
  BY <1>2, SameIsGoverned, MaybeWinSound
<1>4. GovernedEffect(Silent(n)) /\ GovernedEffect(Silent(_become_follower(n, m.term)))
  BY <1>2, FollowerSame, SilentSound
<1> QED BY <1>3, <1>4 DEF _on_vote_reply, counted

LEMMA StartElectionSound ==
    ASSUME NEW i \in Node, NEW n \in NodeState, Governed(n)
    PROVE  GovernedEffect(start_election(i, n))
<1> DEFINE cand == [n EXCEPT !.term = @ + 1, !.role = "candidate", !.voted_for = i,
                             !.votes = {i}, !.timer = "election"]
           asked == {RequestVote(i, p, cand) : p \in cand.voters \ {i}}
<1>1. CASE i \notin n.voters
  <2>1. SameConfig(n, [n EXCEPT !.timer = "election"])
    BY DEF SameConfig, NodeState
  <2> QED BY <1>1, <2>1, SilentSound DEF start_election
<1>2. CASE i \in n.voters
  <2>1. cand \in NodeState /\ SameConfig(n, cand)
    BY CandidateType DEF SameConfig, NodeState
  <2>2. start_election(i, n) =
          Effect(_maybe_win(i, cand).node, asked \cup _maybe_win(i, cand).out, {})
    BY <1>2 DEF start_election
  <2> HIDE DEF cand
  <2>3. \A r \in asked : r.type # "InstallSnapshot"
    BY RepliesNoSnapshot
  <2>4. GovernedEffect(_maybe_win(i, cand))
    BY <2>1, SameIsGoverned, MaybeWinSound
  <2> HIDE DEF asked
  <2> QED BY <2>2, <2>3, <2>4 DEF GovernedEffect, Effect
<1> QED BY <1>1, <1>2

LEMMA HeartbeatTimeoutSound ==
    ASSUME NEW i \in Node, NEW n \in NodeState, Governed(n)
    PROVE  GovernedEffect(HeartbeatTimeout(i, n))
<1>1. SameConfig(n, [n EXCEPT !.timer = "heartbeat"])
  BY DEF SameConfig, NodeState
<1>2. Governed([n EXCEPT !.timer = "heartbeat"])
  BY <1>1, SameIsGoverned
<1>3. \A r \in _broadcast_heartbeats(i, n) : r.type # "InstallSnapshot"
  BY BroadcastsNoSnapshot DEF Governed
<1> QED BY <1>2, <1>3 DEF HeartbeatTimeout, Effect, GovernedEffect

\* A crash forgets the configuration, and the log names it again.
LEMMA PauseSound ==
    ASSUME NEW n \in NodeState, Governed(n)
    PROVE  GovernedEffect(Silent(pause(n)))
<1> DEFINE down == [Restore(n, n.snapshot) EXCEPT
              !.alive = FALSE, !.role = "follower", !.timer = "none",
              !.next_index = [p \in Node |-> 1], !.match_index = [p \in Node |-> 0],
              !.votes = {}, !.client_index = [c \in Client |-> -1],
              !.pending_reads = {}, !.committed_this_term = FALSE]
<1>1. down \in NodeState
  BY CrashedType
<1>2. down.snapshot = n.snapshot
  BY DEF Restore, NodeState
<1>3. pause(n) = _rebuild_config(down)
  BY DEF pause
<1> HIDE DEF down
<1>4. Bare(down)
  BY <1>2 DEF Governed, Bare
<1>5. Governed(pause(n))
  BY <1>1, <1>3, <1>4, RebuildGoverns
<1> QED BY <1>5 DEF GovernedEffect, Silent, Effect

LEMMA ResumeSound ==
    ASSUME NEW n \in NodeState, Governed(n)
    PROVE  GovernedEffect(Silent(resume(n)))
<1>1. SameConfig(n, resume(n))
  BY DEF SameConfig, resume, NodeState
<1> QED BY <1>1, SilentSound

---------------------------------------------------------------------------
(* The client interface and reads. *)

\* AppendToLog adds one entry and changes nothing of the configuration.
LEMMA AppendToLogGrows ==
    ASSUME NEW i \in Node, NEW n \in NodeState, NEW command \in Command
    PROVE  LET p == AppendToLog(i, n, command)
               e == [term |-> n.term, command |-> command]
           IN  /\ p \in NodeState /\ e \in Entry
               /\ Extends(n.log, e, p.log)
               /\ p.snapshot = n.snapshot /\ p.voters = n.voters
               /\ p.config_index = n.config_index
<1> DEFINE p == AppendToLog(i, n, command)
           e == [term |-> n.term, command |-> command]
<1>1. e \in Entry /\ n.log \in Seq(Entry)
  BY DEF Entry, NodeState
<1>2. /\ p.log = Append(n.log, e)
      /\ p.snapshot = n.snapshot /\ p.voters = n.voters /\ p.config_index = n.config_index
  BY DEF AppendToLog, NodeState
<1>3. p \in NodeState
  BY AppendToLogType
<1> HIDE DEF p, e
<1>4. Extends(n.log, e, p.log)
  BY <1>1, <1>2, AppendedExtends
<1> QED BY <1>1, <1>2, <1>3, <1>4 DEF p, e

LEMMA ClientCommandSound ==
    ASSUME NEW i \in Node, NEW n \in NodeState, Governed(n), NEW c \in Client, NEW r \in Nat
    PROVE  GovernedEffect(client_command(i, n, c, r))
<1> DEFINE asked == [n EXCEPT !.client_index[c] = r]
           command == ClientCommand(c, r)
           e == [term |-> asked.term, command |-> command]
           m == AppendToLog(i, asked, command)
<1>1. asked \in NodeState /\ SameConfig(n, asked) /\ SameConfig(n, n)
  BY IndexedType DEF SameConfig, NodeState
<1>2. command \in Command /\ ~IsConfig(command)
  BY DEF ClientCommand, Command, IsConfig
<1>3. client_command(i, n, c, r) =
        IF r <= n.client_index[c] THEN Silent(n) ELSE Effect(m, _broadcast_heartbeats(i, m), {})
  BY DEF client_command
<1> HIDE DEF asked, command
<1>4. /\ m \in NodeState /\ e \in Entry
      /\ Extends(asked.log, e, m.log)
      /\ m.snapshot = asked.snapshot /\ m.voters = asked.voters
      /\ m.config_index = asked.config_index
  BY <1>1, <1>2, AppendToLogGrows
<1>5. e.command = command
  OBVIOUS
<1> HIDE DEF m, e
<1>6. /\ asked.log \in Seq(Entry) /\ asked.config_index \in Nat
      /\ Bare(asked) /\ Governs(asked.log, asked.voters, asked.config_index)
  BY <1>1, SameIsGoverned DEF NodeState, Governed
<1>7. Governs(m.log, asked.voters, asked.config_index)
  BY <1>2, <1>4, <1>5, <1>6, PlainKeepsGoverns
<1>8. Governed(m) /\ Bare(m)
  BY <1>4, <1>6, <1>7 DEF Governed, Bare
<1>9. GovernedEffect(Effect(m, _broadcast_heartbeats(i, m), {}))
  BY <1>4, <1>8, BroadcastsNoSnapshot DEF GovernedEffect, Effect
<1> QED BY <1>1, <1>3, <1>9, SilentSound

LEMMA ChangeConfigSound ==
    ASSUME NEW i \in Node, NEW n \in NodeState, Governed(n), NEW V \in SUBSET Node, V # {}
    PROVE  GovernedEffect(change_config(i, n, V))
<1> DEFINE command == encode_config(V)
           e == [term |-> n.term, command |-> command]
           grown == AppendToLog(i, n, command)
           m == _adopt_config(grown, V, last_log_index(grown))
<1>1. command \in Command /\ IsConfig(command) /\ command.voters = V
  BY DEF encode_config, Command, IsConfig
<1>2. change_config(i, n, V) = Effect(m, _broadcast_heartbeats(i, m), {})
  BY DEF change_config
<1> HIDE DEF command
<1>3. /\ grown \in NodeState /\ e \in Entry
      /\ Extends(n.log, e, grown.log) /\ grown.snapshot = n.snapshot
  BY <1>1, AppendToLogGrows
<1>4. e.command = command
  OBVIOUS
<1> HIDE DEF grown, e
<1>5. n.log \in Seq(Entry) /\ Bare(n) /\ Bare(grown)
  BY <1>3 DEF NodeState, Governed, Bare
<1>6. last_log_index(grown) = Len(n.log) + 1
  BY <1>3, <1>5, BareLast DEF Extends
<1>7. last_log_index(grown) \in Nat
  BY <1>3, LogReads, 0 \in Int
<1>8. m \in NodeState
  BY <1>3, <1>7, AdoptConfigType
<1>9. /\ m.log = grown.log /\ m.snapshot = grown.snapshot
      /\ m.voters = V /\ m.config_index = last_log_index(grown)
  BY <1>3 DEF _adopt_config, NodeState
<1> HIDE DEF m
<1>10. Governs(grown.log, V, Len(n.log) + 1)
  BY <1>1, <1>3, <1>4, <1>5, ConfigGoverns
<1>11. Governed(m) /\ Bare(m)
  BY <1>5, <1>6, <1>9, <1>10 DEF Governed, Bare
<1> QED BY <1>2, <1>8, <1>11, BroadcastsNoSnapshot DEF GovernedEffect, Effect

LEMMA ServeSame ==
    ASSUME NEW n \in NodeState, NEW p
    PROVE  SameConfig(n, _try_serve_read(n, p).node) /\ _try_serve_read(n, p).out = {}
BY DEF _try_serve_read, Silent, Effect, SameConfig, NodeState

LEMMA RequestReadSound ==
    ASSUME NEW i \in Node, NEW n \in NodeState, Governed(n), NEW c \in Client, NEW r \in Nat
    PROVE  GovernedEffect(request_read(i, n, c, r))
<1> DEFINE p == [id |-> n.next_read_id, command |-> ClientCommand(c, r),
                 index |-> n.commit_index, acks |-> {i}]
           asked == [n EXCEPT !.next_read_id = @ + 1, !.pending_reads = @ \cup {p}]
           done == _try_serve_read(asked, p)
           sent == {ReadHeartbeat(i, q, n, p.id) : q \in n.voters \ {i}}
<1>1. asked \in NodeState
  BY RequestedType
<1>2. SameConfig(n, asked)
  <2> HIDE DEF p
  <2> QED BY DEF SameConfig, NodeState
<1>3. request_read(i, n, c, r) = Effect(done.node, sent, done.reported)
  BY DEF request_read
<1>4. \A q \in sent : q.type # "InstallSnapshot"
  BY RepliesNoSnapshot
<1> HIDE DEF p, asked, sent
<1>5. SameConfig(asked, done.node)
  BY <1>1, ServeSame
<1>6. Governed(done.node)
  BY <1>2, <1>5, SameIsGoverned
<1> QED BY <1>3, <1>4, <1>6 DEF GovernedEffect, Effect

LEMMA ReadHeartbeatSound ==
    ASSUME NEW i \in Node, NEW n \in NodeState, Governed(n), NEW m \in Message,
           m.type = "ReadHeartbeat"
    PROVE  GovernedEffect(_on_read_heartbeat(i, n, m))
<1> DEFINE follow == IF m.term > n.term THEN _become_follower(n, m.term) ELSE n
           armed == IF m.term >= n.term THEN [follow EXCEPT !.timer = "election"] ELSE follow
           ack == ReadAck(i, m.src, armed, m.read_id)
<1>1. follow \in NodeState /\ SameConfig(n, follow)
  <2>1. m.term \in Nat
    BY DEF Message
  <2> QED BY <2>1, FollowerSame, BecomeFollowerType DEF SameConfig
<1> HIDE DEF follow
<1>2. SameConfig(n, armed)
  BY <1>1 DEF SameConfig, NodeState
<1> HIDE DEF armed
<1>3. ack.type # "InstallSnapshot"
  BY RepliesNoSnapshot
<1>4. _on_read_heartbeat(i, n, m) = Effect(armed, {ack}, {})
  BY DEF _on_read_heartbeat, armed, follow
<1> HIDE DEF ack
<1> QED BY <1>2, <1>3, <1>4, SameIsGoverned DEF GovernedEffect, Effect

LEMMA ReadAckSound ==
    ASSUME NEW i \in Node, NEW n \in NodeState, Governed(n), NEW m \in Message,
           m.type = "ReadAck"
    PROVE  GovernedEffect(_on_read_ack(i, n, m))
<1>1. m.src \in Node
  BY DEF Message
<1>2. SameConfig(n, n)
  BY DEF SameConfig
<1>3. GovernedEffect(Silent(n)) /\ GovernedEffect(Silent(_become_follower(n, m.term)))
  BY <1>2, FollowerSame, SilentSound
<1>4. CASE \E p \in n.pending_reads : p.id = m.read_id
  <2> DEFINE p == CHOOSE q \in n.pending_reads : q.id = m.read_id
             acked == [p EXCEPT !.acks = @ \cup {m.src}]
             asked == [n EXCEPT !.pending_reads = (@ \ {p}) \cup {acked}]
             done == _try_serve_read(asked, acked)
  <2>1. asked \in NodeState
    BY <1>1, <1>4, AskedType
  <2>2. \/ _on_read_ack(i, n, m) = done
        \/ GovernedEffect(_on_read_ack(i, n, m))
    BY <1>3 DEF _on_read_ack
  <2> HIDE DEF p, acked
  <2>3. SameConfig(n, asked)
    BY DEF SameConfig, NodeState
  <2> HIDE DEF asked
  <2>4. SameConfig(asked, done.node) /\ done.out = {}
    BY <2>1, ServeSame
  <2>5. GovernedEffect(done)
    BY <2>3, <2>4, SameIsGoverned DEF GovernedEffect
  <2> QED BY <2>2, <2>5
<1>5. CASE ~ \E p \in n.pending_reads : p.id = m.read_id
  BY <1>3, <1>5 DEF _on_read_ack
<1> QED BY <1>4, <1>5

---------------------------------------------------------------------------
(* Replication. *)

LEMMA AppendEntriesSound ==
    ASSUME SnapshotThreshold = 0, NEW i \in Node, NEW n \in NodeState, Governed(n),
           NEW m \in Message, m.type = "AppendEntries"
    PROVE  GovernedEffect(_on_append_entries(i, n, m))
<1> DEFINE seen == IF m.term > n.term THEN _become_follower(n, m.term) ELSE n
           follow == IF seen.role # "follower" THEN _become_follower(seen, m.term)
                                               ELSE [seen EXCEPT !.timer = "election"]
           taken == TakeEntries(follow, m.prev_index, m.entries)
           after == FollowCommit(taken, m)
<1>1. m.term \in Nat /\ m.prev_index \in Nat /\ m.entries \in Seq(Entry)
  BY DEF Message
<1>2. _on_append_entries(i, n, m) =
        IF m.term < n.term
        THEN Effect(n, {AppendReply(i, m.src, n, FALSE, 0)}, {})
        ELSE IF ~Consistent(follow, m)
        THEN Effect(follow, {AppendReply(i, m.src, follow, FALSE, 0)}, {})
        ELSE Effect(after, {AppendReply(i, m.src, after, TRUE, Match(m))}, AppliedSince(n, after))
  BY DEF _on_append_entries, after, taken, follow, seen
<1>3. seen \in NodeState /\ SameConfig(n, seen)
  BY <1>1, FollowerSame, BecomeFollowerType DEF SameConfig
<1> HIDE DEF seen
<1>4. follow \in NodeState /\ Governed(follow)
  <2>1. /\ [seen EXCEPT !.timer = "election"] \in NodeState
        /\ SameConfig(seen, [seen EXCEPT !.timer = "election"])
    BY <1>3 DEF NodeState, SameConfig
  <2>2. follow \in NodeState /\ SameConfig(seen, follow)
    BY <1>1, <1>3, <2>1, FollowerSame, BecomeFollowerType
  <2> HIDE DEF follow
  <2> QED BY <1>3, <2>2, SameIsGoverned
<1> HIDE DEF follow
<1>5. Consistent(follow, m) => Governed(after)
  <2> SUFFICES ASSUME Consistent(follow, m) PROVE Governed(after)
    OBVIOUS
  <2>1. m.prev_index \in 0..Len(follow.log)
    <3>1. last_log_index(follow) = Len(follow.log)
      BY <1>4, BareLast DEF Governed
    <3>2. Len(follow.log) \in Nat
      BY <1>4 DEF NodeState
    <3> QED BY <1>1, <3>1, <3>2 DEF Consistent
  <2>2. taken \in NodeState /\ Governed(taken)
    BY <1>1, <1>4, <2>1, LoopIsGoverned
  <2> HIDE DEF taken
  <2>3. SameConfig(taken, taken)
    BY DEF SameConfig
  <2>4. SameConfig(taken, after)
    BY <2>2, <2>3, SetCommitIndexSame DEF FollowCommit
  <2> HIDE DEF after
  <2> QED BY <2>2, <2>4, SameIsGoverned
<1> HIDE DEF after
<1>6. \A p : \A s, k : \A rs : Governed(p) => GovernedEffect(Effect(p, {AppendReply(i, m.src, p, s, k)}, rs))
  BY RepliesNoSnapshot DEF GovernedEffect, Effect
<1> QED BY <1>2, <1>4, <1>5, <1>6

LEMMA AdvanceCommitSame ==
    ASSUME SnapshotThreshold = 0, NEW n \in NodeState
    PROVE  SameConfig(n, _advance_commit(n))
<1> DEFINE ready == {k \in (n.commit_index + 1)..last_log_index(n) :
                        OfThisTerm(n, k) /\ Replicated(n, k)}
           raised == _set_commit_index(n, Maximum(ready))
<1>1. CASE ready = {}
  BY <1>1 DEF _advance_commit, SameConfig
<1>2. CASE ready # {}
  <2>1. n.commit_index + 1 \in Nat
    BY DEF NodeState
  <2>2. last_log_index(n) \in Nat
    BY LogReads, 0 \in Int
  <2>3. ready \in SUBSET ((n.commit_index + 1)..last_log_index(n))
    OBVIOUS
  <2>4. _advance_commit(n) = [raised EXCEPT !.committed_this_term = TRUE]
    BY <1>2 DEF _advance_commit
  <2> HIDE DEF ready
  <2>5. Maximum(ready) \in Nat
    BY <1>2, <2>1, <2>2, <2>3, RangeMaximum
  <2>6. raised \in NodeState /\ SameConfig(n, raised)
    BY <2>5, SetCommitIndexType, SetCommitIndexSame
  <2> HIDE DEF raised
  <2>7. SameConfig(n, [raised EXCEPT !.committed_this_term = TRUE])
    BY <2>6 DEF SameConfig, NodeState
  <2> QED BY <2>4, <2>7
<1> QED BY <1>1, <1>2

LEMMA AppendReplySound ==
    ASSUME SnapshotThreshold = 0, NEW i \in Node, NEW n \in NodeState, Governed(n),
           NEW m \in Message, m.type = "AppendReply"
    PROVE  GovernedEffect(_on_append_reply(i, n, m))
<1> DEFINE acked == [n EXCEPT !.match_index[m.src] = Larger(@, m.match_index),
                              !.next_index[m.src] = Larger(@, NextAfter(m.match_index))]
           after == _advance_commit(acked)
           backed == [n EXCEPT !.next_index[m.src] = BackOff(@)]
           resent == _send_append_entries(i, backed, m.src)
<1>1. m.src \in Node /\ m.match_index \in Nat
  BY DEF Message
<1>2. SameConfig(n, n)
  BY DEF SameConfig
<1>3. GovernedEffect(Silent(n)) /\ GovernedEffect(Silent(_become_follower(n, m.term)))
  BY <1>2, FollowerSame, SilentSound
<1>4. GovernedEffect(Effect(after, {}, AppliedSince(n, after)))
  <2>1. acked \in NodeState
    BY <1>1, AckedType
  <2>2. SameConfig(n, acked)
    BY DEF SameConfig, NodeState
  <2> HIDE DEF acked
  <2>3. SameConfig(acked, after)
    BY <2>1, AdvanceCommitSame
  <2> HIDE DEF after
  <2> QED BY <2>2, <2>3, SameIsGoverned DEF GovernedEffect, Effect
<1>5. GovernedEffect(Effect(backed, {resent}, {}))
  <2>1. backed \in NodeState
    BY <1>1, BackedType
  <2>2. SameConfig(n, backed)
    BY DEF SameConfig, NodeState
  <2> HIDE DEF backed
  <2>3. Governed(backed) /\ Bare(backed)
    BY <2>2, SameIsGoverned DEF Governed
  <2>4. resent.type # "InstallSnapshot"
    BY <1>1, <2>1, <2>3, SendsNoSnapshot
  <2> HIDE DEF resent
  <2> QED BY <2>3, <2>4 DEF GovernedEffect, Effect
<1> QED BY <1>3, <1>4, <1>5 DEF _on_append_reply

LEMMA HandleSound ==
    ASSUME SnapshotThreshold = 0, NEW i \in Node, NEW n \in NodeState, Governed(n),
           NEW m \in Message, m.type # "InstallSnapshot"
    PROVE  GovernedEffect(handle(i, n, m))
<1>1. m.type \in {"RequestVote", "VoteReply", "AppendEntries", "AppendReply",
                  "ReadHeartbeat", "ReadAck"}
  BY DEF Message
<1> QED BY <1>1, RequestVoteSound, VoteReplySound, AppendEntriesSound, AppendReplySound,
           ReadHeartbeatSound, ReadAckSound
        DEF handle

---------------------------------------------------------------------------
(* What actions do. *)

LEMMA StepKeepsConfig ==
    ASSUME ConfigInv, TypeOK', NEW i \in Node, NEW e, GovernedEffect(e), Step(i, e)
    PROVE  ConfigInv'
<1>1. node' = [node EXCEPT ![i] = e.node] /\ msgs' = msgs \cup e.out
  BY DEF Step
<1>2. \A j \in Node : Governed(node[j])
  BY DEF ConfigInv, Governed
<1>3. \A j \in Node : Governed(node'[j])
  BY <1>1, <1>2 DEF ConfigInv, TypeOK, GovernedEffect
<1>4. \A m \in msgs' : m.type # "InstallSnapshot"
  BY <1>1 DEF ConfigInv, GovernedEffect
<1> QED BY <1>3, <1>4 DEF ConfigInv, Governed, Bare

LEMMA ConfigBegins == Init => ConfigInv
<1> SUFFICES ASSUME Init PROVE ConfigInv
  OBVIOUS
<1>1. TypeOK
  BY InitType
<1>2. \A i \in Node : node[i] = InitNode
  BY DEF Init
<1>3. Bare(InitNode) /\ Governs(InitNode.log, InitNode.voters, InitNode.config_index)
  BY DEF InitNode, Bare, Governs
<1>4. msgs = {}
  BY DEF Init
<1> QED BY <1>1, <1>2, <1>3, <1>4 DEF ConfigInv

LEMMA ConfigStays ==
    ASSUME SnapshotThreshold = 0, ConfigInv, [Next]_vars
    PROVE  ConfigInv'
<1>1. /\ \A i \in Node : node[i] \in NodeState /\ Governed(node[i])
      /\ msgs \subseteq Message
      /\ \A c \in Client : next_req[c] \in Nat
  BY DEF ConfigInv, TypeOK, Governed
<1>2. TypeOK'
  BY NextType DEF ConfigInv
<1>3. ASSUME NEW m \in msgs, Deliver(m) PROVE ConfigInv'
  <2>1. m \in Message /\ m.dst \in Node /\ m.type # "InstallSnapshot"
    BY <1>1 DEF Message, ConfigInv
  <2> QED BY <1>1, <1>2, <1>3, <2>1, HandleSound, StepKeepsConfig DEF Deliver
<1>4. ASSUME NEW i \in Node, _on_election_timeout(i) PROVE ConfigInv'
  BY <1>1, <1>2, <1>4, StartElectionSound, StepKeepsConfig DEF _on_election_timeout
<1>5. ASSUME NEW i \in Node, _on_heartbeat(i) PROVE ConfigInv'
  BY <1>1, <1>2, <1>5, HeartbeatTimeoutSound, StepKeepsConfig DEF _on_heartbeat
<1>6. ASSUME NEW i \in Node, NEW c \in Client, _client_tick(c, i) PROVE ConfigInv'
  <2>1. CASE Step(i, client_command(i, node[i], c, next_req[c]))
    BY <1>1, <1>2, <2>1, ClientCommandSound, StepKeepsConfig
  <2>2. CASE Step(i, request_read(i, node[i], c, next_req[c]))
    BY <1>1, <1>2, <2>2, RequestReadSound, StepKeepsConfig
  <2> QED BY <1>6, <2>1, <2>2 DEF _client_tick
<1>7. ASSUME NEW i \in Node, NEW V \in Proposals, _membership_tick(i, V) PROVE ConfigInv'
  <2>1. V \in SUBSET Node
    BY EnvironmentAssumption
  <2>2. V # {}
    BY <1>7 DEF _membership_tick, MayChangeConfig
  <2> QED BY <1>1, <1>2, <1>7, <2>1, <2>2, ChangeConfigSound, StepKeepsConfig
          DEF _membership_tick
<1>8. ASSUME NEW i \in Node, Pause(i) PROVE ConfigInv'
  BY <1>1, <1>2, <1>8, PauseSound, StepKeepsConfig DEF Pause
<1>9. ASSUME NEW i \in Node, Resume(i) PROVE ConfigInv'
  BY <1>1, <1>2, <1>9, ResumeSound, StepKeepsConfig DEF Resume
<1>10. CASE UNCHANGED vars
  BY <1>2, <1>10 DEF ConfigInv, vars
<1> QED BY <1>3, <1>4, <1>5, <1>6, <1>7, <1>8, <1>9, <1>10 DEF Next

(***************************************************************************)
(* A server that is governed by the entry it says it is has the            *)
(* configuration that its whole log names last.                            *)
(***************************************************************************)
LEMMA ConfigInvIsDerived == ConfigInv => ConfigIsDerived
<1> SUFFICES ASSUME ConfigInv, NEW i \in Node
             PROVE  /\ node[i].voters = ConfigNamedBy(FullLog(node[i]))
                    /\ node[i].snapshot.voters = ConfigNamedBy(node[i].snapshot.image)
  BY DEF ConfigIsDerived
<1> DEFINE n == node[i]
           k == n.config_index
           configs(s) == {j \in DOMAIN s : IsConfig(s[j].command)}
<1>1. n.snapshot = NoSnapshot /\ Governs(n.log, n.voters, k)
  BY DEF ConfigInv, Bare
<1>2. n.log \in Seq(Entry) /\ Len(n.log) \in Nat /\ DOMAIN n.log = 1..Len(n.log) /\ k \in Nat
  BY DEF ConfigInv, TypeOK, NodeState
<1>3. FullLog(n) = n.log /\ n.snapshot.voters = InitialVoters /\ n.snapshot.image = <<>>
  BY <1>1, <1>2 DEF FullLog, NoSnapshot
<1> HIDE DEF n, k
<1>4. ConfigNamedBy(<<>>) = InitialVoters
  BY DEF ConfigNamedBy
<1>5. CASE k = 0
  <2>1. configs(n.log) = {}
    BY <1>1, <1>2, <1>5 DEF Governs
  <2>2. ConfigNamedBy(n.log) = InitialVoters
    BY <2>1 DEF ConfigNamedBy
  <2> QED BY <1>1, <1>3, <1>4, <1>5, <2>2 DEF Governs, n
<1>6. CASE k # 0
  <2>1. /\ k \in configs(n.log) /\ n.voters = n.log[k].command.voters
        /\ \A j \in configs(n.log) : j <= k
    BY <1>1, <1>2, <1>6 DEF Governs
  <2>2. configs(n.log) \in SUBSET (1..Len(n.log)) /\ configs(n.log) # {}
    BY <1>2, <2>1
  <2> DEFINE C == configs(n.log)
  <2>3. ConfigNamedBy(n.log) = n.log[Maximum(C)].command.voters
    BY <2>2 DEF ConfigNamedBy
  <2> HIDE DEF configs, C
  <2>4. Maximum(C) = k
    <3>1. Maximum(C) \in C /\ \A y \in C : y <= Maximum(C)
      <4>1. IsFiniteSet(1..Len(n.log))
        BY <1>2, FS_Interval
      <4>2. IsFiniteSet(C) /\ C \in SUBSET Nat
        BY <2>2, <4>1, FS_Subset DEF C
      <4> QED BY <2>2, <4>2, MaximumIsGreatest DEF C
    <3>2. Maximum(C) \in Nat /\ Maximum(C) <= k /\ k <= Maximum(C)
      BY <2>1, <2>2, <3>1 DEF C
    <3> QED BY <1>2, <3>2
  <2> QED BY <1>3, <1>4, <2>1, <2>3, <2>4 DEF n
<1> QED BY <1>5, <1>6

(***************************************************************************)
(* Whatever configurations are proposed, and whatever is truncated, lost,  *)
(* repeated or forgotten in a crash: without compaction every server acts  *)
(* on the configuration that its log names last (RaftNode._adopt_config,   *)
(* _rebuild_config, change_config, _on_append_entries).                    *)
(***************************************************************************)
THEOREM ConfigsAreDerived ==
    ASSUME SnapshotThreshold = 0
    PROVE  Spec => []ConfigIsDerived
<1>1. Init => ConfigInv
  BY ConfigBegins
<1>2. ConfigInv /\ [Next]_vars => ConfigInv'
  BY ConfigStays
<1>3. ConfigInv => ConfigIsDerived
  BY ConfigInvIsDerived
<1> QED BY <1>1, <1>2, <1>3, PTL DEF Spec

(***************************************************************************)
(* The inductive invariant itself: the index that a server keeps is that   *)
(* of the last configuration in its log, whatever was truncated, so that a *)
(* truncation that looks only at that index looks far enough               *)
(* (RaftNode._on_append_entries, _rebuild_config, change_config).          *)
(***************************************************************************)
THEOREM ConfigsAreGoverned ==
    ASSUME SnapshotThreshold = 0
    PROVE  Spec => []ConfigInv
<1>1. Init => ConfigInv
  BY ConfigBegins
<1>2. ConfigInv /\ [Next]_vars => ConfigInv'
  BY ConfigStays
<1> QED BY <1>1, <1>2, PTL DEF Spec

---------------------------------------------------------------------------
(* What each handler does to the reads that are under way at its server. *)

SameReads(n, m) ==
    /\ m.role = n.role /\ m.term = n.term
    /\ m.pending_reads = n.pending_reads
    /\ m.next_read_id = n.next_read_id
    /\ m.committed_this_term = n.committed_this_term

\* Only a leader has reads under way.
Unread(n) == n.role # "leader" => n.pending_reads = {}

\* The server does not lead or has just been elected, and has no reads; or it
\* leads on with those it had, and may have committed an entry.
Ignores(n, p) ==
    /\ p.next_read_id = n.next_read_id
    /\ \/ /\ p.pending_reads = {}
          /\ p.role = "leader" => n.role # "leader" /\ ~p.committed_this_term
       \/ /\ n.role = "leader" /\ p.role = "leader" /\ p.term = n.term
          /\ p.pending_reads = n.pending_reads
          /\ p.committed_this_term => n.committed_this_term \/ p.commit_index > n.commit_index

\* No message of a round of reads.
Mute(out) == \A r \in out : r.type \notin {"ReadHeartbeat", "ReadAck"}

LEMMA SameIgnores ==
    ASSUME NEW n, Unread(n), NEW m, SameReads(n, m)
    PROVE  Ignores(n, m)
BY DEF SameReads, Unread, Ignores

LEMMA FollowerIgnores ==
    ASSUME NEW n \in NodeState, NEW t
    PROVE  LET p == _become_follower(n, t)
           IN  Ignores(n, p) /\ p.role = "follower"
BY DEF Ignores, _become_follower, NodeState

LEMMA IgnoresThenSame ==
    ASSUME NEW n, NEW f, Ignores(n, f), f.role # "leader", NEW m, SameReads(f, m)
    PROVE  Ignores(n, m)
BY DEF SameReads, Ignores

LEMMA RearmReads ==
    ASSUME NEW n \in NodeState, NEW kind
    PROVE  SameReads(n, [n EXCEPT !.timer = kind])
BY DEF SameReads, NodeState

LEMMA AdoptConfigReads ==
    ASSUME NEW n \in NodeState, NEW V, NEW k
    PROVE  SameReads(n, _adopt_config(n, V, k))
BY DEF SameReads, _adopt_config, NodeState

LEMMA RebuildConfigReads ==
    ASSUME NEW n \in NodeState
    PROVE  SameReads(n, _rebuild_config(n))
BY AdoptConfigReads DEF _rebuild_config

LEMMA SetCommitIndexReads ==
    ASSUME NEW n \in NodeState, NEW index
    PROVE  SameReads(n, _set_commit_index(n, index))
BY DEF SameReads, _set_commit_index, _maybe_compact, NodeState

LEMMA SetCommitIndexRaises ==
    ASSUME NEW n \in NodeState, NEW index \in Nat, index > n.commit_index
    PROVE  _set_commit_index(n, index).commit_index = index
BY DEF _set_commit_index, _maybe_compact, NodeState

LEMMA AdvanceCommitReads ==
    ASSUME NEW n \in NodeState
    PROVE  LET p == _advance_commit(n)
           IN  /\ p.role = n.role /\ p.term = n.term
               /\ p.pending_reads = n.pending_reads /\ p.next_read_id = n.next_read_id
               /\ p.committed_this_term =>
                      n.committed_this_term \/ p.commit_index > n.commit_index
<1> DEFINE ready == {k \in (n.commit_index + 1)..last_log_index(n) :
                        OfThisTerm(n, k) /\ Replicated(n, k)}
           top == Maximum(ready)
           m == _set_commit_index(n, top)
<1>1. _advance_commit(n) = IF ready = {} THEN n ELSE [m EXCEPT !.committed_this_term = TRUE]
  BY DEF _advance_commit
<1>2. n.commit_index \in Nat /\ last_log_index(n) \in Nat
  <2> HIDE DEF ready, top, m
  <2>1. n.commit_index \in Nat
    BY DEF NodeState
  <2>2. 0 \in Int => last_log_index(n) \in Nat
    BY LogReads
  <2> QED BY <2>1, <2>2
<1>3. ASSUME ready # {}
      PROVE  top \in Nat /\ top > n.commit_index
  <2>1. ready \in SUBSET ((n.commit_index + 1)..last_log_index(n)) /\ n.commit_index + 1 \in Nat
    BY <1>2
  <2> HIDE DEF ready
  <2>2. top \in ready /\ top \in Nat
    BY <1>2, <1>3, <2>1, RangeMaximum
  <2>3. top \in (n.commit_index + 1)..last_log_index(n)
    BY <2>1, <2>2
  <2> HIDE DEF top
  <2> QED BY <1>2, <2>2, <2>3
<1> HIDE DEF ready, top
<1>4. ASSUME ready # {}
      PROVE  m \in NodeState /\ SameReads(n, m) /\ m.commit_index > n.commit_index
  <2>1. top \in Nat /\ top > n.commit_index
    BY <1>3, <1>4
  <2>2. m \in NodeState
    BY <2>1, SetCommitIndexType
  <2> QED BY <2>1, <2>2, SetCommitIndexReads, SetCommitIndexRaises
<1> HIDE DEF m
<1> QED BY <1>1, <1>4 DEF SameReads, NodeState

LEMMA AppendToLogReads ==
    ASSUME NEW i \in Node, NEW n \in NodeState, NEW command
    PROVE  SameReads(n, AppendToLog(i, n, command))
BY DEF SameReads, AppendToLog, NodeState

LEMMA TakeEntriesReads ==
    ASSUME NEW n \in NodeState, NEW prev_index \in Nat, NEW entries \in Seq(Entry)
    PROVE  SameReads(n, TakeEntries(n, prev_index, entries))
<1> DEFINE S == {s \in NodeState : SameReads(n, s)}
<1>1. n \in S
  BY DEF SameReads
<1>2. ASSUME NEW s \in S, NEW k \in 1..Len(entries)
      PROVE  TakeEntry(s, prev_index + k, entries[k]) \in S
  <2> DEFINE index == prev_index + k
             e == entries[k]
             cut == [s EXCEPT !.log = DelFrom(@, _phys(s, index))]
             room == IF last_log_index(s) >= index THEN CheckConfig(cut, index) ELSE s
             appended == [room EXCEPT !.log = Append(@, e)]
  <2>1. index \in Nat /\ e \in Entry /\ s \in NodeState
    OBVIOUS
  <2>2. TakeEntry(s, index, e) \in NodeState
    BY <2>1, TakeEntryType
  <2>3. cut \in NodeState /\ SameReads(n, cut)
    <3>1. _phys(s, index) \in Int
      BY <2>1, LogReads
    <3>2. DelFrom(s.log, _phys(s, index)) \in Seq(Entry)
      BY <2>1, <3>1, Slices DEF NodeState
    <3>3. cut \in NodeState
      BY <2>1, <3>2 DEF NodeState
    <3> QED BY <2>1, <3>3 DEF SameReads, NodeState
  <2> HIDE DEF cut, index, e
  <2>4. room \in NodeState /\ SameReads(n, room)
    BY <2>1, <2>3, RebuildConfigType, RebuildConfigReads DEF CheckConfig, SameReads
  <2> HIDE DEF room
  <2>5. appended \in NodeState /\ SameReads(n, appended)
    <3>1. Append(room.log, e) \in Seq(Entry)
      BY <2>1, <2>4 DEF NodeState
    <3> QED BY <2>4, <3>1 DEF SameReads, NodeState
  <2> HIDE DEF appended
  <2>6. SameReads(n, _adopt_config(appended, e.command.voters, index))
    BY <2>5, AdoptConfigReads DEF SameReads
  <2>7. SameReads(n, TakeEntry(s, index, e))
    BY <2>5, <2>6 DEF TakeEntry, appended, room, cut
  <2> QED BY <2>2, <2>7 DEF index, e
<1> HIDE DEF S
<1>3. TakeEntries(n, prev_index, entries) \in S
  BY <1>1, <1>2, TakeEntriesInduction
<1> QED BY <1>3 DEF S

---------------------------------------------------------------------------
(* Handlers that ignore reads. *)

LEMMA MuteSends ==
    ASSUME NEW i, NEW n
    PROVE  /\ \A p : Mute({_send_append_entries(i, n, p)})
           /\ Mute(_broadcast_heartbeats(i, n))
BY DEF Mute, _send_append_entries, _broadcast_heartbeats, AppendEntries, InstallSnapshot

LEMMA RequestVoteIgnores ==
    ASSUME NEW i \in Node, NEW n \in NodeState, Unread(n), NEW m \in Message,
           m.type = "RequestVote", NEW e, e = _on_request_vote(i, n, m)
    PROVE  Ignores(n, e.node) /\ Mute(e.out)
<1> DEFINE at == IF m.term > n.term THEN _become_follower(n, m.term) ELSE n
           granted == /\ m.term = at.term
                      /\ at.voted_for \in {None, m.src}
                      /\ UpToDate(at, m)
           after == IF granted THEN [at EXCEPT !.voted_for = m.src, !.timer = "election"] ELSE at
<1>1. m.term \in Nat
  BY DEF Message
<1>2. at \in NodeState /\ Ignores(n, at) /\ (at = n \/ at.role = "follower")
  BY <1>1, BecomeFollowerType, FollowerIgnores, SameIgnores DEF SameReads
<1> HIDE DEF at, granted
<1>3. SameReads(at, after)
  BY <1>2 DEF SameReads, NodeState
<1> HIDE DEF after
<1>4. Ignores(n, after)
  BY <1>2, <1>3, IgnoresThenSame, SameIgnores
<1>5. e = Effect(after, {VoteReply(i, m.src, after, granted)}, {})
  BY DEF _on_request_vote, after, granted, at
<1> QED BY <1>4, <1>5 DEF Effect, Mute, VoteReply

LEMMA MaybeWinIgnores ==
    ASSUME NEW i \in Node, NEW n \in NodeState, Unread(n), NEW e, e = _maybe_win(i, n)
    PROVE  Ignores(n, e.node) /\ Mute(e.out)
<1>1. CASE n.role = "candidate" /\ e = _become_leader(i, n)
  <2>1. Mute(e.out)
    BY <1>1, MuteSends DEF _become_leader, Effect
  <2> DEFINE last == last_log_index(n)
             index == _rebuild_client_index(n)
             next == [p \in Node |-> last + 1]
             match == [p \in Node |-> IF p = i THEN last ELSE 0]
  <2>2. e.node = [n EXCEPT !.role = "leader", !.next_index = next, !.match_index = match,
                          !.committed_this_term = FALSE, !.client_index = index,
                          !.timer = "heartbeat"]
    BY <1>1 DEF _become_leader, Effect
  <2> HIDE DEF index, next, match
  <2>3. /\ e.node.pending_reads = n.pending_reads /\ e.node.next_read_id = n.next_read_id
        /\ e.node.committed_this_term = FALSE
    BY <2>2 DEF NodeState
  <2> QED BY <1>1, <2>1, <2>3 DEF Ignores, Unread
<1>2. CASE e = Silent(n)
  BY <1>2, SameIgnores DEF SameReads, Silent, Effect, Mute
<1> QED BY <1>1, <1>2 DEF _maybe_win

LEMMA SilentIgnores ==
    ASSUME NEW n \in NodeState, Unread(n)
    PROVE  /\ Ignores(n, Silent(n).node) /\ Mute(Silent(n).out)
           /\ \A t : LET e == Silent(_become_follower(n, t))
                     IN  Ignores(n, e.node) /\ Mute(e.out)
BY FollowerIgnores, SameIgnores DEF Silent, Effect, Mute, SameReads

LEMMA VoteReplyIgnores ==
    ASSUME NEW i \in Node, NEW n \in NodeState, Unread(n), NEW m \in Message,
           m.type = "VoteReply", NEW e, e = _on_vote_reply(i, n, m)
    PROVE  Ignores(n, e.node) /\ Mute(e.out)
<1> DEFINE counted == [n EXCEPT !.votes = @ \cup {m.src}]
<1>1. m.src \in Node
  BY DEF Message
<1>2. counted \in NodeState /\ SameReads(n, counted) /\ counted.commit_index = n.commit_index
  BY <1>1 DEF SameReads, NodeState
<1>3. e = IF m.term > n.term THEN Silent(_become_follower(n, m.term))
        ELSE IF n.role # "candidate" \/ m.term < n.term \/ ~m.granted THEN Silent(n)
        ELSE _maybe_win(i, counted)
  BY DEF _on_vote_reply
<1> HIDE DEF counted
<1>4. LET f == _maybe_win(i, counted) IN Ignores(counted, f.node) /\ Mute(f.out)
  BY <1>2, MaybeWinIgnores DEF SameReads, Unread
<1>5. LET f == _maybe_win(i, counted) IN Ignores(n, f.node) /\ Mute(f.out)
  BY <1>2, <1>4 DEF SameReads, Ignores
<1> QED BY <1>3, <1>5, SilentIgnores

LEMMA AppendEntriesIgnores ==
    ASSUME NEW i \in Node, NEW n \in NodeState, Unread(n), NEW m \in Message,
           m.type = "AppendEntries", NEW e, e = _on_append_entries(i, n, m)
    PROVE  Ignores(n, e.node) /\ Mute(e.out)
<1> DEFINE seen == IF m.term > n.term THEN _become_follower(n, m.term) ELSE n
           follow == IF seen.role # "follower" THEN _become_follower(seen, m.term)
                                               ELSE [seen EXCEPT !.timer = "election"]
           taken == TakeEntries(follow, m.prev_index, m.entries)
           after == FollowCommit(taken, m)
<1>1. /\ m.term \in Nat /\ m.prev_index \in Nat /\ m.entries \in Seq(Entry)
      /\ m.leader_commit \in Nat
  BY DEF Message
<1>2. seen \in NodeState /\ Ignores(n, seen) /\ seen.next_read_id = n.next_read_id
  BY <1>1, BecomeFollowerType, FollowerIgnores, SameIgnores DEF SameReads, Ignores
<1> HIDE DEF seen
<1>3. follow \in NodeState /\ Ignores(n, follow) /\ follow.role = "follower"
  <2>1. CASE seen.role # "follower"
    <3>1. Ignores(seen, follow) /\ follow.role = "follower"
      BY <1>2, <2>1, FollowerIgnores
    <3> QED BY <1>1, <1>2, <2>1, <3>1, BecomeFollowerType DEF Ignores
  <2>2. CASE seen.role = "follower"
    <3>1. follow \in NodeState /\ SameReads(seen, follow)
      BY <1>2, <2>2, RearmReads, RearmStanding
    <3> QED BY <1>2, <2>2, <3>1, IgnoresThenSame DEF SameReads
  <2> QED BY <2>1, <2>2
<1> HIDE DEF follow
<1>4. taken \in NodeState /\ SameReads(follow, taken)
  BY <1>1, <1>3, TakeEntriesType, TakeEntriesReads
<1> HIDE DEF taken
<1>5. SameReads(taken, after)
  BY <1>4, SetCommitIndexReads DEF FollowCommit, SameReads
<1> HIDE DEF after
<1>6. Ignores(n, after)
  BY <1>3, <1>4, <1>5, IgnoresThenSame DEF SameReads
<1>7. e \in {Effect(n, {AppendReply(i, m.src, n, FALSE, 0)}, {}),
             Effect(follow, {AppendReply(i, m.src, follow, FALSE, 0)}, {}),
             Effect(after, {AppendReply(i, m.src, after, TRUE, Match(m))},
                    AppliedSince(n, after))}
  BY DEF _on_append_entries, after, taken, follow, seen
<1>8. Ignores(n, n)
  BY SameIgnores DEF SameReads
<1> QED BY <1>3, <1>6, <1>7, <1>8 DEF Effect, Mute, AppendReply

LEMMA AppendReplyIgnores ==
    ASSUME NEW i \in Node, NEW n \in NodeState, Unread(n), NEW m \in Message,
           m.type = "AppendReply", NEW e, e = _on_append_reply(i, n, m)
    PROVE  Ignores(n, e.node) /\ Mute(e.out)
<1> DEFINE acked == [n EXCEPT !.match_index[m.src] = Larger(@, m.match_index),
                              !.next_index[m.src] = Larger(@, NextAfter(m.match_index))]
           after == _advance_commit(acked)
           backed == [n EXCEPT !.next_index[m.src] = BackOff(@)]
<1>1. m.src \in Node /\ m.match_index \in Nat
  BY DEF Message
<1>2. Ignores(n, after)
  <2>1. acked \in NodeState
    BY <1>1, AckedType
  <2>2. SameReads(n, acked) /\ acked.commit_index = n.commit_index
    BY DEF SameReads, NodeState
  <2> HIDE DEF acked
  <2>3. /\ after.role = acked.role /\ after.term = acked.term
        /\ after.pending_reads = acked.pending_reads /\ after.next_read_id = acked.next_read_id
        /\ after.committed_this_term =>
               acked.committed_this_term \/ after.commit_index > acked.commit_index
    BY <2>1, AdvanceCommitReads
  <2> HIDE DEF after
  <2> QED BY <2>2, <2>3 DEF SameReads, Ignores, Unread
<1>3. Ignores(n, backed)
  <2>1. SameReads(n, backed)
    BY DEF SameReads, NodeState
  <2> QED BY <2>1, SameIgnores
<1>4. e = IF m.term > n.term THEN Silent(_become_follower(n, m.term))
        ELSE IF n.role # "leader" \/ m.term < n.term THEN Silent(n)
        ELSE IF m.success THEN Effect(after, {}, AppliedSince(n, after))
        ELSE Effect(backed, {_send_append_entries(i, backed, m.src)}, {})
  BY DEF _on_append_reply, after, backed
<1> HIDE DEF after, backed
<1>5. LET f == Effect(after, {}, AppliedSince(n, after))
          g == Effect(backed, {_send_append_entries(i, backed, m.src)}, {})
      IN  Ignores(n, f.node) /\ Mute(f.out) /\ Ignores(n, g.node) /\ Mute(g.out)
  BY <1>2, <1>3, MuteSends DEF Effect, Mute
<1> QED BY <1>4, <1>5, SilentIgnores

LEMMA StartElectionIgnores ==
    ASSUME NEW i \in Node, NEW n \in NodeState, Unread(n), n.role # "leader",
           NEW e, e = start_election(i, n)
    PROVE  Ignores(n, e.node) /\ Mute(e.out)
<1> DEFINE cand == [n EXCEPT !.term = @ + 1, !.role = "candidate", !.voted_for = i,
                             !.votes = {i}, !.timer = "election"]
           asked == {RequestVote(i, p, cand) : p \in cand.voters \ {i}}
           win == _maybe_win(i, cand)
<1>1. cand \in NodeState
  BY CandidateType
<1>2. cand.role = "candidate" /\ cand.pending_reads = {} /\ cand.next_read_id = n.next_read_id
  BY DEF Unread, NodeState
<1>3. Mute(asked)
  BY DEF Mute, RequestVote
<1> HIDE DEF asked
<1>4. e = IF i \notin n.voters THEN Silent([n EXCEPT !.timer = "election"])
        ELSE Effect(win.node, asked \cup win.out, {})
  BY DEF start_election, asked
<1> HIDE DEF cand
<1>5. Ignores(cand, win.node) /\ Mute(win.out)
  BY <1>1, <1>2, MaybeWinIgnores DEF Unread
<1> HIDE DEF win
<1>6. Ignores(n, win.node)
  BY <1>2, <1>5 DEF Ignores
<1>7. LET f == Silent([n EXCEPT !.timer = "election"]) IN Ignores(n, f.node) /\ Mute(f.out)
  BY RearmReads, SameIgnores DEF Silent, Effect, Mute
<1>8. LET f == Effect(win.node, asked \cup win.out, {}) IN Ignores(n, f.node) /\ Mute(f.out)
  BY <1>3, <1>5, <1>6 DEF Effect, Mute
<1> QED BY <1>4, <1>7, <1>8

LEMMA HeartbeatTimeoutIgnores ==
    ASSUME NEW i \in Node, NEW n \in NodeState, Unread(n), NEW e, e = HeartbeatTimeout(i, n)
    PROVE  Ignores(n, e.node) /\ Mute(e.out)
BY RearmReads, SameIgnores, MuteSends DEF HeartbeatTimeout, Effect

LEMMA ClientCommandIgnores ==
    ASSUME NEW i \in Node, NEW n \in NodeState, Unread(n), NEW c \in Client, NEW r \in Nat,
           NEW e, e = client_command(i, n, c, r)
    PROVE  Ignores(n, e.node) /\ Mute(e.out)
<1> DEFINE asked == [n EXCEPT !.client_index[c] = r]
           m == AppendToLog(i, asked, ClientCommand(c, r))
<1>1. asked \in NodeState
  BY IndexedType
<1>2. SameReads(n, asked)
  BY DEF SameReads, NodeState
<1> HIDE DEF asked
<1>3. SameReads(n, m)
  BY <1>1, <1>2, AppendToLogReads DEF SameReads
<1> HIDE DEF m
<1>4. LET f == Effect(m, _broadcast_heartbeats(i, m), {}) IN Ignores(n, f.node) /\ Mute(f.out)
  BY <1>3, SameIgnores, MuteSends DEF Effect
<1>5. e \in {Silent(n), Effect(m, _broadcast_heartbeats(i, m), {})}
  BY DEF client_command, m, asked
<1> QED BY <1>4, <1>5, SilentIgnores

LEMMA ChangeConfigIgnores ==
    ASSUME NEW i \in Node, NEW n \in NodeState, Unread(n), NEW V \in SUBSET Node,
           NEW e, e = change_config(i, n, V)
    PROVE  Ignores(n, e.node) /\ Mute(e.out)
<1> DEFINE grown == AppendToLog(i, n, encode_config(V))
           m == _adopt_config(grown, V, last_log_index(grown))
<1>1. encode_config(V) \in Command
  BY DEF encode_config, Command
<1>2. grown \in NodeState
  BY <1>1, AppendToLogType
<1>3. SameReads(n, grown)
  BY <1>1, AppendToLogReads
<1>4. e = Effect(m, _broadcast_heartbeats(i, m), {})
  BY DEF change_config
<1> HIDE DEF grown
<1>5. SameReads(n, m)
  BY <1>2, <1>3, AdoptConfigReads DEF SameReads
<1> HIDE DEF m
<1> QED BY <1>4, <1>5, SameIgnores, MuteSends DEF Effect

LEMMA PauseIgnores ==
    ASSUME NEW n \in NodeState, NEW e, e = Silent(pause(n))
    PROVE  Ignores(n, e.node) /\ Mute(e.out)
<1> DEFINE m == [Restore(n, n.snapshot) EXCEPT
                  !.alive = FALSE, !.role = "follower", !.timer = "none",
                  !.next_index = [p \in Node |-> 1], !.match_index = [p \in Node |-> 0],
                  !.votes = {}, !.client_index = [c \in Client |-> -1],
                  !.pending_reads = {}, !.committed_this_term = FALSE]
<1>1. m \in NodeState
  BY CrashedType
<1>2. m.role = "follower" /\ m.pending_reads = {} /\ m.next_read_id = n.next_read_id
  BY DEF Restore, NodeState
<1>3. pause(n) = _rebuild_config(m)
  BY DEF pause
<1> HIDE DEF m
<1>4. SameReads(m, pause(n))
  BY <1>1, <1>3, RebuildConfigReads
<1> QED BY <1>2, <1>4 DEF SameReads, Ignores, Silent, Effect, Mute

LEMMA ResumeIgnores ==
    ASSUME NEW n \in NodeState, Unread(n), NEW e, e = Silent(resume(n))
    PROVE  Ignores(n, e.node) /\ Mute(e.out)
<1>1. SameReads(n, resume(n))
  BY DEF SameReads, resume, NodeState
<1> QED BY <1>1, SameIgnores DEF Silent, Effect, Mute

---------------------------------------------------------------------------
(* Handlers of reads. *)

\* A follower answers a ReadHeartbeat, whose round it names.
Echoes(n, m, e) ==
    /\ Ignores(n, e.node)
    /\ \A r \in e.out : r.type = "ReadAck" /\ r.dst = m.src /\ r.read_id = m.read_id

\* Nothing but the reads of a leader changes.
OnlyReads(n, p) ==
    /\ n.role = "leader" /\ p.role = "leader" /\ p.term = n.term
    /\ p.committed_this_term = n.committed_this_term
    /\ p.log = n.log /\ p.commit_index = n.commit_index /\ p.machine = n.machine

\* A read that is confirmed by a majority and reached by what was applied.
MayServe(n, p) == IsMajority(p.acks, n.voters) /\ Len(n.machine) >= p.index

\* Read p, with one more acknowledgement, that of the sender of m.
AckedBy(p, m) == [p EXCEPT !.acks = @ \cup {m.src}]

\* A leader hears an acknowledgement of a round of its own, and may serve its read.
Confirms(n, m, e) ==
    /\ OnlyReads(n, e.node) /\ e.node.next_read_id = n.next_read_id /\ e.out = {}
    /\ m.term = n.term
    /\ \E p \in n.pending_reads :
          LET asked == (n.pending_reads \ {p}) \cup {AckedBy(p, m)} IN
          /\ p.id = m.read_id
          /\ \/ e.node.pending_reads = asked
             \/ /\ e.node.pending_reads = asked \ {AckedBy(p, m)}
                /\ MayServe(n, AckedBy(p, m))

\* A leader begins a round, which has a new number, and may serve its read at once.
Begins(i, n, e) ==
    /\ OnlyReads(n, e.node) /\ e.node.next_read_id = n.next_read_id + 1
    /\ \A r \in e.out : r.type = "ReadHeartbeat" /\ r.read_id = n.next_read_id
    /\ \E p \in PendingRead :
          /\ p.id = n.next_read_id /\ p.index = n.commit_index /\ p.acks = {i}
          /\ \/ e.node.pending_reads = n.pending_reads \cup {p}
             \/ e.node.pending_reads = (n.pending_reads \cup {p}) \ {p} /\ MayServe(n, p)

LEMMA ReadHeartbeatEchoes ==
    ASSUME NEW i \in Node, NEW n \in NodeState, Unread(n), NEW m \in Message,
           m.type = "ReadHeartbeat", NEW e, e = _on_read_heartbeat(i, n, m)
    PROVE  Echoes(n, m, e)
<1> DEFINE follow == IF m.term > n.term THEN _become_follower(n, m.term) ELSE n
           armed == IF m.term >= n.term THEN [follow EXCEPT !.timer = "election"] ELSE follow
<1>1. m.term \in Nat
  BY DEF Message
<1>2. follow \in NodeState /\ Ignores(n, follow) /\ (follow = n \/ follow.role = "follower")
  BY <1>1, BecomeFollowerType, FollowerIgnores, SameIgnores DEF SameReads
<1> HIDE DEF follow
<1>3. SameReads(follow, armed)
  BY <1>2, RearmReads DEF SameReads
<1> HIDE DEF armed
<1>4. Ignores(n, armed)
  BY <1>2, <1>3, IgnoresThenSame, SameIgnores
<1>5. e = Effect(armed, {ReadAck(i, m.src, armed, m.read_id)}, {})
  BY DEF _on_read_heartbeat, armed, follow
<1> QED BY <1>4, <1>5 DEF Effect, Echoes, ReadAck

LEMMA ServeReads ==
    ASSUME NEW n, NEW asked \in NodeState, OnlyReads(n, asked), asked.voters = n.voters,
           NEW q, NEW e, e = _try_serve_read(asked, q)
    PROVE  /\ OnlyReads(n, e.node) /\ e.node.next_read_id = asked.next_read_id /\ e.out = {}
           /\ \/ e.node.pending_reads = asked.pending_reads
              \/ e.node.pending_reads = asked.pending_reads \ {q} /\ MayServe(n, q)
<1> DEFINE done == [asked EXCEPT !.pending_reads = @ \ {q}]
<1>1. /\ OnlyReads(n, done) /\ done.next_read_id = asked.next_read_id
      /\ done.pending_reads = asked.pending_reads \ {q}
  BY DEF OnlyReads, NodeState
<1>2. \/ e.node = asked /\ e.out = {}
      \/ /\ e.node = done /\ e.out = {}
         /\ IsMajority(q.acks, asked.voters) /\ Len(asked.machine) >= q.index
  BY DEF _try_serve_read, Silent, Effect, Confirmed, last_applied
<1> HIDE DEF done
<1> QED BY <1>1, <1>2 DEF MayServe, OnlyReads

LEMMA ReadAckConfirms ==
    ASSUME NEW i \in Node, NEW n \in NodeState, Unread(n), NEW m \in Message,
           m.type = "ReadAck", NEW e, e = _on_read_ack(i, n, m)
    PROVE  (Ignores(n, e.node) /\ Mute(e.out)) \/ Confirms(n, m, e)
<1> DEFINE p == CHOOSE q \in n.pending_reads : q.id = m.read_id
           acked == [p EXCEPT !.acks = @ \cup {m.src}]
           asked == [n EXCEPT !.pending_reads = (@ \ {p}) \cup {acked}]
           done == _try_serve_read(asked, acked)
<1>1. e = IF m.term > n.term THEN Silent(_become_follower(n, m.term))
        ELSE IF m.term # n.term \/ n.role # "leader"
                  \/ ~ \E q \in n.pending_reads : q.id = m.read_id
        THEN Silent(n)
        ELSE done
  BY DEF _on_read_ack
<1>2. ASSUME m.term = n.term, n.role = "leader", \E q \in n.pending_reads : q.id = m.read_id
      PROVE  Confirms(n, m, done)
  <2>1. p \in n.pending_reads /\ p.id = m.read_id
    BY <1>2
  <2> DEFINE S == (n.pending_reads \ {p}) \cup {acked}
  <2>2. acked = AckedBy(p, m)
    BY DEF AckedBy
  <2>3. asked \in NodeState
    BY <1>2, AskedType DEF Message
  <2>4. /\ OnlyReads(n, asked) /\ asked.voters = n.voters
        /\ asked.next_read_id = n.next_read_id /\ asked.pending_reads = S
    BY <1>2 DEF OnlyReads, NodeState
  <2> HIDE DEF p, acked, asked, S
  <2>5. /\ OnlyReads(n, done.node) /\ done.node.next_read_id = n.next_read_id /\ done.out = {}
        /\ \/ done.node.pending_reads = S
           \/ done.node.pending_reads = S \ {acked} /\ MayServe(n, acked)
    BY <2>3, <2>4, ServeReads
  <2> HIDE DEF done
  <2> QED BY <1>2, <2>1, <2>2, <2>5 DEF Confirms, S
<1> HIDE DEF done
<1> QED BY <1>1, <1>2, SilentIgnores

LEMMA RequestReadBegins ==
    ASSUME NEW i \in Node, NEW n \in NodeState, n.role = "leader", NEW c \in Client,
           NEW r \in Nat, NEW e, e = request_read(i, n, c, r)
    PROVE  Begins(i, n, e)
<1> DEFINE p == [id |-> n.next_read_id, command |-> ClientCommand(c, r),
                 index |-> n.commit_index, acks |-> {i}]
           asked == [n EXCEPT !.next_read_id = @ + 1, !.pending_reads = @ \cup {p}]
           done == _try_serve_read(asked, p)
           sent == {ReadHeartbeat(i, q, n, p.id) : q \in n.voters \ {i}}
<1>1. p \in PendingRead
  BY RequestedType
<1>2. p.id = n.next_read_id /\ p.index = n.commit_index /\ p.acks = {i}
  OBVIOUS
<1>3. \A s \in sent : s.type = "ReadHeartbeat" /\ s.read_id = n.next_read_id
  BY DEF ReadHeartbeat
<1>4. e = Effect(done.node, sent, done.reported)
  BY DEF request_read
<1> DEFINE S == n.pending_reads \cup {p}
<1>5. asked \in NodeState
  BY RequestedType
<1>7. /\ OnlyReads(n, asked) /\ asked.voters = n.voters
      /\ asked.next_read_id = n.next_read_id + 1 /\ asked.pending_reads = S
  BY DEF OnlyReads, NodeState
<1> HIDE DEF p, asked, sent, S
<1>6. /\ OnlyReads(n, done.node) /\ done.node.next_read_id = n.next_read_id + 1
      /\ \/ done.node.pending_reads = S
         \/ done.node.pending_reads = S \ {p} /\ MayServe(n, p)
  BY <1>5, <1>7, ServeReads
<1> HIDE DEF done
<1> QED BY <1>1, <1>2, <1>3, <1>4, <1>6 DEF Begins, Effect, S

---------------------------------------------------------------------------
(***************************************************************************)
(* What a step of the cluster is to the reads of the server that takes it. *)
(***************************************************************************)
ReadShape(i, e) ==
    \/ Ignores(node[i], e.node) /\ Mute(e.out)
    \/ \E m \in msgs : m.type = "ReadHeartbeat" /\ Echoes(node[i], m, e)
    \/ \E m \in msgs : m.type = "ReadAck" /\ m.dst = i /\ Confirms(node[i], m, e)
    \/ node[i].committed_this_term /\ Begins(i, node[i], e)

LEMMA DeliveryReads ==
    ASSUME ConfigInv, NEW i \in Node, Unread(node[i]),
           NEW m \in msgs, m.dst = i, NEW e, e = handle(i, node[i], m)
    PROVE  ReadShape(i, e)
<1>1. m \in Message /\ node[i] \in NodeState
  BY DEF ConfigInv, TypeOK
<1>2. m.type # "InstallSnapshot"
  BY DEF ConfigInv
<1>3. CASE m.type = "RequestVote"
  <2>1. e = _on_request_vote(i, node[i], m)
    BY <1>3 DEF handle
  <2> QED BY <1>1, <1>3, <2>1, RequestVoteIgnores DEF ReadShape
<1>4. CASE m.type = "VoteReply"
  <2>1. e = _on_vote_reply(i, node[i], m)
    BY <1>4 DEF handle
  <2> QED BY <1>1, <1>4, <2>1, VoteReplyIgnores DEF ReadShape
<1>5. CASE m.type = "AppendEntries"
  <2>1. e = _on_append_entries(i, node[i], m)
    BY <1>5 DEF handle
  <2> QED BY <1>1, <1>5, <2>1, AppendEntriesIgnores DEF ReadShape
<1>6. CASE m.type = "AppendReply"
  <2>1. e = _on_append_reply(i, node[i], m)
    BY <1>6 DEF handle
  <2> QED BY <1>1, <1>6, <2>1, AppendReplyIgnores DEF ReadShape
<1>7. CASE m.type = "ReadHeartbeat"
  <2>1. e = _on_read_heartbeat(i, node[i], m)
    BY <1>7 DEF handle
  <2> QED BY <1>1, <1>7, <2>1, ReadHeartbeatEchoes DEF ReadShape
<1>8. CASE m.type = "ReadAck"
  <2>1. e = _on_read_ack(i, node[i], m)
    BY <1>8 DEF handle
  <2> QED BY <1>1, <1>8, <2>1, ReadAckConfirms DEF ReadShape
<1>9. m.type \in {"RequestVote", "VoteReply", "AppendEntries", "AppendReply",
                  "InstallSnapshot", "ReadHeartbeat", "ReadAck"}
  BY <1>1 DEF Message
<1> QED BY <1>2, <1>3, <1>4, <1>5, <1>6, <1>7, <1>8, <1>9

LEMMA EveryRead ==
    ASSUME ConfigInv, NEW i \in Node, Unread(node[i]), NEW e, Performs(i, e)
    PROVE  ReadShape(i, e)
<1>1. node[i] \in NodeState /\ \A c \in Client : next_req[c] \in Nat
  BY DEF ConfigInv, TypeOK
<1>2. ASSUME NEW m \in msgs, m.dst = i, e = handle(i, node[i], m) PROVE ReadShape(i, e)
  BY <1>2, DeliveryReads
<1>3. CASE node[i].role # "leader" /\ e = start_election(i, node[i])
  BY <1>1, <1>3, StartElectionIgnores DEF ReadShape
<1>4. CASE e = HeartbeatTimeout(i, node[i])
  BY <1>1, <1>4, HeartbeatTimeoutIgnores DEF ReadShape
<1>5. ASSUME NEW c \in Client, e = client_command(i, node[i], c, next_req[c])
      PROVE  ReadShape(i, e)
  <2>1. next_req[c] \in Nat
    BY <1>1
  <2> QED BY <1>1, <1>5, <2>1, ClientCommandIgnores DEF ReadShape
<1>6. ASSUME node[i].role = "leader", node[i].committed_this_term, NEW c \in Client,
             e = request_read(i, node[i], c, next_req[c])
      PROVE  ReadShape(i, e)
  <2>1. next_req[c] \in Nat
    BY <1>1
  <2> QED BY <1>1, <1>6, <2>1, RequestReadBegins DEF ReadShape
<1>9. ASSUME NEW V \in Proposals, e = change_config(i, node[i], V)
      PROVE  ReadShape(i, e)
  <2>1. V \in SUBSET Node
    BY EnvironmentAssumption
  <2> QED BY <1>1, <1>9, <2>1, ChangeConfigIgnores DEF ReadShape
<1>7. CASE e = Silent(pause(node[i]))
  BY <1>1, <1>7, PauseIgnores DEF ReadShape
<1>8. CASE e = Silent(resume(node[i]))
  BY <1>1, <1>8, ResumeIgnores DEF ReadShape
<1> QED BY <1>2, <1>3, <1>4, <1>5, <1>6, <1>7, <1>8, <1>9 DEF Performs, Leads
=============================================================================
