------------------------------ MODULE RaftReads ------------------------------
(***************************************************************************)
(* ReadIndex reads of RaftCluster are fresh, for every value of its        *)
(* constants but for one: nothing is compacted.                            *)
(***************************************************************************)
EXTENDS RaftSafety, RaftHistory

---------------------------------------------------------------------------
(* ReadInv after a step. *)

\* Server i takes the step e, reads included.
ReadMoves(H, M, i, e) == Moves(H, M, i, e) /\ ReadInv(H)

LEMMA ReadFacts ==
    ASSUME NEW H \in History, NEW M, NEW i \in Node, NEW e, ReadMoves(H, M, i, e)
    PROVE  /\ Inv(H) /\ Moves(H, M, i, e) /\ Shape(i, e)
           /\ node[i] \in NodeState /\ e.node \in NodeState
           /\ node'[i] = e.node /\ \A j \in Node : j # i => node'[j] = node[j]
           /\ node[i].next_read_id \in Nat
           /\ \/ e.node.next_read_id = node[i].next_read_id
              \/ Begins(i, node[i], e) /\ e.node.next_read_id = node[i].next_read_id + 1
<1>1. Inv(H) /\ Moves(H, M, i, e) /\ Shape(i, e) /\ ReadShape(i, e)
  BY DEF ReadMoves, Moves
<1>2. /\ e.node \in NodeState
      /\ node'[i] = e.node /\ \A j \in Node : j # i => node'[j] = node[j]
  BY <1>1, MoveFacts
<1>3. node[i] \in NodeState /\ node[i].next_read_id \in Nat
  BY <1>1, ServerFacts DEF NodeState
<1>4. \/ e.node.next_read_id = node[i].next_read_id
      \/ Begins(i, node[i], e) /\ e.node.next_read_id = node[i].next_read_id + 1
  BY <1>1 DEF ReadShape, Ignores, Echoes, Confirms, Begins
<1> QED BY <1>1, <1>2, <1>3, <1>4

\* The floor of every round stays, and that of a new one is what was committed.
LEMMA FloorsStay ==
    ASSUME NEW H \in History, NEW M, NEW i \in Node, NEW e, ReadMoves(H, M, i, e)
    PROVE  /\ \A j \in Node : /\ Len(read_floor'[j]) = node'[j].next_read_id
                              /\ \A k \in 1..Len(read_floor[j]) :
                                    read_floor'[j][k] = read_floor[j][k]
           /\ e.node.next_read_id > node[i].next_read_id =>
                 read_floor'[i][node[i].next_read_id + 1] = Len(committed)
<1>1. /\ Inv(H) /\ Moves(H, M, i, e)
      /\ node'[i] = e.node /\ \A j \in Node : j # i => node'[j] = node[j]
      /\ node[i].next_read_id \in Nat
      /\ \/ e.node.next_read_id = node[i].next_read_id
         \/ e.node.next_read_id = node[i].next_read_id + 1
  BY ReadFacts
<1>2. ObserveRead(i, e.node) /\ TypeOK
  BY <1>1 DEF Moves, Step, Inv, VoteInv
<1>3. \A j \in Node : read_floor[j] \in Seq(Nat) /\ Len(read_floor[j]) = node[j].next_read_id
  BY <1>2 DEF TypeOK, ReadMoves, ReadInv, RoundsAreNumbered
<1>4. CASE e.node.next_read_id = node[i].next_read_id
  <2>1. read_floor' = read_floor
    BY <1>1, <1>2, <1>4 DEF ObserveRead
  <2> QED BY <1>1, <1>3, <1>4, <2>1
<1>5. CASE e.node.next_read_id = node[i].next_read_id + 1
  <2> DEFINE grown == Append(read_floor[i], Len(committed))
  <2>1. /\ read_floor'[i] = grown
        /\ \A j \in Node : j # i => read_floor'[j] = read_floor[j]
    BY <1>1, <1>2, <1>5 DEF ObserveRead, TypeOK
  <2>2. Len(committed) \in Nat
    BY <1>2 DEF TypeOK
  <2>3. /\ Len(grown) = Len(read_floor[i]) + 1
        /\ grown[Len(read_floor[i]) + 1] = Len(committed)
        /\ \A k \in 1..Len(read_floor[i]) : grown[k] = read_floor[i][k]
    BY <1>3, <2>2
  <2> HIDE DEF grown
  <2> QED BY <1>1, <1>3, <1>5, <2>1, <2>3
<1> QED BY <1>1, <1>4, <1>5

LEMMA NumbersStay ==
    ASSUME NEW H \in History, NEW M, NEW i \in Node, NEW e, ReadMoves(H, M, i, e)
    PROVE  RoundsAreNumbered'
<1>1. /\ Inv(H) /\ Moves(H, M, i, e)
      /\ node'[i] = e.node /\ \A j \in Node : j # i => node'[j] = node[j]
      /\ node[i].next_read_id \in Nat
      /\ \/ e.node.next_read_id = node[i].next_read_id
         \/ Begins(i, node[i], e) /\ e.node.next_read_id = node[i].next_read_id + 1
  BY ReadFacts
<1>2. msgs' = msgs \cup e.out /\ TypeOK /\ TypeOK'
  BY <1>1, MoveFacts
<1>3. \A j \in Node : /\ node[j].next_read_id \in Nat /\ node'[j].next_read_id \in Nat
                      /\ node[j].next_read_id <= node'[j].next_read_id
  <2> SUFFICES ASSUME NEW j \in Node
               PROVE  /\ node[j].next_read_id \in Nat /\ node'[j].next_read_id \in Nat
                      /\ node[j].next_read_id <= node'[j].next_read_id
    OBVIOUS
  <2>1. node[j].next_read_id \in Nat
    BY <1>2 DEF TypeOK, NodeState
  <2> QED BY <1>1, <2>1
<1>4. \A m \in msgs' : m.src \in Node /\ m.dst \in Node /\
            (m.type \in {"ReadHeartbeat", "ReadAck"} => m.read_id \in Nat)
  BY <1>2 DEF TypeOK, Message
<1>5. \A m \in msgs : /\ m.type = "ReadHeartbeat" => m.read_id < node[m.src].next_read_id
                      /\ m.type = "ReadAck" => m.read_id < node[m.dst].next_read_id
  BY DEF ReadMoves, ReadInv, RoundsAreNumbered
<1>6. ASSUME NEW m \in msgs
      PROVE  /\ m.type = "ReadHeartbeat" => m.read_id < node'[m.src].next_read_id
             /\ m.type = "ReadAck" => m.read_id < node'[m.dst].next_read_id
  <2>1. m \in msgs'
    BY <1>2
  <2> QED BY <1>3, <1>4, <1>5, <2>1
<1>7. ASSUME NEW r \in e.out
      PROVE  /\ r.type = "ReadHeartbeat" => r.read_id < node'[r.src].next_read_id
             /\ r.type = "ReadAck" => r.read_id < node'[r.dst].next_read_id
  <2>1. r.src = i
    BY <1>1 DEF Moves, SafeStep, LogStep, SaysTruly
  <2>2. CASE Mute(e.out)
    BY <2>2 DEF Mute
  <2>3. ASSUME NEW m \in msgs, m.type = "ReadHeartbeat", Echoes(node[i], m, e)
        PROVE  /\ r.type = "ReadHeartbeat" => r.read_id < node'[r.src].next_read_id
               /\ r.type = "ReadAck" => r.read_id < node'[r.dst].next_read_id
    <3>1. r.type = "ReadAck" /\ r.dst = m.src /\ r.read_id = m.read_id
      BY <2>3 DEF Echoes
    <3> QED BY <1>6, <2>3, <3>1
  <2>4. CASE e.out = {}
    BY <2>4
  <2>5. CASE Begins(i, node[i], e)
    <3>1. r.type = "ReadHeartbeat" /\ r.read_id = node[i].next_read_id
      BY <2>5 DEF Begins
    <3>2. e.node.next_read_id = node[i].next_read_id + 1
      BY <2>5 DEF Begins
    <3> QED BY <1>1, <2>1, <3>1, <3>2
  <2>6. ReadShape(i, e)
    BY DEF ReadMoves, Moves
  <2> QED BY <2>2, <2>3, <2>4, <2>5, <2>6 DEF ReadShape, Confirms
<1> QED BY <1>2, <1>6, <1>7, FloorsStay DEF RoundsAreNumbered

\* Two leaders of a term are one.
LEMMA LeadersAreOne ==
    ASSUME NEW H \in History, NEW M, NEW i \in Node, NEW e, Moves(H, M, i, e),
           e.node.role = "leader", NEW j \in Node, j # i, node[j].role = "leader"
    PROVE  node[j].term # e.node.term
<1>1. leaders \subseteq leaders' /\ <<e.node.term, i>> \in leaders'
  BY MoveFacts
<1>2. <<node[j].term, j>> \in leaders
  BY DEF Moves, Inv, VoteInv
<1>3. ElectionSafety'
  BY StepIsSafe
<1> QED BY <1>1, <1>2, <1>3 DEF ElectionSafety

\* Everything that was seen committed was appended by a leader.
LEMMA CommittedWasLed ==
    ASSUME NEW H \in History, Inv(H), NEW k \in 1..Len(committed)
    PROVE  committed[k].entry.term \in LedTerms
<1> DEFINE t == committed[k].term
<1>1. t \in LedTerms /\ k <= Len(H[t]) /\ H[t][k] = committed[k].entry
  BY DEF Inv, CommitInv, CommittedIsSettled
<1>2. Len(committed) \in Nat /\ TypeOK
  BY DEF Inv, VoteInv, TypeOK
<1>3. Len(H[t]) \in Nat
  BY <1>1, <1>2, LedLog
<1>4. k \in 1..Len(H[t])
  BY <1>1, <1>2, <1>3
<1>5. Backed(H, H[t])
  BY <1>1 DEF Inv, LogInv, LeadersLogs
<1> QED BY <1>1, <1>4, <1>5 DEF Backed

LEMMA KnowledgeStays ==
    ASSUME NEW H \in History, NEW M, NEW i \in Node, NEW e, ReadMoves(H, M, i, e),
           NEW j \in Node, NEW x, x = node'[j]
    PROVE  KnowsItsCommits(x)'
<1> DEFINE n == node[i]
           p == e.node
<1>1. /\ Inv(H) /\ Moves(H, M, i, e) /\ Shape(i, e) /\ p \in NodeState
      /\ node'[i] = p /\ \A k \in Node : k # i => node'[k] = node[k]
  BY ReadFacts
<1>2. KnowsItsCommits(n) /\ KnowsItsCommits(node[j])
  BY DEF ReadMoves, ReadInv
<1>3. /\ TypeOK /\ TypeOK' /\ leaders \subseteq leaders'
      /\ p.role = "leader" => <<p.term, i>> \in leaders'
      /\ p.term \in Nat /\ x.term \in Nat /\ p.commit_index \in Nat /\ x.commit_index \in Nat
      /\ n.commit_index \in Nat
  <2>1. /\ TypeOK /\ TypeOK' /\ leaders \subseteq leaders'
        /\ p.role = "leader" => <<p.term, i>> \in leaders'
    BY <1>1, MoveFacts
  <2>2. x \in NodeState
    BY <2>1 DEF TypeOK
  <2>3. n \in NodeState
    BY <1>1, ServerFacts
  <2> QED BY <1>1, <2>1, <2>2, <2>3 DEF NodeState
<1>4. LedTerms \subseteq LedTerms' /\ (p.role = "leader" => p.term \in LedTerms')
  BY <1>3 DEF LedTerms
<1>5. Deposed(x.term) => Deposed(x.term)'
  BY <1>4 DEF Deposed
<1>6. /\ Len(committed) \in Nat /\ Len(committed') \in Nat
      /\ Len(committed') = Larger(Len(committed), Len(p.machine))
      /\ \A k \in 1..Len(committed) : committed'[k] = committed[k]
      /\ \A k \in 1..Len(committed') : k > Len(committed) =>
            committed'[k] = [entry |-> p.machine[k], term |-> p.term]
  BY <1>1, <1>3, CommittedGrows DEF Moves
<1> SUFFICES ASSUME x.role = "leader", NEW k \in 1..Len(committed'),
                    committed'[k].entry.term = x.term
             PROVE  k <= x.commit_index \/ Deposed(x.term)'
  BY DEF KnowsItsCommits
<1>7. CASE k <= Len(committed)
  <2>1. k \in 1..Len(committed) /\ committed[k].entry.term = x.term
    BY <1>6, <1>7
  <2>2. CASE j # i
    <3>1. x = node[j]
      BY <1>1, <2>2
    <3> QED BY <1>2, <1>5, <2>1, <3>1 DEF KnowsItsCommits
  <2>3. CASE j = i
    <3>1. x = p
      BY <1>1, <2>3
    <3>2. LeadsOn(n, p) \/ Campaigning(n, p)
      BY <1>1, <3>1 DEF Moves, SafeStep, LogStep
    <3>3. CASE Campaigning(n, p)
      <4>1. p.term \notin LedTerms
        BY <1>1, <3>1, <3>3, CampaignIsFresh
      <4> QED BY <1>1, <2>1, <3>1, <4>1, CommittedWasLed
    <3>4. CASE LeadsOn(n, p)
      <4>1. n.role = "leader" /\ p.term = n.term
        BY <3>4 DEF LeadsOn
      <4>2. n.commit_index <= p.commit_index
        BY <1>1, <3>1, <4>1, LeaderGoesOn
      <4>3. k <= n.commit_index \/ Deposed(n.term)
        BY <1>2, <2>1, <3>1, <4>1 DEF KnowsItsCommits
      <4> QED BY <1>3, <1>5, <3>1, <4>1, <4>2, <4>3
    <3> QED BY <3>2, <3>3, <3>4
  <2> QED BY <2>2, <2>3
<1>8. CASE k > Len(committed)
  <2>1. Applied(p) /\ \A l \in 1..Len(p.log) : p.log[l].term <= p.term
    BY <1>1 DEF Moves, SafeStep, CommitStep, LogStep
  <2>2. Len(p.machine) = p.commit_index /\ k \in 1..p.commit_index
    BY <1>3, <1>6, <1>8, <2>1 DEF Applied, Larger
  <2>3. /\ committed'[k].entry = p.log[k] /\ k \in 1..Len(p.log)
    <3>1. committed'[k].entry = p.machine[k]
      BY <1>6, <1>8
    <3>2. Len(p.log) \in Nat
      BY <1>1, MoveFacts
    <3> QED BY <1>3, <2>1, <2>2, <3>1, <3>2 DEF Applied
  <2>4. x.term <= p.term
    BY <2>1, <2>3
  <2>5. p.role = "leader"
    BY <1>1, <1>3, <1>6, <1>8, <2>2, LeadersCommitFirst
  <2>6. CASE j = i
    BY <1>1, <2>2, <2>6
  <2>7. CASE j # i
    <3>1. x = node[j]
      BY <1>1, <2>7
    <3>2. x.term # p.term
      <4>1. node[j].role = "leader" /\ Moves(H, M, i, e)
        BY <1>1, <3>1
      <4>2. node[j].term # e.node.term
        BY <2>5, <2>7, <4>1, LeadersAreOne
      <4> QED BY <3>1, <4>2
    <3>3. x.term < p.term
      BY <1>3, <2>4, <3>2
    <3> QED BY <1>4, <2>5, <3>3 DEF Deposed
  <2> QED BY <2>6, <2>7
<1> QED BY <1>6, <1>7, <1>8

\* A round that has no chance gets none by one acknowledgement more.
LEMMA HopelessStays ==
    ASSUME NEW H \in History, NEW M, NEW i \in Node, NEW e, Moves(H, M, i, e),
           NEW j, NEW t \in Nat, NEW p, Hopeless(H, j, t, p), NEW q, q.id = p.id,
           \A v \in q.acks \ p.acks : \E m \in msgs :
               m.type = "ReadAck" /\ m.src = v /\ m.dst = j /\ m.read_id = p.id /\ m.term = t
    PROVE  Hopeless(M, j, t, q)'
<1>1. PICK u \in LedTerms : \E b \in 0..Len(H[u]) : \E Q \in SUBSET Node :
         Bars(H, j, t, p, u, b, Q)
  BY DEF Hopeless
<1>2. PICK b \in 0..Len(H[u]) : \E Q \in SUBSET Node : Bars(H, j, t, p, u, b, Q)
  BY <1>1
<1>3. PICK Q \in SUBSET Node : Bars(H, j, t, p, u, b, Q)
  BY <1>2
<1>4. /\ msgs' = msgs \cup e.out /\ TypeOK /\ TypeOK'
      /\ node[i].term <= e.node.term /\ e.node.term \in Nat
      /\ \A k \in Node : node[k].term <= node'[k].term
  BY MoveFacts
<1>5. ASSUME NEW v \in Q PROVE Refuses(j, t, q, v)'
  <2>1. /\ v \notin p.acks /\ t < node[v].term
        /\ \A m \in msgs : m.type = "ReadAck" /\ m.src = v /\ m.dst = j /\ m.read_id = p.id =>
                               m.term # t
    BY <1>3 DEF Bars, Refuses
  <2>2. v \notin q.acks
    BY <2>1
  <2>3. node[v].term \in Nat /\ node'[v].term \in Nat
    BY <1>4 DEF TypeOK, NodeState
  <2>4. t < node'[v].term
    BY <1>4, <2>1, <2>3
  <2>5. ASSUME NEW m \in e.out, m.src = v PROVE m.term # t
    <3>1. m.src = i /\ m.term = e.node.term
      BY DEF Moves, SafeStep, LogStep, SaysTruly
    <3> QED BY <1>4, <2>1, <2>3, <2>5, <3>1
  <2> QED BY <1>4, <2>1, <2>2, <2>4, <2>5 DEF Refuses
<1>6. /\ b \in 0..Len(M[u]) /\ VotersAt(M[u], b) = VotersAt(H[u], b)
      /\ StoodWith(M[u], u, b) /\ u \in LedTerms'
      /\ \A k \in 1..b : M[u][k] = H[u][k]
  <2>1. Grows(H, M, e.node)
    BY HistoryGrows
  <2>2. /\ b \in 0..Len(M[u]) /\ VotersAt(M[u], b) = VotersAt(H[u], b)
        /\ StoodWith(M[u], u, b)
    BY <1>3, <1>4, <2>1, StoodWithStays DEF Bars
  <2>3. u \in LedTerms' /\ \A k \in 1..Len(H[u]) : M[u][k] = H[u][k]
    BY <2>1 DEF Grows, SameUpTo
  <2>4. Len(H[u]) \in Nat
    BY <1>4, LedLog
  <2> QED BY <2>2, <2>3, <2>4
<1>7. Bars(M, j, t, q, u, b, Q)'
  BY <1>3, <1>5, <1>6 DEF Bars
<1> QED BY <1>6, <1>7 DEF Hopeless

(***************************************************************************)
(* A round that a leader begins after it committed in its term waits for   *)
(* everything committed, unless the leader has been deposed.               *)
(***************************************************************************)
LEMMA NewRoundIsSound ==
    ASSUME NEW H \in History, Inv(H), ReadInv(H), NEW i \in Node, node[i].role = "leader",
           node[i].committed_this_term,
           NEW p, p.id = node[i].next_read_id, p.acks = {i}
    PROVE  Len(committed) <= node[i].commit_index \/ Hopeless(H, i, node[i].term, p)
<1> DEFINE n == node[i]
           t == n.term
           L == Len(committed)
<1>1. /\ TypeOK /\ n \in NodeState /\ t \in Nat /\ n.log \in Seq(Entry) /\ Len(n.log) \in Nat
      /\ n.commit_index \in Nat /\ L \in Nat
      /\ n.commit_index <= Len(n.log) /\ Backed(H, n.log)
      /\ \A k \in 1..Len(n.log) : n.log[k].term <= t
  BY ServerFacts DEF ServerLog, AppliedIsCommitted, Applied
<1>2. ASSUME Deposed(t) PROVE Hopeless(H, i, t, p)
  <2> DEFINE Later == {w \in LedTerms : t < w}
  <2>0. PICK u \in Later : \A w \in Later : u <= w
    <3>1. Later \in SUBSET Nat /\ Later # {}
      BY <1>1, <1>2, TermsAreNumbers DEF Deposed
    <3> HIDE DEF Later
    <3> QED BY <3>1, LeastNat
  <2>1. u \in LedTerms /\ t < u /\ \A w \in LedTerms : t < w => u <= w
    BY <2>0
  <2> HIDE DEF Later
  <2>2. PICK x \in leaders : u = x[1]
    BY <2>1 DEF LedTerms
  <2>3. PICK b \in 0..Len(H[u]) : \E Q \in SUBSET Ballots(msgs, x[1], x[2]) : WonWith(H, x, b, Q)
    BY <2>2 DEF Inv, AckInv, LeadersCarry
  <2>4. PICK Q \in SUBSET Ballots(msgs, x[1], x[2]) : WonWith(H, x, b, Q)
    BY <2>3
  <2>5. /\ Q \in SUBSET Node /\ StoodWith(H[u], u, b) /\ IsMajority(Q, VotersAt(H[u], b))
        /\ \A v \in Q : u <= node[v].term
    BY <2>2, <2>4 DEF WonWith, Ballots
  <2>6. ASSUME NEW k \in 1..b PROVE H[u][k].term <= t
    <3>1. /\ Backed(H, H[u]) /\ Len(H[u]) \in Nat /\ u \in Nat
          /\ \A j \in 1..Len(H[u]) : H[u][j].term \in Int
      BY <1>1, <2>1, LedFacts DEF Inv
    <3>2. k \in 1..Len(H[u]) /\ H[u][k].term < u
      BY <2>5, <3>1 DEF StoodWith
    <3>3. H[u][k].term \in LedTerms
      BY <3>1, <3>2 DEF Backed
    <3> QED BY <1>1, <2>1, <3>1, <3>2, <3>3
  <2>7. ASSUME NEW v \in Q PROVE Refuses(i, t, p, v)
    <3>1. node[v].term \in Nat /\ u \in Nat
      BY <2>1, <2>5, ServerFacts, TermsAreNumbers
    <3>2. t < node[v].term
      BY <1>1, <2>1, <2>5, <3>1
    <3>3. v # i
      BY <1>1, <3>2
    <3>4. \A m \in msgs : m.type = "ReadAck" /\ m.dst = i => m.read_id # p.id
      <4>1. \A m \in msgs : m.type = "ReadAck" => m.read_id \in Nat
        BY <1>1 DEF TypeOK, Message
      <4>2. n.next_read_id \in Nat
        BY <1>1 DEF NodeState
      <4> QED BY <4>1, <4>2 DEF ReadInv, RoundsAreNumbered
    <3> QED BY <3>2, <3>3, <3>4 DEF Refuses
  <2>8. Bars(H, i, t, p, u, b, Q)
    BY <2>1, <2>5, <2>6, <2>7 DEF Bars
  <2> QED BY <2>1, <2>5, <2>8 DEF Hopeless
<1> SUFFICES ASSUME L > n.commit_index PROVE Deposed(t)
  BY <1>1, <1>2
<1> DEFINE s == committed[L].term
<1>3. L \in 1..L
  BY <1>1
<1>4. s \in LedTerms /\ s \in Nat
  BY <1>1, <1>3, TermsAreNumbers DEF Inv, CommitInv, CommittedIsSettled
<1>5. CASE t < s
  BY <1>4, <1>5 DEF Deposed
<1>6. CASE s <= t
  <2>1. L \in DOMAIN n.log /\ n.log[L] = committed[L].entry
    <3>1. LeaderCompleteness /\ FullLog(n) = n.log
      BY LeadersAreComplete, BareLog
    <3> QED BY <1>3, <1>6, <3>1 DEF LeaderCompleteness
  <2>2. PICK k \in 1..n.commit_index : n.log[k].term = t
    BY DEF Inv, CommitInv, OwnCommits
  <2>3. L \in 1..Len(n.log) /\ k \in 1..L /\ k \in Nat
    BY <1>1, <2>1
  <2>4. n.log[k].term <= n.log[L].term
    <3>1. LeadersLogs(H)
      BY DEF Inv, LogInv
    <3> QED BY <1>1, <2>3, <3>1, SortedLog
  <2>5. n.log[L].term = t
    <3>1. n.log[L] \in Entry
      BY <1>1, <2>3
    <3>2. n.log[L].term \in Int
      BY <3>1 DEF Entry
    <3>3. n.log[L].term <= t
      BY <1>1, <2>3
    <3> QED BY <1>1, <2>2, <2>4, <3>2, <3>3
  <2>6. L <= n.commit_index \/ Deposed(t)
    BY <1>3, <2>1, <2>5 DEF ReadInv, KnowsItsCommits
  <2> QED BY <1>1, <2>6
<1> QED BY <1>1, <1>4, <1>5, <1>6

\* A round that was sound is so with the same floor, one acknowledgement more.
LEMMA RoundStays ==
    ASSUME NEW H \in History, NEW M, NEW i \in Node, NEW e, ReadMoves(H, M, i, e),
           NEW j \in Node, NEW t, t = node[j].term, NEW p \in node[j].pending_reads,
           NEW q, q.id = p.id, q.index = p.index,
           \A v \in q.acks \ p.acks : \E m \in msgs :
               /\ m.type = "ReadAck" /\ m.src = v /\ m.dst = j
               /\ m.read_id = p.id /\ m.term = t
    PROVE  /\ q.id < node'[j].next_read_id
           /\ read_floor'[j][q.id + 1] <= q.index \/ Hopeless(M, j, t, q)'
<1>1. /\ Inv(H) /\ Moves(H, M, i, e)
      /\ node[i].next_read_id \in Nat
      /\ node'[i] = e.node /\ \A k \in Node : k # i => node'[k] = node[k]
      /\ \/ e.node.next_read_id = node[i].next_read_id
         \/ e.node.next_read_id = node[i].next_read_id + 1
  <2>1. \/ e.node.next_read_id = node[i].next_read_id
        \/ Begins(i, node[i], e) /\ e.node.next_read_id = node[i].next_read_id + 1
    BY ReadFacts
  <2>2. /\ Inv(H) /\ Moves(H, M, i, e)
        /\ node[i].next_read_id \in Nat
        /\ node'[i] = e.node /\ \A k \in Node : k # i => node'[k] = node[k]
    BY ReadFacts
  <2> QED BY <2>1, <2>2
<1>2. node[j] \in NodeState /\ node[j].term \in Nat
  BY <1>1, ServerFacts
<1>3. p.id \in Nat /\ node[j].next_read_id \in Nat
  BY <1>2 DEF NodeState, PendingRead
<1>4. /\ p.id < node[j].next_read_id
      /\ read_floor[j][p.id + 1] <= p.index \/ Hopeless(H, j, t, p)
      /\ Len(read_floor[j]) = node[j].next_read_id
  BY DEF ReadMoves, ReadInv, PendingIsSound, RoundsAreNumbered
<1>5. node[j].next_read_id <= node'[j].next_read_id /\ node'[j].next_read_id \in Nat
  BY <1>1, <1>3
<1>6. p.id + 1 \in 1..Len(read_floor[j])
  BY <1>3, <1>4
<1>7. read_floor'[j][q.id + 1] = read_floor[j][p.id + 1]
  <2>1. \A k \in 1..Len(read_floor[j]) : read_floor'[j][k] = read_floor[j][k]
    BY FloorsStay
  <2> QED BY <1>6, <2>1
<1>8. Hopeless(H, j, t, p) => Hopeless(M, j, t, q)'
  BY <1>1, <1>2, HopelessStays
<1> QED BY <1>3, <1>4, <1>5, <1>7, <1>8

LEMMA PendingStays ==
    ASSUME NEW H \in History, NEW M, NEW i \in Node, NEW e, ReadMoves(H, M, i, e),
           NEW j \in Node, NEW x, x = node'[j]
    PROVE  PendingIsSound(M, j, x)'
<1> DEFINE n == node[i]
           p == e.node
           Sound(q) == /\ q.id < x.next_read_id
                       /\ read_floor'[j][q.id + 1] <= q.index \/ Hopeless(M, j, x.term, q)'
<1>1. /\ Inv(H) /\ Moves(H, M, i, e) /\ n \in NodeState /\ p \in NodeState
      /\ node'[i] = p /\ \A k \in Node : k # i => node'[k] = node[k]
      /\ n.next_read_id \in Nat
  BY ReadFacts
<1>2. PendingIsSound(H, j, node[j]) /\ PendingIsSound(H, i, n) /\ ReadInv(H)
  BY DEF ReadMoves, ReadInv
<1>3. ASSUME x.term = node[j].term, NEW q \in node[j].pending_reads PROVE Sound(q)
  BY <1>3, RoundStays
<1>4. CASE j # i
  <2>1. x = node[j]
    BY <1>1, <1>4
  <2> QED BY <1>2, <1>3, <2>1 DEF PendingIsSound
<1>5. CASE j = i /\ Ignores(n, p)
  <2>1. x = p
    BY <1>1, <1>5
  <2>2. CASE p.pending_reads = {}
    BY <2>1, <2>2 DEF PendingIsSound
  <2>3. CASE p.role = "leader" /\ p.term = n.term /\ p.pending_reads = n.pending_reads
    BY <1>3, <1>5, <2>1, <2>3 DEF PendingIsSound
  <2> QED BY <1>5, <2>2, <2>3 DEF Ignores
<1>6. ASSUME j = i, NEW m \in msgs, m.type = "ReadAck", m.dst = i, Confirms(n, m, e)
      PROVE  PendingIsSound(M, j, x)'
  <2>1. x = p /\ x.role = "leader" /\ x.term = n.term /\ m.term = n.term
    BY <1>1, <1>6 DEF Confirms, OnlyReads
  <2>2. PICK r \in n.pending_reads :
           /\ r.id = m.read_id
           /\ p.pending_reads \subseteq (n.pending_reads \ {r}) \cup {AckedBy(r, m)}
    BY <1>6 DEF Confirms
  <2>3. ASSUME NEW q, q = AckedBy(r, m) PROVE Sound(q)
    <3>1. r \in PendingRead
      BY <1>1 DEF NodeState
    <3>2. q.id = r.id /\ q.index = r.index /\ q.acks = r.acks \cup {m.src}
      BY <2>3, <3>1 DEF AckedBy, PendingRead
    <3>3. \A v \in q.acks \ r.acks : \E w \in msgs :
             /\ w.type = "ReadAck" /\ w.src = v /\ w.dst = j
             /\ w.read_id = r.id /\ w.term = x.term
      BY <1>6, <2>1, <2>2, <3>2
    <3> QED BY <1>6, <2>1, <3>2, <3>3, RoundStays
  <2>4. ASSUME NEW q \in p.pending_reads PROVE Sound(q)
    BY <1>3, <1>6, <2>1, <2>2, <2>3
  <2> QED BY <2>1, <2>4 DEF PendingIsSound
<1>7. ASSUME j = i, n.committed_this_term, Begins(i, n, e)
      PROVE  PendingIsSound(M, j, x)'
  <2>1. /\ x = p /\ n.role = "leader" /\ x.role = "leader" /\ x.term = n.term
        /\ p.next_read_id = n.next_read_id + 1
    BY <1>1, <1>7 DEF Begins, OnlyReads
  <2>2. PICK r \in PendingRead :
           /\ r.id = n.next_read_id /\ r.index = n.commit_index /\ r.acks = {i}
           /\ p.pending_reads \subseteq n.pending_reads \cup {r}
    BY <1>7 DEF Begins
  <2>3. Sound(r)
    <3>1. r.id < x.next_read_id
      BY <1>1, <2>1, <2>2
    <3>2. read_floor'[j][r.id + 1] = Len(committed)
      <4>1. p.next_read_id > n.next_read_id
        BY <1>1, <2>1
      <4>2. read_floor'[i][n.next_read_id + 1] = Len(committed)
        BY <4>1, FloorsStay
      <4> QED BY <1>7, <2>2, <4>2
    <3>3. Len(committed) <= n.commit_index \/ Hopeless(H, i, n.term, r)
      BY <1>1, <1>2, <1>7, <2>1, <2>2, NewRoundIsSound
    <3>4. Hopeless(H, i, n.term, r) => Hopeless(M, j, x.term, r)'
      <4>1. n.term \in Nat
        BY <1>1 DEF NodeState
      <4> SUFFICES ASSUME Hopeless(H, i, x.term, r) PROVE Hopeless(M, i, x.term, r)'
        BY <1>7, <2>1
      <4> QED BY <1>1, <2>1, <4>1, HopelessStays
    <3> QED BY <2>2, <3>1, <3>2, <3>3, <3>4
  <2>4. ASSUME NEW q \in p.pending_reads PROVE Sound(q)
    BY <1>3, <1>7, <2>1, <2>2, <2>3
  <2> QED BY <2>1, <2>4 DEF PendingIsSound
<1>8. ReadShape(i, e)
  BY DEF ReadMoves, Moves
<1> QED BY <1>4, <1>5, <1>6, <1>7, <1>8 DEF ReadShape, Echoes

LEMMA ReadsStay ==
    ASSUME NEW H \in History, NEW M, NEW i \in Node, NEW e, ReadMoves(H, M, i, e)
    PROVE  ReadInv(M)'
<1>1. ASSUME NEW j \in Node
      PROVE  (KnowsItsCommits(node[j]) /\ PendingIsSound(M, j, node[j]))'
  <2> SUFFICES ASSUME NEW x, x = node'[j]
               PROVE  KnowsItsCommits(x)' /\ PendingIsSound(M, j, x)'
    OBVIOUS
  <2> QED BY KnowledgeStays, PendingStays
<1> QED BY <1>1, NumbersStay DEF ReadInv

---------------------------------------------------------------------------
(* A read that is served is fresh. *)

\* Whoever is in S has acknowledged round p of server i in term t, as far as i
\* knows or in a message to it.
VouchedBy(S, i, t, p) ==
    \A v \in S : v \in p.acks \/
        \E m \in msgs : /\ m.type = "ReadAck" /\ m.src = v /\ m.dst = i
                        /\ m.read_id = p.id /\ m.term = t

\* A round that has no chance is not confirmed: the majority that would confirm
\* it, of whatever configuration its leader has by now, meets the one that refuses.
LEMMA HopelessIsUnserved ==
    ASSUME NEW H \in History, Inv(H), NEW i \in Node, node[i].role = "leader",
           NEW p, Hopeless(H, i, node[i].term, p), NEW S, IsMajority(S, node[i].voters),
           VouchedBy(S, i, node[i].term, p)
    PROVE  FALSE
<1> DEFINE t == node[i].term
<1>1. PICK u \in LedTerms : \E b \in 0..Len(H[u]) : \E Q \in SUBSET Node :
         Bars(H, i, t, p, u, b, Q)
  BY DEF Hopeless
<1>2. PICK b \in 0..Len(H[u]) : \E Q \in SUBSET Node : Bars(H, i, t, p, u, b, Q)
  BY <1>1
<1>3. PICK Q \in SUBSET Node : Bars(H, i, t, p, u, b, Q)
  BY <1>2
<1>4. /\ t < u /\ StoodWith(H[u], u, b)
      /\ \A k \in 1..b : H[u][k].term <= t
      /\ IsMajority(Q, VotersAt(H[u], b))
      /\ \A v \in Q : Refuses(i, t, p, v)
  BY <1>3 DEF Bars
<1> DEFINE A == H[t]
           C == H[u]
           a == Len(A)
<1>5. /\ TypeOK /\ LogInv(H) /\ AckInv(H) /\ ConfigsAreGuarded(H) /\ ConfigInv
      /\ LeadersLogs(H) /\ t \in LedTerms /\ A = node[i].log
  BY ServerFacts, LeaderFacts DEF Inv, AckInv, LogInv
<1>6. /\ t \in Nat /\ A \in Seq(Entry) /\ a \in Nat /\ Backed(H, A)
      /\ \A k \in 1..a : A[k].term <= t /\ A[k].term \in Int
  BY <1>5, LedFacts
<1>7. /\ u \in Nat /\ C \in Seq(Entry) /\ Len(C) \in Nat /\ Backed(H, C)
      /\ \A k \in 1..Len(C) : C[k].term \in Int
  BY <1>5, LedFacts
<1>8. IsMajority(S, VotersAt(A, a))
  <2>1. Governs(A, node[i].voters, node[i].config_index)
    BY <1>5 DEF ConfigInv
  <2>2. node[i].config_index \in Nat
    BY ServerFacts DEF NodeState
  <2> QED BY <1>6, <2>1, <2>2, GoverningVoters
<1>9. HoldsChosen(H, A, t) /\ HoldsChosen(H, C, u)
  BY <1>5, LeadersHold
<1> HIDE DEF t, A, C, a
<1>10. Anchored(A, a, C, b)
  <2>1. ASSUME NEW c \in 1..a, NEW j \in 1..(c - 1), NEW m \in j..(c - 1),
               ChosenBy(H, A[c].term, j, m)
        PROVE  j <= b /\ Holds(C, A[c].term, j)
    <3> DEFINE w == A[c].term
    <3>1. w \in LedTerms /\ SameUpTo(A, H[w], c) /\ w < u /\ w \in Int
      BY <1>4, <1>6, <1>7 DEF Backed, a
    <3>2. m \in Nat /\ j \in Nat /\ j <= m /\ m <= Len(H[w])
      BY <1>5, <1>6, <3>1, LedLog DEF SameUpTo
    <3>3. Chosen(H, w, j)
      BY <1>5, <2>1, <3>1, <3>2, ChosenByIsChosen
    <3>4. Holds(C, w, j)
      BY <1>9, <3>1, <3>3 DEF HoldsChosen
    <3>5. j <= b
      BY <1>4, <3>1, <3>4 DEF Holds, StoodWith, C
    <3> QED BY <3>4, <3>5
  <2>2. a \in 0..Len(A) /\ b \in 0..Len(C)
    BY <1>6, <1>7 DEF a, C
  <2> QED BY <1>5, <1>6, <1>7, <2>1, <2>2, GuardsAnchor
<1>11. Anchored(C, b, A, a)
  <2>1. ASSUME NEW c \in 1..b, NEW j \in 1..(c - 1), NEW m \in j..(c - 1),
               ChosenBy(H, C[c].term, j, m)
        PROVE  j <= a /\ Holds(A, C[c].term, j)
    <3> DEFINE w == C[c].term
    <3>0. c \in 1..Len(C)
      BY <1>4, <1>7 DEF C
    <3>1. w \in LedTerms /\ SameUpTo(C, H[w], c) /\ w <= t /\ w \in Int
      BY <1>4, <1>7, <3>0 DEF Backed, C
    <3>2. m \in Nat /\ j \in Nat /\ j <= m /\ m <= Len(H[w])
      BY <1>5, <3>0, <3>1, LedLog DEF SameUpTo
    <3>3. Chosen(H, w, j)
      BY <1>5, <2>1, <3>1, <3>2, ChosenByIsChosen
    <3>4. Holds(A, w, j)
      <4>1. CASE w < t
        BY <1>9, <3>1, <3>3, <4>1 DEF HoldsChosen
      <4>2. CASE w = t
        BY <2>1, <4>2 DEF ChosenBy, A
      <4> QED BY <1>6, <3>1, <4>1, <4>2
    <3> QED BY <3>4 DEF Holds, a
  <2>2. a \in 0..Len(A) /\ b \in 0..Len(C)
    BY <1>6, <1>7 DEF a, C
  <2> QED BY <1>5, <1>6, <1>7, <2>1, <2>2, GuardsAnchor
<1>12. PICK v \in S \cap Q : v \in Node
  BY <1>4, <1>5, <1>6, <1>7, <1>8, <1>10, <1>11, AnchoredMeet DEF a, C
<1> QED BY <1>4, <1>12 DEF Refuses, VouchedBy, t

LEMMA ServedIsFresh ==
    ASSUME NEW H \in History, NEW M, NEW i \in Node, NEW e, ReadMoves(H, M, i, e),
           NEW j \in Node, NEW id \in Served(j)
    PROVE  last_applied(node'[j]) >= read_floor'[j][id + 1]
<1> DEFINE n == node[i]
           p == e.node
<1>1. /\ Inv(H) /\ Moves(H, M, i, e) /\ n \in NodeState /\ p \in NodeState
      /\ node'[i] = p /\ \A k \in Node : k # i => node'[k] = node[k]
      /\ n.next_read_id \in Nat
  BY ReadFacts
<1>2. /\ node'[j].role = "leader" /\ node'[j].term = node[j].term
      /\ id \in Nat /\ id < node'[j].next_read_id
      /\ id \in Reading(node[j]) \/ id >= node[j].next_read_id
      /\ id \notin Reading(node'[j])
  <2>1. node'[j] \in NodeState
    BY <1>1, MoveFacts DEF TypeOK
  <2> QED BY <2>1 DEF Served, NodeState
<1>3. CASE j # i \/ Ignores(n, p)
  <2>1. node[j] \in NodeState /\ node[j].next_read_id \in Nat
    BY <1>1, ServerFacts DEF NodeState
  <2>2. /\ node'[j].next_read_id = node[j].next_read_id
        /\ Reading(node[j]) \subseteq Reading(node'[j])
    <3>1. CASE j # i
      BY <1>1, <3>1
    <3>2. CASE j = i /\ Ignores(n, p)
      <4>1. n.role # "leader" => n.pending_reads = {}
        BY <1>1 DEF Inv, CommitInv, OwnCommits
      <4> QED BY <1>1, <1>2, <3>2, <4>1 DEF Ignores, Reading
    <3> QED BY <1>3, <3>1, <3>2
  <2> QED BY <1>2, <2>1, <2>2
<1>4. ASSUME j = i, NEW m \in msgs, m.type = "ReadAck", m.dst = i, Confirms(n, m, e)
      PROVE  last_applied(node'[j]) >= read_floor'[j][id + 1]
  <2>1. PICK r \in n.pending_reads :
           /\ r.id = m.read_id
           /\ LET asked == (n.pending_reads \ {r}) \cup {AckedBy(r, m)}
              IN  \/ p.pending_reads = asked
                  \/ p.pending_reads = asked \ {AckedBy(r, m)} /\ MayServe(n, AckedBy(r, m))
    BY <1>4 DEF Confirms
  <2>2. r \in PendingRead
    BY <1>1 DEF NodeState
  <2>3. /\ AckedBy(r, m).id = r.id /\ AckedBy(r, m).index = r.index
        /\ AckedBy(r, m).acks = r.acks \cup {m.src}
    BY <2>2 DEF AckedBy, PendingRead
  <2>4. id \in Reading(n)
    BY <1>1, <1>2, <1>4 DEF Confirms
  <2>5. id = r.id /\ MayServe(n, AckedBy(r, m))
    BY <1>1, <1>2, <1>4, <2>1, <2>3, <2>4 DEF Reading
  <2>6. p.machine = n.machine /\ m.term = n.term /\ n.role = "leader"
    BY <1>1, <1>2, <1>4 DEF Confirms, OnlyReads
  <2>7. ~Hopeless(H, i, n.term, r)
    <3>1. PICK S : S = r.acks \cup {m.src}
      OBVIOUS
    <3>2. IsMajority(S, n.voters)
      BY <2>3, <2>5, <3>1 DEF MayServe
    <3>3. VouchedBy(S, i, n.term, r)
      BY <1>4, <2>1, <2>6, <3>1 DEF VouchedBy
    <3>4. Inv(H)
      BY <1>1
    <3> QED BY <2>6, <3>2, <3>3, <3>4, HopelessIsUnserved
  <2>8. read_floor[i][id + 1] <= r.index /\ id < n.next_read_id
    BY <2>5, <2>7 DEF ReadMoves, ReadInv, PendingIsSound
  <2>9. read_floor'[i][id + 1] = read_floor[i][id + 1] /\ read_floor[i][id + 1] \in Nat
    <3>1. /\ Len(read_floor[i]) = n.next_read_id
          /\ \A k \in 1..Len(read_floor[i]) : read_floor'[i][k] = read_floor[i][k]
      BY FloorsStay DEF ReadMoves, ReadInv, RoundsAreNumbered
    <3>2. read_floor[i] \in Seq(Nat)
      BY <1>1, MoveFacts DEF TypeOK
    <3>3. id + 1 \in 1..Len(read_floor[i])
      BY <1>1, <1>2, <2>8, <3>1
    <3> QED BY <3>1, <3>2, <3>3
  <2>10. Len(n.machine) >= r.index /\ r.index \in Nat /\ Len(n.machine) \in Nat
    BY <1>1, <2>2, <2>3, <2>5 DEF MayServe, PendingRead, NodeState
  <2> QED BY <1>1, <1>4, <2>6, <2>8, <2>9, <2>10 DEF last_applied
<1>5. ASSUME j = i, n.committed_this_term, Begins(i, n, e)
      PROVE  last_applied(node'[j]) >= read_floor'[j][id + 1]
  <2>1. PICK r \in PendingRead :
           /\ r.id = n.next_read_id /\ r.index = n.commit_index /\ r.acks = {i}
           /\ \/ p.pending_reads = n.pending_reads \cup {r}
              \/ p.pending_reads = (n.pending_reads \cup {r}) \ {r} /\ MayServe(n, r)
    BY <1>5 DEF Begins
  <2>2. p.machine = n.machine /\ n.role = "leader" /\ p.next_read_id = n.next_read_id + 1
    BY <1>5 DEF Begins, OnlyReads
  <2>3. \A q \in n.pending_reads : q.id < n.next_read_id
    BY DEF ReadMoves, ReadInv, PendingIsSound
  <2>4. r.id = id /\ MayServe(n, r)
    <3>1. CASE id \in Reading(n)
      BY <1>1, <1>2, <1>5, <2>1, <3>1 DEF Reading
    <3>2. CASE id >= n.next_read_id
      <4>1. id = n.next_read_id
        BY <1>1, <1>2, <1>5, <2>2, <3>2
      <4> QED BY <1>1, <1>2, <1>5, <2>1, <4>1 DEF Reading
    <3> QED BY <1>2, <1>5, <3>1, <3>2
  <2>5. read_floor'[i][id + 1] = Len(committed)
    <3>1. p.next_read_id > n.next_read_id
      BY <1>1, <2>2
    <3>2. read_floor'[i][n.next_read_id + 1] = Len(committed)
      BY <3>1, FloorsStay
    <3> QED BY <2>1, <2>4, <3>2
  <2>6. ~Hopeless(H, i, n.term, r)
    <3>1. IsMajority(r.acks, n.voters)
      BY <2>4 DEF MayServe
    <3>2. VouchedBy(r.acks, i, n.term, r)
      BY DEF VouchedBy
    <3> QED BY <1>1, <2>2, <3>1, <3>2, HopelessIsUnserved
  <2>7. Len(committed) <= n.commit_index
    BY <1>1, <1>5, <2>1, <2>2, <2>6, NewRoundIsSound DEF ReadMoves
  <2>8. Len(n.machine) >= r.index
    BY <2>4 DEF MayServe
  <2>9. Len(committed) \in Nat /\ n.commit_index \in Nat /\ Len(n.machine) \in Nat
    <3>1. Len(committed) \in Nat /\ n.commit_index \in Nat
      BY <1>1, ServerFacts
    <3>2. n.machine \in Seq(Entry)
      BY <1>1 DEF NodeState
    <3> QED BY <3>1, <3>2
  <2> QED BY <1>1, <1>5, <2>1, <2>2, <2>5, <2>7, <2>8, <2>9 DEF last_applied
<1>6. ReadShape(i, e)
  BY DEF ReadMoves, Moves
<1> QED BY <1>3, <1>4, <1>5, <1>6 DEF ReadShape, Echoes

---------------------------------------------------------------------------
LEMMA ReadsBegin == Init => \A H : ReadInv(H)
<1> SUFFICES ASSUME Init, NEW H PROVE ReadInv(H)
  OBVIOUS
<1>1. /\ \A i \in Node : node[i] = InitNode /\ read_floor[i] = <<>>
      /\ msgs = {} /\ committed = <<>>
  BY DEF Init
<1>2. /\ InitNode.role = "follower" /\ InitNode.pending_reads = {}
      /\ InitNode.next_read_id = 0
  BY DEF InitNode
<1> QED BY <1>1, <1>2
        DEF ReadInv, RoundsAreNumbered, KnowsItsCommits, PendingIsSound

LEMMA ReadsStutter ==
    ASSUME NEW H \in History, ReadInv(H), UNCHANGED vars
    PROVE  ReadInv(H)'
<1>1. /\ node' = node /\ msgs' = msgs /\ leaders' = leaders /\ committed' = committed
      /\ read_floor' = read_floor
  BY DEF vars
<1>2. LedTerms' = LedTerms
  BY <1>1 DEF LedTerms
<1>3. RoundsAreNumbered'
  BY <1>1 DEF ReadInv, RoundsAreNumbered
<1>4. ASSUME NEW i \in Node PROVE KnowsItsCommits(node[i])'
  BY <1>1, <1>2 DEF ReadInv, KnowsItsCommits, Deposed
<1>5. ASSUME NEW i \in Node, NEW t, NEW p, Hopeless(H, i, t, p) PROVE Hopeless(H, i, t, p)'
  <2>1. \A v : Refuses(i, t, p, v) => Refuses(i, t, p, v)'
    BY <1>1 DEF Refuses
  <2>2. \A u, b, Q : Bars(H, i, t, p, u, b, Q) => Bars(H, i, t, p, u, b, Q)'
    BY <2>1 DEF Bars
  <2> QED BY <1>2, <1>5, <2>2 DEF Hopeless
<1>6. ASSUME NEW i \in Node PROVE PendingIsSound(H, i, node[i])'
  BY <1>1, <1>5 DEF ReadInv, PendingIsSound
<1> QED BY <1>3, <1>4, <1>6 DEF ReadInv

ReadsExplained == \E H \in History : Inv(H) /\ ReadInv(H)

LEMMA ReadsExplainedStays ==
    ASSUME SnapshotThreshold = 0, ReadsExplained, [Next]_vars
    PROVE  ReadsExplained'
<1>1. PICK H \in History : Inv(H) /\ ReadInv(H)
  BY DEF ReadsExplained
<1>2. CASE Next
  <2>1. PICK i \in Node : \E e : Moves(H, After(H, e.node), i, e)
    BY <1>1, <1>2, EveryMove
  <2>2. PICK e : Moves(H, After(H, e.node), i, e)
    BY <2>1
  <2>3. PICK M : M = After(H, e.node)
    OBVIOUS
  <2>4. Moves(H, M, i, e)
    BY <2>2, <2>3
  <2>5. M \in History /\ Inv(M)'
    BY <2>4, InvStays
  <2>6. ReadInv(M)'
    BY <1>1, <2>4, ReadsStay DEF ReadMoves
  <2> QED BY <2>5, <2>6 DEF ReadsExplained
<1>3. CASE UNCHANGED vars
  <2>1. Inv(H)' /\ ReadInv(H)'
    BY <1>1, <1>3, InvStutters, ReadsStutter
  <2> QED BY <2>1 DEF ReadsExplained
<1> QED BY <1>2, <1>3

LEMMA EveryServedIsFresh ==
    ASSUME SnapshotThreshold = 0, ReadsExplained, Next,
           NEW j \in Node, NEW id \in Served(j)
    PROVE  last_applied(node'[j]) >= read_floor'[j][id + 1]
<1>1. PICK H \in History : Inv(H) /\ ReadInv(H)
  BY DEF ReadsExplained
<1>2. PICK i \in Node : \E e : Moves(H, After(H, e.node), i, e)
  BY <1>1, EveryMove
<1>3. PICK e : Moves(H, After(H, e.node), i, e)
  BY <1>2
<1>4. PICK M : M = After(H, e.node)
  OBVIOUS
<1>5. ReadMoves(H, M, i, e)
  BY <1>1, <1>3, <1>4 DEF ReadMoves
<1> QED BY <1>5, ServedIsFresh

(***************************************************************************)
(* A ReadIndex read is answered from a state that has every entry that was *)
(* committed anywhere when the read began, so that no deposed leader       *)
(* answers with old data (RaftNode.request_read, _on_read_ack and          *)
(* _try_serve_read).                                                       *)
(***************************************************************************)
THEOREM ReadsAreAlwaysFresh ==
    ASSUME SnapshotThreshold = 0
    PROVE  Spec => ReadsAreFresh
<1> DEFINE Fresh == \A i \in Node : \A id \in Served(i) :
                        last_applied(node'[i]) >= read_floor'[i][id + 1]
<1>1. Init => ReadsExplained
  BY InvBegins, ReadsBegin DEF ReadsExplained
<1>2. ReadsExplained /\ [Next]_vars => ReadsExplained'
  BY ReadsExplainedStays
<1>3. ReadsExplained /\ [Next]_vars => [Fresh]_vars
  BY EveryServedIsFresh
<1> QED BY <1>1, <1>2, <1>3, PTL DEF Spec, ReadsAreFresh

---------------------------------------------------------------------------
(* The history that RaftHistory records explains the state. *)

\* What the invariant says of a history, it says of the logs of the terms led.
LEMMA InvReadsLed ==
    ASSUME NEW H, NEW G, Inv(H), \A t \in LedTerms : G[t] = H[t]
    PROVE  Inv(G)
<1>1. \A log : Backed(H, log) => Backed(G, log)
  BY DEF Backed
<1>2. LogInv(G)
  <2>1. LeadersLogs(G)
    BY <1>1 DEF Inv, LogInv, LeadersLogs
  <2>2. ASSUME NEW i \in Node PROVE ServerLog(G, i, node[i])
    <3>1. ServerLog(H, i, node[i])
      BY DEF Inv, LogInv
    <3>2. node[i].role = "leader" => node[i].term \in LedTerms
      <4>1. node[i].role = "leader" => <<node[i].term, i>> \in leaders
        BY DEF Inv, VoteInv
      <4> QED BY <4>1 DEF LedTerms
    <3> QED BY <1>1, <3>1, <3>2 DEF ServerLog
  <2>3. ASSUME NEW m \in msgs PROVE MessageIsTrue(G, m)
    <3>1. MessageIsTrue(H, m)
      BY DEF Inv, LogInv
    <3>2. IsAck(m) => TrueAck(G, m)
      BY <3>1 DEF MessageIsTrue, TrueAck
    <3>3. m.type = "AppendEntries" => <<m.term, m.src>> \in leaders /\ StretchOf(G[m.term], m)
      <4>1. <<m.term, m.src>> \in leaders => m.term \in LedTerms
        BY DEF LedTerms
      <4> QED BY <3>1, <4>1 DEF MessageIsTrue
    <3> QED BY <3>1, <3>2, <3>3 DEF MessageIsTrue
  <2> QED BY <2>1, <2>2, <2>3 DEF LogInv
<1>3. ASSUME NEW v, NEW t \in LedTerms, NEW k
      PROVE  Acked(G, v, t, k) <=> Acked(H, v, t, k)
  BY DEF Acked
<1>4. \A t, k, u : Overtaken(G, t, k, u) <=> Overtaken(H, t, k, u)
  BY DEF Overtaken
<1>5. \A t \in LedTerms : \A k, m : ChosenBy(H, t, k, m) => ChosenBy(G, t, k, m)
  BY <1>3 DEF ChosenBy
<1>6. AckInv(G)
  <2>1. AcksAreKept(G)
    BY <1>3, <1>4 DEF Inv, AckInv, AcksAreKept
  <2>2. \A log, v, u, w : Carries(H, log, v, u, w) => Carries(G, log, v, u, w)
    BY <1>3, <1>4 DEF Carries
  <2>3. CandidatesCarry(G)
    BY <2>2 DEF Inv, AckInv, CandidatesCarry
  <2>4. ASSUME NEW x \in leaders, NEW b, NEW Q, WonWith(H, x, b, Q)
        PROVE  G[x[1]] = H[x[1]] /\ WonWith(G, x, b, Q)
    <3>1. G[x[1]] = H[x[1]]
      BY DEF LedTerms
    <3> QED BY <2>2, <2>4, <3>1 DEF WonWith
  <2>5. LeadersCarry(G)
    <3>1. \A x \in leaders : G[x[1]] = H[x[1]]
      BY DEF LedTerms
    <3> QED BY <2>4, <3>1 DEF Inv, AckInv, LeadersCarry
  <2>6. \A t \in LedTerms : \A c : Guarded(H, t, c) => Guarded(G, t, c)
    BY <1>5 DEF Guarded
  <2>7. ConfigsAreGuarded(G)
    BY <2>6 DEF Inv, AckInv, ConfigsAreGuarded
  <2> QED BY <2>1, <2>3, <2>5, <2>7 DEF AckInv
<1>7. CommitInv(G)
  <2>1. \A s \in LedTerms : \A j : Chosen(H, s, j) => Chosen(G, s, j)
    BY <1>5 DEF Chosen
  <2>2. \A t, c : Settles(H, t, c) => Settles(G, t, c)
    BY <2>1 DEF Settles
  <2>3. CommittedIsSettled(G)
    BY <2>2 DEF Inv, CommitInv, CommittedIsSettled
  <2>4. \A i \in Node : AppliedIsCommitted(G, node[i])
    BY <2>2 DEF Inv, CommitInv, AppliedIsCommitted
  <2> QED BY <2>2, <2>3, <2>4 DEF Inv, CommitInv
<1>8. RequestInv(G)
  BY DEF Inv, RequestInv
<1> QED BY <1>2, <1>6, <1>7, <1>8 DEF Inv

LEMMA ReadsReadLed ==
    ASSUME NEW H, NEW G, ReadInv(H), \A t \in LedTerms : G[t] = H[t]
    PROVE  ReadInv(G)
<1>1. \A i, t, p : Hopeless(H, i, t, p) => Hopeless(G, i, t, p)
  BY DEF Hopeless, Bars
<1> QED BY <1>1 DEF ReadInv, PendingIsSound

\* The record agrees with a history that explains the state.
Recorded ==
    /\ TimerInv
    /\ \E H \in History : /\ Inv(H) /\ ReadInv(H)
                          /\ \A t \in LedTerms : term_log[t] = H[t]

LEMMA RecordedStays ==
    ASSUME SnapshotThreshold = 0, Recorded, [HistoryNext]_<<vars, term_log>>
    PROVE  Recorded'
<1>1. PICK H \in History : /\ Inv(H) /\ ReadInv(H)
                           /\ \A t \in LedTerms : term_log[t] = H[t]
  BY DEF Recorded
<1>2. CASE HistoryNext
  <2>1. PICK i \in Node : \E e : Moves(H, After(H, e.node), i, e) /\ Performs(i, e)
    BY <1>1, <1>2, EveryMove DEF HistoryNext
  <2>2. PICK e : Moves(H, After(H, e.node), i, e) /\ Performs(i, e)
    BY <2>1
  <2>3. PICK M : M = After(H, e.node)
    OBVIOUS
  <2>4. Moves(H, M, i, e)
    BY <2>2, <2>3
  <2>5. M \in History /\ Inv(M)' /\ ReadInv(M)'
    BY <1>1, <2>4, InvStays, ReadsStay DEF ReadMoves
  <2>6. TimerInv'
    <3>1. VoteInv /\ ElectionSafety /\ TimerInv /\ GoodEffect(e) /\ Step(i, e)
      BY <1>1, <2>4, LeadersAreAlone DEF Moves, Inv, ElectionStep, Recorded
    <3>2. StaysAwake(i, e) \/ e = Silent(pause(node[i]))
      BY <2>2, <3>1, PerformsAwake
    <3> QED BY <3>1, <3>2, TimersStay
  <2>7. /\ node'[i] = e.node
        /\ \A x \in leaders' : x \in leaders \/ (x = <<e.node.term, i>> /\ e.node.role = "leader")
    BY ONLY <1>1, <2>4, MoveFacts
  <2>8. ASSUME NEW t \in LedTerms' PROVE term_log'[t] = M[t]
    <3>1. term_log'[t] = IF \E j \in Node : LeadsTerm(node'[j], t)
                         THEN node'[CHOOSE j \in Node : LeadsTerm(node'[j], t)].log
                         ELSE term_log[t]
      BY <1>2 DEF HistoryNext, Remember
    <3>2. CASE \E j \in Node : LeadsTerm(node'[j], t)
      <4>1. PICK j \in Node : j = (CHOOSE k \in Node : LeadsTerm(node'[k], t)) /\ LeadsTerm(node'[j], t)
        BY <3>2
      <4>2. ServerLog(M, j, node[j])'
        BY <2>5 DEF Inv, LogInv
      <4>3. node'[j].log = M[t]
        BY <4>1, <4>2 DEF ServerLog, LeadsTerm
      <4> QED BY <3>1, <3>2, <4>1, <4>3
    <3>3. CASE ~ \E j \in Node : LeadsTerm(node'[j], t)
      <4>1. ~(e.node.role = "leader" /\ t = e.node.term)
        BY <2>7, <3>3 DEF LeadsTerm
      <4>2. t \in LedTerms
        <5>1. PICK x \in leaders' : t = x[1]
          BY DEF LedTerms
        <5>2. x \in leaders
          BY <2>7, <4>1, <5>1
        <5> QED BY <5>1, <5>2 DEF LedTerms
      <4>3. M[t] = H[t]
        BY <2>3, <4>1 DEF After
      <4> QED BY <1>1, <3>1, <3>3, <4>2, <4>3
    <3> QED BY <3>2, <3>3
  <2> QED BY <2>5, <2>6, <2>8 DEF Recorded
<1>3. CASE UNCHANGED <<vars, term_log>>
  <2>1. UNCHANGED vars /\ term_log' = term_log
    BY <1>3
  <2>2. leaders' = leaders /\ node' = node /\ msgs' = msgs
    BY <2>1 DEF vars
  <2>3. Inv(H)' /\ ReadInv(H)'
    BY <1>1, <2>1, InvStutters, ReadsStutter
  <2>4. TimerInv'
    BY <2>2 DEF Recorded, TimerInv, Waits, CallsOthers
  <2>5. LedTerms' = LedTerms
    BY <2>2 DEF LedTerms
  <2> QED BY <1>1, <2>1, <2>3, <2>4, <2>5 DEF Recorded
<1> QED BY <1>2, <1>3

LEMMA RecordExplains == Recorded => Inv(term_log) /\ ReadInv(term_log) /\ TimerInv
BY InvReadsLed, ReadsReadLed DEF Recorded

LEMMA AlwaysRecorded ==
    ASSUME SnapshotThreshold = 0
    PROVE  HistorySpec => []Recorded
<1>1. HistoryInit => Recorded
  <2> SUFFICES ASSUME HistoryInit PROVE Recorded
    OBVIOUS
  <2>1. PICK H \in History : Inv(H) /\ ReadInv(H)
    BY InvBegins, ReadsBegin DEF HistoryInit
  <2>2. LedTerms = {}
    BY DEF HistoryInit, Init, LedTerms
  <2>3. TimerInv
    BY TimersBegin DEF HistoryInit
  <2> QED BY <2>1, <2>2, <2>3 DEF Recorded
<1>2. Recorded /\ [HistoryNext]_<<vars, term_log>> => Recorded'
  BY RecordedStays
<1> QED BY <1>1, <1>2, PTL DEF HistorySpec

(***************************************************************************)
(* Every role is earned and every vote binds: whoever leads has a majority *)
(* pledged to it, and waits for what its role makes it wait for            *)
(* (RaftNode.start_election, _on_request_vote, _on_vote_reply).            *)
(***************************************************************************)
THEOREM RolesAreAlwaysEarned ==
    ASSUME SnapshotThreshold = 0
    PROVE  HistorySpec => []RolesAreEarned
<1>1. Recorded => RolesAreEarned
  BY RecordExplains DEF Inv, RolesAreEarned
<1> QED BY <1>1, AlwaysRecorded, PTL

(***************************************************************************)
(* Every log, every AppendEntries and every vote request is made of what   *)
(* the leaders were recorded to append, each on top of its own log, and no *)
(* log has a request twice (_on_append_entries, client_command).           *)
(***************************************************************************)
THEOREM LogsAreAlwaysLeaders ==
    ASSUME SnapshotThreshold = 0
    PROVE  HistorySpec => []LogsAreLeaders
<1>1. Recorded => LogsAreLeaders
  BY RecordExplains DEF Inv, LogsAreLeaders
<1> QED BY <1>1, AlwaysRecorded, PTL

(***************************************************************************)
(* An acknowledgement binds its sender until a later leader overrules it,  *)
(* and no leader lacks what a majority had acknowledged, unless an earlier *)
(* one did (_on_append_reply, _on_request_vote).                           *)
(***************************************************************************)
THEOREM AcksAlwaysBind ==
    ASSUME SnapshotThreshold = 0
    PROVE  HistorySpec => []AcksBindLeaders
<1>1. Recorded => AcksBindLeaders
  BY RecordExplains DEF Inv, AcksBindLeaders
<1> QED BY <1>1, AlwaysRecorded, PTL

(***************************************************************************)
(* Whatever is committed, applied or announced as committed is on a        *)
(* majority in the recorded log of the leader that committed it            *)
(* (_advance_commit, _on_append_entries).                                  *)
(***************************************************************************)
THEOREM CommitsAreAlwaysSettled ==
    ASSUME SnapshotThreshold = 0
    PROVE  HistorySpec => []CommitsAreSettled
<1>1. Recorded => CommitsAreSettled
  BY RecordExplains DEF Inv, CommitsAreSettled
<1> QED BY <1>1, AlwaysRecorded, PTL

(***************************************************************************)
(* Whatever read a leader has under way waits for all that was committed   *)
(* when it began, or can never be confirmed, because a majority of the     *)
(* configuration that elected a later leader refuses (request_read,        *)
(* _become_follower, _on_read_ack).                                        *)
(***************************************************************************)
THEOREM ReadsAreAlwaysSound ==
    ASSUME SnapshotThreshold = 0
    PROVE  HistorySpec => []ReadsAreSound
<1>1. Recorded => ReadsAreSound
  BY RecordExplains DEF ReadsAreSound
<1> QED BY <1>1, AlwaysRecorded, PTL
=============================================================================
