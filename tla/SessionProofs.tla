--------------------------- MODULE SessionProofs ---------------------------
(***************************************************************************)
(* Theorems about ClientSessions: the servers agree with the log, and the  *)
(* clients see a single store that executes each request exactly once,     *)
(* however often it is committed, for any number of servers and clients    *)
(* and whatever they ask for.                                              *)
(***************************************************************************)
EXTENDS ClientSessions, FiniteNats

---------------------------------------------------------------------------
(* The invariant. *)

\* The requests that clients may make, and what a log may hold.
Submitted == {Command(q[1], q[2], o) : q \in Requests, o \in Operations}
Commands == Submitted \cup {Noop}

\* The state machine after the first k commands of a log.
State(l, k) == Machines(KVStateMachine, l)[k]

TypesInv ==
    /\ _read_index \in BOOLEAN
    /\ log \in Seq(Commands)
    /\ applied \in 0..Len(log)
    /\ kv = [i \in Server |-> kv[i]]
    /\ last_applied \in [Server -> 0..applied]
    /\ snapshot = [i \in Server |-> snapshot[i]]
    /\ \A i \in Server : snapshot[i].last_index \in 0..applied
    /\ _outstanding \in [Client -> Submitted \cup {None}]
    /\ _next_req \in [Client -> Nat]
    /\ observed = [c \in Client |-> observed[c]]
    /\ asked_at \in [Client -> 0..applied]

\* A client waits for one request, the last that it made.
WaitsInv ==
    \A c \in Client : _outstanding[c] # None =>
        _outstanding[c].client = c /\ _outstanding[c].req = _next_req[c]

(***************************************************************************)
(* A request in the log is under way, or some server has applied it, so    *)
(* that another copy would be recognized; what is under way nobody has     *)
(* applied yet.  What is read with ReadIndex is not in the log.            *)
(***************************************************************************)
OnceInv ==
    /\ \A k \in 1..Len(log) : is_structured(log[k]) =>
          LET c == log[k].client
          IN  /\ ~ViaReadIndex(log[k])
              /\ \/ _outstanding[c] = log[k]
                 \/ /\ log[k].req < _next_req[c]
                    /\ log[k].req <= State(log, applied).sessions[c].req
    /\ \A c \in Client : State(log, applied).sessions[c].req < _next_req[c]

SessionsInv == TypesInv /\ WaitsInv /\ OnceInv /\ ReplicasAgree

---------------------------------------------------------------------------
(* State machines. *)

\* The states that l leads to, one command after the other, from start on.
IsRun(m, start, l, K) ==
    /\ m[0] = start
    /\ \A k \in 1..K : m[k] = apply(m[k - 1], l[k]).kv

LEMMA RunsAgree ==
    ASSUME NEW start, NEW l, NEW K \in Nat, NEW m, NEW n,
           IsRun(m, start, l, K), IsRun(n, start, l, K)
    PROVE  \A k \in 0..K : m[k] = n[k]
<1> DEFINE S == {k \in 0..K : m[k] = n[k]}
<1>1. 0 \in S
  BY DEF IsRun
<1>2. \A k \in 0..K : k < K /\ k \in S => k + 1 \in S
  <2> SUFFICES ASSUME NEW k \in 0..K, k < K, k \in S PROVE k + 1 \in S
    OBVIOUS
  <2>1. k + 1 \in 1..K /\ (k + 1) - 1 = k /\ k + 1 \in 0..K
    OBVIOUS
  <2>2. m[k + 1] = apply(m[k], l[k + 1]).kv
    BY <2>1 DEF IsRun
  <2>3. n[k + 1] = apply(n[k], l[k + 1]).kv
    BY <2>1 DEF IsRun
  <2> QED BY <2>1, <2>2, <2>3
<1> HIDE DEF S
<1>3. 0..K \subseteq S
  BY <1>1, <1>2, IntervalInduction
<1> QED BY <1>3 DEF S

\* What Machines chooses.
IsMachine(m, start, l, K) ==
    m = [k \in 0..K |-> IF k = 0 THEN start ELSE apply(m[k - 1], l[k]).kv]

LEMMA MachinesExist ==
    ASSUME NEW start, NEW l, NEW K \in Nat
    PROVE  \E m : IsMachine(m, start, l, K)
<1> DEFINE Turn(m, k) == IF k = 0 THEN start ELSE apply(m[k - 1], l[k]).kv
           Runs(L, m) == m = [k \in 0..L |-> Turn(m, k)]
           Runnable == {L \in 0..K : \E m : Runs(L, m)}
<1>1. 0 \in Runnable
  <2>1. Runs(0, [k \in 0..0 |-> start])
    OBVIOUS
  <2> HIDE DEF Runs
  <2> QED BY <2>1
<1>2. \A L \in 0..K : L < K /\ L \in Runnable => L + 1 \in Runnable
  <2> SUFFICES ASSUME NEW L \in 0..K, L < K, L \in Runnable PROVE L + 1 \in Runnable
    OBVIOUS
  <2>1. PICK m : Runs(L, m)
    OBVIOUS
  <2> DEFINE h == [k \in 0..(L + 1) |-> IF k = L + 1 THEN apply(m[L], l[k]).kv ELSE m[k]]
  <2>2. /\ \A k \in 0..L : h[k] = m[k] /\ h[k] = Turn(m, k)
        /\ h[L + 1] = apply(m[L], l[L + 1]).kv
        /\ h = [k \in 0..(L + 1) |-> h[k]]
    BY <2>1
  <2> HIDE DEF h
  <2>3. \A k \in 0..(L + 1) : h[k] = Turn(h, k)
    <3> TAKE k \in 0..(L + 1)
    <3>1. CASE k = L + 1
      <4>1. L \in 0..L /\ k # 0 /\ k - 1 = L
        BY <3>1
      <4>2. h[L] = m[L]
        <5> HIDE DEF Turn
        <5> QED BY <2>2, <4>1
      <4> QED BY <2>2, <3>1, <4>1, <4>2
    <3>2. CASE k # L + 1 /\ k # 0
      <4>1. k \in 0..L /\ k - 1 \in 0..L
        BY <3>2
      <4>2. h[k] = Turn(m, k) /\ h[k - 1] = m[k - 1]
        <5> HIDE DEF Turn
        <5> QED BY <2>2, <4>1
      <4> QED BY <3>2, <4>2
    <3>3. CASE k = 0
      <4>1. 0 \in 0..L
        OBVIOUS
      <4>2. h[0] = Turn(m, 0)
        <5> HIDE DEF Turn
        <5> QED BY <2>2, <4>1
      <4> QED BY <3>3, <4>2
    <3> QED BY <3>1, <3>2, <3>3
  <2> HIDE DEF Turn
  <2>4. Runs(L + 1, h)
    BY <2>2, <2>3
  <2>5. L + 1 \in 0..K
    OBVIOUS
  <2> HIDE DEF Runs
  <2> QED BY <2>4, <2>5
<1> HIDE DEF Runnable
<1>3. K \in Runnable
  <2>1. 0..K \subseteq Runnable
    BY <1>1, <1>2, IntervalInduction
  <2> QED BY <2>1
<1> QED BY <1>3 DEF Runnable, IsMachine

LEMMA MachinesRun ==
    ASSUME NEW start, NEW l, Len(l) \in Nat
    PROVE  IsRun(Machines(start, l), start, l, Len(l))
<1> DEFINE f == Machines(start, l)
<1>1. f = [k \in 0..Len(l) |-> IF k = 0 THEN start ELSE apply(f[k - 1], l[k]).kv]
  <2>1. \E m : IsMachine(m, start, l, Len(l))
    BY MachinesExist
  <2> QED BY <2>1 DEF Machines, IsMachine
<1> HIDE DEF f
<1>2. IsRun(f, start, l, Len(l))
  <2>1. f[0] = start
    BY <1>1
  <2>2. \A k \in 1..Len(l) : f[k] = apply(f[k - 1], l[k]).kv
    <3> TAKE k \in 1..Len(l)
    <3>1. k \in 0..Len(l) /\ k # 0
      OBVIOUS
    <3> QED BY <1>1, <3>1
  <2> QED BY <2>1, <2>2 DEF IsRun
<1> QED BY <1>2 DEF f

\* A log and one that has grown from it lead through the same states.
Grown(l, new) ==
    /\ Len(l) \in Nat /\ Len(new) \in Nat /\ Len(l) <= Len(new)
    /\ \A k \in 1..Len(l) : new[k] = l[k]

LEMMA StatesStay ==
    ASSUME NEW l, NEW new, Grown(l, new)
    PROVE  \A k \in 0..Len(l) : State(new, k) = State(l, k)
<1> DEFINE f == Machines(KVStateMachine, l)
           g == Machines(KVStateMachine, new)
           K == Len(l)
<1>1. K \in Nat /\ Len(new) \in Nat /\ K <= Len(new) /\ \A k \in 1..K : new[k] = l[k]
  BY DEF Grown
<1>2. IsRun(f, KVStateMachine, l, K)
  BY <1>1, MachinesRun
<1>3. IsRun(g, KVStateMachine, new, Len(new))
  BY <1>1, MachinesRun
<1> HIDE DEF f, g, K
<1>4. IsRun(g, KVStateMachine, l, K)
  <2>1. \A k \in 1..K : k \in 1..Len(new)
    BY <1>1
  <2> QED BY <1>1, <1>3, <2>1 DEF IsRun
<1>5. \A k \in 0..K : f[k] = g[k]
  BY ONLY <1>1, <1>2, <1>4, RunsAgree
<1> QED BY <1>5 DEF State, f, g, K

\* A server that applies a stretch of the log goes through the states of the log.
StretchOf(l, a, b, part) ==
    /\ Len(l) \in Nat /\ a \in 0..Len(l) /\ b \in a..Len(l)
    /\ Len(part) = b - a
    /\ \A k \in 1..(b - a) : part[k] = l[a + k]

LEMMA StretchElements ==
    ASSUME NEW S, NEW l \in Seq(S), NEW a \in Nat, NEW b \in Nat, a < b, b <= Len(l)
    PROVE  /\ Len(SubSeq(l, a + 1, b)) = b - a
           /\ \A k \in 1..(b - a) : SubSeq(l, a + 1, b)[k] = l[a + k]
<1>1. Len(SubSeq(l, a + 1, b)) = b - a
  OBVIOUS
<1>2. ASSUME NEW k \in 1..(b - a) PROVE SubSeq(l, a + 1, b)[k] = l[a + k]
  <2>1. k \in 1..(b - (a + 1) + 1) /\ (a + 1) + k - 1 = a + k
    OBVIOUS
  <2> QED BY <2>1
<1> QED BY <1>1, <1>2

LEMMA StretchRuns ==
    ASSUME NEW l, NEW a, NEW b, NEW part, StretchOf(l, a, b, part)
    PROVE  \A k \in 0..(b - a) : Machines(State(l, a), part)[k] = State(l, a + k)
<1> DEFINE f == Machines(KVStateMachine, l)
           g == Machines(State(l, a), part)
           K == b - a
           h == [k \in 0..K |-> f[a + k]]
<1>1. /\ Len(l) \in Nat /\ a \in 0..Len(l) /\ b \in a..Len(l) /\ K \in Nat /\ Len(part) = K
      /\ \A k \in 1..K : part[k] = l[a + k]
  BY DEF StretchOf
<1>2. IsRun(f, KVStateMachine, l, Len(l))
  BY <1>1, MachinesRun
<1>3. IsRun(g, State(l, a), part, K)
  <2>1. Len(part) \in Nat
    BY <1>1
  <2>2. IsRun(g, State(l, a), part, Len(part))
    BY <2>1, MachinesRun
  <2> QED BY <1>1, <2>2
<1> HIDE DEF f, g
<1>4. IsRun(h, State(l, a), part, K)
  <2>1. h[0] = State(l, a)
    BY <1>1 DEF State, f
  <2>2. \A k \in 1..K : h[k] = apply(h[k - 1], part[k]).kv
    <3> TAKE k \in 1..K
    <3>1. /\ a + k \in 1..Len(l) /\ (a + k) - 1 = a + (k - 1)
          /\ k \in 0..K /\ k - 1 \in 0..K
      BY <1>1
    <3>2. f[a + k] = apply(f[a + (k - 1)], l[a + k]).kv
      BY <1>2, <3>1 DEF IsRun
    <3> QED BY <1>1, <3>1, <3>2
  <2> QED BY <2>1, <2>2 DEF IsRun
<1> HIDE DEF h, K
<1>5. \A k \in 0..K : g[k] = h[k]
  BY ONLY <1>1, <1>3, <1>4, RunsAgree
<1> QED BY <1>5 DEF State, f, g, h, K

---------------------------------------------------------------------------
(* Sessions. *)

LEMMA Fields ==
    ASSUME NEW cmd \in Submitted
    PROVE  /\ cmd.client \in Client /\ cmd.req \in Nat /\ cmd.op \in {"put", "get", "cas"}
           /\ is_structured(cmd) /\ cmd # None
<1>1. PICK q \in Requests, o \in Operations : cmd = Command(q[1], q[2], o)
  BY DEF Submitted
<1>2. q[1] \in Client /\ q[2] \in Nat /\ o.op \in {"put", "get", "cas"}
  BY SessionsAssumption
<1>3. cmd.client = q[1] /\ cmd.req = q[2] /\ cmd.op = o.op
  BY <1>1 DEF Command
<1>4. cmd # None
  BY <1>1, SessionsAssumption
<1>5. cmd.op # "noop"
  BY <1>2, <1>3
<1> QED BY <1>2, <1>3, <1>4, <1>5 DEF is_structured

LEMMA LogFields ==
    ASSUME NEW l, l \in Seq(Commands)
    PROVE  /\ Len(l) \in Nat
           /\ \A k \in 1..Len(l) : /\ is_structured(l[k]) => l[k] \in Submitted
                                   /\ l[k] \in Commands /\ l[k] # None
<1>1. Noop # None /\ ~is_structured(Noop)
  BY SessionsAssumption DEF Noop, is_structured
<1> SUFFICES ASSUME NEW k \in 1..Len(l)
             PROVE  (is_structured(l[k]) => l[k] \in Submitted) /\ l[k] \in Commands /\ l[k] # None
  OBVIOUS
<1>2. l[k] \in Commands
  OBVIOUS
<1> QED BY <1>1, <1>2, Fields DEF Commands

\* The session table of a state.
IsTable(sessions) ==
    /\ sessions = [c \in Client |-> sessions[c]]
    /\ \A c \in Client : sessions[c].req \in Int

LEMMA Applied ==
    ASSUME NEW s, NEW cmd \in Submitted, IsTable(s.sessions)
    PROVE  LET t == apply(s, cmd).kv
               done == _execute(s.store, cmd)
           IN  /\ IsTable(t.sessions)
               /\ \A c \in Client : c # cmd.client => t.sessions[c] = s.sessions[c]
               /\ is_duplicate(s, cmd) => t = s
               /\ ~is_duplicate(s, cmd) =>
                     /\ t.sessions[cmd.client].req = cmd.req
                     /\ t.store = done.store
                     /\ apply(s, cmd).result = done.result
<1> DEFINE done == _execute(s.store, cmd)
           sessions == [s.sessions EXCEPT ![cmd.client] = [req |-> cmd.req, result |-> done.result]]
<1>1. cmd.client \in Client /\ cmd.req \in Nat /\ is_structured(cmd)
  BY Fields
<1>2. CASE is_duplicate(s, cmd)
  <2>1. apply(s, cmd).kv = s
    BY <1>1, <1>2 DEF apply
  <2> QED BY <2>1, <1>2
<1>3. CASE ~is_duplicate(s, cmd)
  <2> HIDE DEF done
  <2>1. apply(s, cmd) = [kv |-> [store |-> done.store, sessions |-> sessions], result |-> done.result]
    BY <1>1, <1>3 DEF apply, done
  <2>2. /\ sessions = [c \in Client |-> sessions[c]]
        /\ sessions[cmd.client] = [req |-> cmd.req, result |-> done.result]
        /\ \A c \in Client : c # cmd.client => sessions[c] = s.sessions[c]
    BY <1>1 DEF IsTable
  <2> HIDE DEF sessions
  <2>3. IsTable(sessions)
    BY <1>1, <2>2 DEF IsTable
  <2> QED BY <1>3, <2>1, <2>2, <2>3 DEF done
<1> QED BY <1>2, <1>3

\* What the session of a client remembers: its latest request among the first
\* k commands.
Remembers(l, k, sessions) ==
    /\ IsTable(sessions)
    /\ \A j \in 1..k : is_structured(l[j]) => l[j].req <= sessions[l[j].client].req
    /\ \A c \in Client : \/ sessions[c].req = -1
                         \/ \E j \in 1..k : /\ is_structured(l[j]) /\ l[j].client = c
                                            /\ l[j].req = sessions[c].req

LEMMA StateSteps ==
    ASSUME NEW l, l \in Seq(Commands)
    PROVE  /\ State(l, 0) = KVStateMachine
           /\ \A k \in 1..Len(l) : State(l, k) = apply(State(l, k - 1), l[k]).kv
<1>1. IsRun(Machines(KVStateMachine, l), KVStateMachine, l, Len(l))
  BY MachinesRun, LogFields
<1> QED BY <1>1 DEF IsRun, State

LEMMA StatesRemember ==
    ASSUME NEW l, l \in Seq(Commands)
    PROVE  \A k \in 0..Len(l) : Remembers(l, k, State(l, k).sessions)
<1> DEFINE S == {k \in 0..Len(l) : Remembers(l, k, State(l, k).sessions)}
<1>0. Len(l) \in Nat
  BY LogFields
<1>1. 0 \in S
  <2>1. State(l, 0).sessions = [c \in Client |-> NoSession]
    <3>1. State(l, 0) = KVStateMachine
      BY StateSteps
    <3>2. KVStateMachine.sessions = [c \in Client |-> NoSession]
      BY DEF KVStateMachine
    <3> QED BY <3>1, <3>2
  <2> DEFINE none == [c \in Client |-> NoSession]
  <2>2. Remembers(l, 0, none)
    <3>1. \A c \in Client : none[c].req = -1
      BY DEF NoSession
    <3>2. none = [c \in Client |-> none[c]]
      OBVIOUS
    <3> HIDE DEF none
    <3>3. \A j \in 1..0 : FALSE
      OBVIOUS
    <3> QED BY <3>1, <3>2, <3>3 DEF Remembers, IsTable
  <2> QED BY <1>0, <2>1, <2>2
<1>2. \A k \in 0..Len(l) : k < Len(l) /\ k \in S => k + 1 \in S
  <2> SUFFICES ASSUME NEW k \in 0..Len(l), k < Len(l), k \in S PROVE k + 1 \in S
    OBVIOUS
  <2> DEFINE s == State(l, k)
             cmd == l[k + 1]
             t == State(l, k + 1)
  <2>1. k + 1 \in 1..Len(l) /\ (k + 1) - 1 = k /\ k + 1 \in 0..Len(l)
    BY <1>0
  <2>2. t = apply(s, cmd).kv
    BY <2>1, StateSteps
  <2>3. Remembers(l, k, s.sessions)
    OBVIOUS
  <2> HIDE DEF s, t
  <2>4. Remembers(l, k + 1, t.sessions)
    <3>1. CASE ~is_structured(cmd)
      <4>1. t = s
        BY <2>2, <3>1 DEF apply
      <4>2. \A j \in 1..(k + 1) : is_structured(l[j]) => j \in 1..k
        BY <1>0, <3>1
      <4>3. \A j \in 1..k : j \in 1..(k + 1)
        BY <1>0
      <4> QED BY <2>3, <4>1, <4>2, <4>3 DEF Remembers
    <3>2. CASE is_structured(cmd)
      <4>1. /\ cmd \in Submitted /\ cmd.client \in Client /\ cmd.req \in Nat
        BY <2>1, <3>2, LogFields, Fields
      <4>2. IsTable(s.sessions)
        BY <2>3 DEF Remembers
      <4>3. /\ IsTable(t.sessions)
            /\ \A c \in Client : c # cmd.client => t.sessions[c] = s.sessions[c]
            /\ is_duplicate(s, cmd) => t = s
            /\ ~is_duplicate(s, cmd) => t.sessions[cmd.client].req = cmd.req
        BY <2>2, <4>1, <4>2, Applied
      <4> HIDE DEF cmd
      <4>4. /\ s.sessions[cmd.client].req \in Int /\ t.sessions[cmd.client].req \in Int
            /\ s.sessions[cmd.client].req <= t.sessions[cmd.client].req
            /\ cmd.req <= t.sessions[cmd.client].req
        BY <4>1, <4>2, <4>3 DEF IsTable, is_duplicate
      <4>5. \A j \in 1..k : is_structured(l[j]) => l[j].client \in Client /\ l[j].req \in Nat
        BY <1>0, LogFields, Fields
      <4>6. \A j \in 1..(k + 1) : is_structured(l[j]) => l[j].req <= t.sessions[l[j].client].req
        <5> TAKE j \in 1..(k + 1)
        <5>1. CASE j = k + 1
          BY <4>4, <5>1 DEF cmd
        <5>2. CASE j # k + 1
          <6>1. j \in 1..k
            BY <5>2
          <6>2. is_structured(l[j]) => l[j].req <= s.sessions[l[j].client].req
            BY <2>3, <6>1 DEF Remembers
          <6>3. is_structured(l[j]) /\ l[j].client # cmd.client =>
                    t.sessions[l[j].client] = s.sessions[l[j].client]
            BY <4>3, <4>5, <6>1
          <6>4. is_structured(l[j]) /\ l[j].client = cmd.client =>
                    l[j].req <= t.sessions[l[j].client].req
            BY <4>4, <4>5, <6>1, <6>2
          <6> QED BY <6>2, <6>3, <6>4
        <5> QED BY <5>1, <5>2
      <4>7. \A c \in Client : \/ t.sessions[c].req = -1
                              \/ \E j \in 1..(k + 1) : /\ is_structured(l[j]) /\ l[j].client = c
                                                       /\ l[j].req = t.sessions[c].req
        <5> TAKE c \in Client
        <5>1. CASE t.sessions[c].req = s.sessions[c].req
          <6>1. \/ s.sessions[c].req = -1
                \/ \E j \in 1..k : /\ is_structured(l[j]) /\ l[j].client = c
                                   /\ l[j].req = s.sessions[c].req
            BY <2>3 DEF Remembers
          <6>2. \A j \in 1..k : j \in 1..(k + 1)
            BY <1>0
          <6> QED BY <5>1, <6>1, <6>2
        <5>2. CASE t.sessions[c].req # s.sessions[c].req
          <6>1. c = cmd.client /\ t.sessions[c].req = cmd.req
            BY <4>3, <5>2
          <6>2. k + 1 \in 1..(k + 1)
            BY <2>1
          <6> QED BY <3>2, <6>1, <6>2 DEF cmd
        <5> QED BY <5>1, <5>2
      <4> QED BY <4>3, <4>6, <4>7 DEF Remembers
    <3> QED BY <3>1, <3>2
  <2> QED BY <2>1, <2>4 DEF t
<1> HIDE DEF S
<1>3. 0..Len(l) \subseteq S
  BY <1>0, <1>1, <1>2, IntervalInduction
<1> QED BY <1>3 DEF S

\* Sessions only move forward.
LEMMA SessionsGrow ==
    ASSUME NEW l, l \in Seq(Commands), NEW j \in 0..Len(l), NEW k \in j..Len(l), NEW c \in Client
    PROVE  /\ State(l, j).sessions[c].req \in Int
           /\ State(l, k).sessions[c].req \in Int
           /\ State(l, j).sessions[c].req <= State(l, k).sessions[c].req
<1> DEFINE s == State(l, j).sessions
           t == State(l, k).sessions
<1>0. Len(l) \in Nat /\ k \in 0..Len(l)
  BY LogFields
<1>1. Remembers(l, j, s) /\ Remembers(l, k, t)
  BY <1>0, StatesRemember
<1> HIDE DEF s, t
<1>2. s[c].req \in Int /\ t[c].req \in Int
  BY <1>1 DEF Remembers, IsTable
<1>3. t[c].req >= -1
  <2>1. \A i \in 1..k : is_structured(l[i]) => l[i].req \in Nat
    BY <1>0, LogFields, Fields
  <2> QED BY <1>1, <1>2, <2>1 DEF Remembers
<1>4. CASE s[c].req = -1
  BY <1>2, <1>3, <1>4 DEF s, t
<1>5. CASE s[c].req # -1
  <2>1. PICK i \in 1..j : is_structured(l[i]) /\ l[i].client = c /\ l[i].req = s[c].req
    BY <1>1, <1>5 DEF Remembers
  <2>2. i \in 1..k
    BY <1>0
  <2>3. l[i].req <= t[c].req
    BY <1>1, <2>1, <2>2 DEF Remembers
  <2> QED BY <1>2, <2>1, <2>3 DEF s, t
<1> QED BY <1>4, <1>5

---------------------------------------------------------------------------
(* What the clients hear of a report. *)

Unanswered(c) ==
    /\ _outstanding'[c] = _outstanding[c] /\ _next_req'[c] = _next_req[c]
    /\ observed'[c] = observed[c]
Answered(c, result) ==
    /\ _outstanding'[c] = None /\ _next_req'[c] = _next_req[c] + 1
    /\ observed'[c] = result

ClientsAreFunctions ==
    /\ _outstanding' = [c \in Client |-> _outstanding'[c]]
    /\ _next_req' = [c \in Client |-> _next_req'[c]]
    /\ observed' = [c \in Client |-> observed'[c]]

LEMMA Reporting ==
    ASSUME NEW reports, NEW K \in Nat, DOMAIN reports = 1..K, _on_apply(reports)
    PROVE  /\ ClientsAreFunctions
           /\ \A c \in Client :
                \/ /\ \A k \in 1..K : reports[k].cmd # _outstanding[c]
                   /\ Unanswered(c)
                \/ \E k \in 1..K : /\ reports[k].cmd = _outstanding[c]
                                   /\ \A j \in 1..(k - 1) : reports[j].cmd # _outstanding[c]
                                   /\ Answered(c, reports[k].result)
<1> DEFINE mine(c) == {k \in DOMAIN reports : _outstanding[c] = reports[k].cmd}
           least(c) == CHOOSE k \in mine(c) : \A j \in mine(c) : k <= j
           first(c) == IF mine(c) = {} THEN 0 ELSE least(c)
<1>1. /\ _outstanding' = [c \in Client |-> IF first(c) = 0 THEN _outstanding[c] ELSE None]
      /\ _next_req' = [c \in Client |-> IF first(c) = 0 THEN _next_req[c] ELSE _next_req[c] + 1]
      /\ observed' = [c \in Client |->
             IF first(c) = 0 THEN observed[c] ELSE reports[first(c)].result]
  BY DEF _on_apply, Answers
<1>2. \A c \in Client : mine(c) # {} =>
          least(c) \in mine(c) /\ \A j \in mine(c) : least(c) <= j
  <2> TAKE c \in Client
  <2>1. mine(c) \in SUBSET Nat
    OBVIOUS
  <2> HIDE DEF mine
  <2> SUFFICES ASSUME mine(c) # {}
               PROVE  \E k \in mine(c) : \A j \in mine(c) : k <= j
    OBVIOUS
  <2> QED BY <2>1, LeastNat
<1> HIDE DEF least
<1>3. \A c \in Client :
        \/ mine(c) = {} /\ first(c) = 0
        \/ /\ first(c) \in 1..K /\ reports[first(c)].cmd = _outstanding[c]
           /\ \A j \in 1..(first(c) - 1) : reports[j].cmd # _outstanding[c]
  <2> TAKE c \in Client
  <2>1. CASE mine(c) # {}
    <3>1. first(c) = least(c) /\ least(c) \in mine(c) /\ \A j \in mine(c) : least(c) <= j
      BY <1>2, <2>1
    <3>2. \A j \in 1..(least(c) - 1) : j \notin mine(c) /\ j \in 1..K
      BY <3>1
    <3> QED BY <3>1, <3>2
  <2>2. CASE mine(c) = {}
    BY <2>2
  <2> QED BY <2>1, <2>2
<1> HIDE DEF first
<1>4. ClientsAreFunctions
  BY <1>1 DEF ClientsAreFunctions
<1>5. \A c \in Client : first(c) = 0 => Unanswered(c)
  BY <1>1 DEF Unanswered
<1>6. \A c \in Client : first(c) # 0 => Answered(c, reports[first(c)].result)
  BY <1>1 DEF Answered
<1>7. ASSUME NEW c \in Client
      PROVE  \/ /\ \A k \in 1..K : reports[k].cmd # _outstanding[c]
                /\ Unanswered(c)
             \/ \E k \in 1..K : /\ reports[k].cmd = _outstanding[c]
                                /\ \A j \in 1..(k - 1) : reports[j].cmd # _outstanding[c]
                                /\ Answered(c, reports[k].result)
  <2>1. CASE mine(c) = {} /\ first(c) = 0
    <3>1. \A k \in 1..K : reports[k].cmd # _outstanding[c]
      BY <2>1
    <3> QED BY <1>5, <2>1, <3>1
  <2>2. CASE /\ first(c) \in 1..K /\ reports[first(c)].cmd = _outstanding[c]
             /\ \A j \in 1..(first(c) - 1) : reports[j].cmd # _outstanding[c]
    <3>1. Answered(c, reports[first(c)].result)
      BY <1>6, <2>2
    <3> QED BY <2>2, <3>1
  <2> QED BY <1>3, <2>1, <2>2
<1> QED BY <1>4, <1>7

\* p is where a stretch of the log first holds what client c waits for.
First(c, p, a, b) ==
    /\ p \in (a + 1)..b /\ log[p] = _outstanding[c]
    /\ \A j \in (a + 1)..(p - 1) : log[j] # _outstanding[c]

\* A server applies the log from a to b, and the clients hear of it.
Tells(a, b) ==
    /\ ClientsAreFunctions
    /\ \A c \in Client :
          \/ (\A p \in (a + 1)..b : log[p] # _outstanding[c]) /\ Unanswered(c)
          \/ \E p \in (a + 1)..b : /\ First(c, p, a, b)
                                   /\ Answered(c, apply(State(log, p - 1), log[p]).result)

LEMMA Applies ==
    ASSUME SessionsInv, NEW i \in Server, NEW index \in 1..Len(log), _set_commit_index(i, index)
    PROVE  /\ Tells(last_applied[i], index)
           /\ kv' = [kv EXCEPT ![i] = State(log, index)]
           /\ snapshot' = _maybe_compact(i, State(log, index), index)
           /\ last_applied[i] \in 0..applied /\ applied \in 0..Len(log)
           /\ index > last_applied[i] /\ Len(log) \in Nat
<1> DEFINE a == last_applied[i]
           part == SubSeq(log, a + 1, index)
           run == Applying(i, index)
           machine == Machines(kv[i], part)
<1>1. /\ log \in Seq(Commands) /\ Len(log) \in Nat /\ a \in 0..applied /\ applied \in 0..Len(log)
      /\ index > a
  BY LogFields DEF SessionsInv, TypesInv, _set_commit_index
<1>2. StretchOf(log, a, index, part) /\ DOMAIN part = 1..(index - a)
  <2>1. Len(part) = index - a /\ \A k \in 1..(index - a) : part[k] = log[a + k]
    <3>1. a \in Nat /\ index \in Nat /\ a < index /\ index <= Len(log)
      BY <1>1
    <3> HIDE DEF a
    <3> QED BY ONLY <1>1, <3>1, StretchElements DEF part
  <2>2. part \in Seq(Commands)
    BY <1>1
  <2> HIDE DEF part
  <2>3. DOMAIN part = 1..Len(part)
    BY <2>2
  <2> QED BY <1>1, <2>1, <2>3 DEF StretchOf
<1>3. kv[i] = State(log, a)
  BY DEF SessionsInv, ReplicasAgree, Replayed, State
<1>4. \A k \in 0..(index - a) : machine[k] = State(log, a + k)
  <2>1. \A k \in 0..(index - a) : Machines(State(log, a), part)[k] = State(log, a + k)
    BY ONLY <1>2, StretchRuns
  <2> QED BY <1>3, <2>1
<1>5. /\ run.kv = machine[Len(part)]
      /\ run.reports = [k \in DOMAIN part |->
                          [cmd |-> part[k], result |-> apply(machine[k - 1], part[k]).result]]
  BY DEF Applying
<1>6. run.kv = State(log, index)
  <2>1. Len(part) \in 0..(index - a) /\ a + Len(part) = index
    BY <1>1, <1>2 DEF StretchOf
  <2> HIDE DEF machine, part, run
  <2> QED BY <1>4, <1>5, <2>1
<1>7. /\ DOMAIN run.reports = 1..(index - a)
      /\ \A k \in 1..(index - a) :
            /\ run.reports[k].cmd = log[a + k]
            /\ run.reports[k].result = apply(State(log, a + k - 1), log[a + k]).result
  <2> HIDE DEF machine, run
  <2>1. DOMAIN run.reports = 1..(index - a)
    BY <1>2, <1>5
  <2>2. ASSUME NEW k \in 1..(index - a)
        PROVE  /\ run.reports[k].cmd = log[a + k]
               /\ run.reports[k].result = apply(State(log, a + k - 1), log[a + k]).result
    <3>1. k - 1 \in 0..(index - a) /\ a + (k - 1) = a + k - 1
      BY <1>1
    <3>2. machine[k - 1] = State(log, a + k - 1)
      BY <1>4, <3>1
    <3>3. part[k] = log[a + k]
      BY <1>2 DEF StretchOf
    <3> HIDE DEF part
    <3>4. run.reports[k] = [cmd |-> part[k], result |-> apply(machine[k - 1], part[k]).result]
      BY <1>2, <1>5
    <3> QED BY <3>2, <3>3, <3>4
  <2> QED BY <2>1, <2>2
<1>8. /\ kv' = [kv EXCEPT ![i] = run.kv]
      /\ _on_apply(run.reports)
      /\ snapshot' = _maybe_compact(i, run.kv, index)
  BY DEF _set_commit_index
<1> DEFINE reports == run.reports
           K == index - a
<1>9. K \in Nat /\ DOMAIN reports = 1..K /\ _on_apply(reports)
  BY <1>1, <1>7, <1>8
<1> HIDE DEF reports
<1>10. /\ ClientsAreFunctions
       /\ \A c \in Client :
            \/ /\ \A k \in 1..K : reports[k].cmd # _outstanding[c]
               /\ Unanswered(c)
            \/ \E k \in 1..K : /\ reports[k].cmd = _outstanding[c]
                               /\ \A j \in 1..(k - 1) : reports[j].cmd # _outstanding[c]
                               /\ Answered(c, reports[k].result)
  <2> HIDE DEF K
  <2> QED BY ONLY <1>9, Reporting
<1>11. \A k \in 1..K : /\ reports[k].cmd = log[a + k]
                       /\ reports[k].result = apply(State(log, a + k - 1), log[a + k]).result
  BY <1>7 DEF reports
<1>12. \A p \in (a + 1)..index : p - a \in 1..K /\ a + (p - a) = p
  BY <1>1
<1>13. Tells(a, index)
  <2> SUFFICES ASSUME NEW c \in Client
               PROVE  \/ (\A p \in (a + 1)..index : log[p] # _outstanding[c]) /\ Unanswered(c)
                      \/ \E p \in (a + 1)..index :
                            /\ First(c, p, a, index)
                            /\ Answered(c, apply(State(log, p - 1), log[p]).result)
    BY <1>10 DEF Tells
  <2>1. CASE (\A k \in 1..K : reports[k].cmd # _outstanding[c]) /\ Unanswered(c)
    <3>1. \A p \in (a + 1)..index : log[p] # _outstanding[c]
      <4> TAKE p \in (a + 1)..index
      <4>1. reports[p - a].cmd = log[p] /\ reports[p - a].cmd # _outstanding[c]
        BY <1>11, <1>12, <2>1
      <4> QED BY <4>1
    <3> QED BY <2>1, <3>1
  <2>2. CASE \E k \in 1..K : /\ reports[k].cmd = _outstanding[c]
                             /\ \A j \in 1..(k - 1) : reports[j].cmd # _outstanding[c]
                             /\ Answered(c, reports[k].result)
    <3>1. PICK k \in 1..K : /\ reports[k].cmd = _outstanding[c]
                            /\ \A j \in 1..(k - 1) : reports[j].cmd # _outstanding[c]
                            /\ Answered(c, reports[k].result)
      BY <2>2
    <3> DEFINE p == a + k
    <3>2. p \in (a + 1)..index /\ log[p] = _outstanding[c]
      BY <1>1, <1>11, <3>1
    <3>3. Answered(c, apply(State(log, p - 1), log[p]).result)
      <4>1. reports[k].result = apply(State(log, p - 1), log[p]).result
        BY <1>1, <1>11
      <4> QED BY <3>1, <4>1
    <3>4. \A j \in (a + 1)..(p - 1) : log[j] # _outstanding[c]
      <4> TAKE j \in (a + 1)..(p - 1)
      <4>1. j - a \in 1..(k - 1) /\ j \in (a + 1)..index
        BY <1>1
      <4>2. reports[j - a].cmd = log[j] /\ reports[j - a].cmd # _outstanding[c]
        BY <1>11, <1>12, <3>1, <4>1
      <4> QED BY <4>2
    <3>5. First(c, p, a, index)
      BY <3>2, <3>4 DEF First
    <3> QED BY <3>2, <3>3, <3>5
  <2> QED BY <1>10, <2>1, <2>2
<1> QED BY <1>1, <1>6, <1>8, <1>13

---------------------------------------------------------------------------
(* Every step keeps the invariant. *)

LEMMA InitSessions == Init => SessionsInv
<1> SUFFICES ASSUME Init PROVE SessionsInv
  OBVIOUS
<1>1. log = <<>> /\ Len(log) = 0 /\ log \in Seq(Commands) /\ applied = 0
  <2>1. log = <<>> /\ applied = 0
    BY DEF Init
  <2> HIDE DEF Commands
  <2> QED BY <2>1
<1>2. State(log, 0) = KVStateMachine
  BY <1>1, StateSteps
<1>3. TypesInv
  <2>1. \A i \in Server : snapshot[i] = NoSnapshot
    BY DEF Init
  <2>2. NoSnapshot.last_index = 0
    BY DEF NoSnapshot
  <2>3. /\ _read_index \in BOOLEAN
        /\ kv = [i \in Server |-> kv[i]] /\ snapshot = [i \in Server |-> snapshot[i]]
        /\ last_applied = [i \in Server |-> 0] /\ observed = [c \in Client |-> observed[c]]
        /\ _outstanding = [c \in Client |-> None] /\ _next_req = [c \in Client |-> 0]
        /\ asked_at = [c \in Client |-> 0]
    BY DEF Init
  <2> QED BY <1>1, <2>1, <2>2, <2>3 DEF TypesInv
<1>4. WaitsInv
  BY DEF WaitsInv, Init
<1>5. OnceInv
  <2>1. \A c \in Client : State(log, applied).sessions[c].req = -1
    <3>1. KVStateMachine.sessions = [c \in Client |-> NoSession] /\ NoSession.req = -1
      BY DEF KVStateMachine, NoSession
    <3> QED BY <1>1, <1>2, <3>1
  <2>2. \A c \in Client : _next_req[c] = 0
    BY DEF Init
  <2>3. \A k \in 1..Len(log) : FALSE
    BY <1>1
  <2> QED BY <2>1, <2>2, <2>3 DEF OnceInv
<1>6. ReplicasAgree
  <2> SUFFICES ASSUME NEW i \in Server
               PROVE  kv[i] = Replayed(last_applied[i]) /\ snapshot[i].image = Replayed(snapshot[i].last_index)
    BY DEF ReplicasAgree
  <2>1. kv[i] = KVStateMachine /\ last_applied[i] = 0 /\ snapshot[i] = NoSnapshot
    BY DEF Init
  <2>2. NoSnapshot.last_index = 0 /\ NoSnapshot.image = KVStateMachine
    BY DEF NoSnapshot
  <2>3. Replayed(0) = KVStateMachine
    BY <1>2 DEF Replayed, State
  <2> QED BY <2>1, <2>2, <2>3
<1> QED BY <1>3, <1>4, <1>5, <1>6 DEF SessionsInv

LEMMA InvokeSessions ==
    ASSUME SessionsInv, NEW c \in Client, _invoke(c)
    PROVE  SessionsInv'
<1> USE DEF SessionsInv
<1>1. PICK o \in Operations :
        _outstanding' = [_outstanding EXCEPT ![c] = Command(c, _next_req[c], o)]
  BY DEF _invoke
<1> DEFINE request == Command(c, _next_req[c], o)
<1>2. request \in Submitted /\ request.client = c /\ request.req = _next_req[c]
  <2>1. <<c, _next_req[c]>> \in Requests
    BY DEF _invoke
  <2>2. <<c, _next_req[c]>>[1] = c /\ <<c, _next_req[c]>>[2] = _next_req[c]
    OBVIOUS
  <2>3. request \in Submitted
    BY <2>1, <2>2 DEF Submitted
  <2>4. request.client = c /\ request.req = _next_req[c]
    BY DEF Command
  <2> QED BY <2>3, <2>4
<1> HIDE DEF request
<1>3. /\ _outstanding[c] = None /\ asked_at' = [asked_at EXCEPT ![c] = applied]
      /\ UNCHANGED <<_read_index, log, kv, last_applied, snapshot, _next_req, observed, applied>>
  BY DEF _invoke, servers
<1>4. _outstanding' = [_outstanding EXCEPT ![c] = request]
  BY <1>1 DEF request
<1>5. TypesInv'
  BY <1>2, <1>3, <1>4, LogFields DEF TypesInv
<1>6. \A d \in Client : _outstanding'[d] = IF d = c THEN request ELSE _outstanding[d]
  BY <1>4 DEF TypesInv
<1>7. WaitsInv'
  BY <1>2, <1>3, <1>6 DEF WaitsInv
<1>8. OnceInv'
  <2>1. \A k \in 1..Len(log) : is_structured(log[k]) => log[k].client \in Client /\ log[k] # None
    BY LogFields, Fields DEF TypesInv
  <2> QED BY <1>3, <1>6, <2>1 DEF OnceInv, ViaReadIndex
<1>9. ReplicasAgree'
  BY <1>3 DEF ReplicasAgree, Replayed
<1> QED BY <1>5, <1>7, <1>8, <1>9

LEMMA CommitSessions ==
    ASSUME SessionsInv, Len(log) < MaxLog,
           NEW cmd \in {u \in Unfinished : ~ViaReadIndex(u)} \cup ToSet(log) \cup {Noop},
           Commit(cmd)
    PROVE  SessionsInv' /\ Grown(log, log')
<1> USE DEF SessionsInv
<1>1. /\ log' = Append(log, cmd)
      /\ UNCHANGED <<_read_index, kv, last_applied, snapshot, _outstanding, _next_req, observed,
                     asked_at, applied>>
  BY DEF Commit, servers
<1>2. log \in Seq(Commands) /\ Len(log) \in Nat /\ applied \in 0..Len(log)
  BY LogFields DEF TypesInv
<1>3. /\ cmd \in Commands
      /\ is_structured(cmd) =>
            /\ ~ViaReadIndex(cmd) /\ cmd.client \in Client
            /\ \/ _outstanding[cmd.client] = cmd
               \/ /\ cmd.req < _next_req[cmd.client]
                  /\ cmd.req <= State(log, applied).sessions[cmd.client].req
  <2>1. CASE cmd \in {u \in Unfinished : ~ViaReadIndex(u)}
    <3>1. PICK c \in Client : cmd = _outstanding[c] /\ cmd # None
      BY <2>1 DEF Unfinished
    <3>2. cmd \in Submitted /\ cmd.client = c
      BY <3>1 DEF TypesInv, WaitsInv
    <3> QED BY <2>1, <3>1, <3>2 DEF Commands
  <2>2. CASE cmd \in ToSet(log)
    <3>1. PICK k \in 1..Len(log) : cmd = log[k]
      BY <1>2, <2>2 DEF ToSet
    <3>2. cmd \in Commands /\ (is_structured(cmd) => cmd.client \in Client)
      BY <1>2, <3>1, LogFields, Fields
    <3> QED BY <3>1, <3>2 DEF OnceInv
  <2>3. CASE cmd = Noop
    BY <2>3 DEF Commands, Noop, is_structured
  <2> QED BY <2>1, <2>2, <2>3
<1>4. /\ log' \in Seq(Commands) /\ Len(log') = Len(log) + 1 /\ log'[Len(log) + 1] = cmd
      /\ \A k \in 1..Len(log) : log'[k] = log[k]
  BY <1>1, <1>2, <1>3
<1>5. Grown(log, log')
  BY <1>2, <1>4 DEF Grown
<1>6. \A k \in 0..Len(log) : State(log', k) = State(log, k)
  BY ONLY <1>5, StatesStay
<1>7. TypesInv'
  <2>1. applied' \in 0..Len(log')
    BY <1>1, <1>2, <1>4
  <2> QED BY <1>1, <1>4, <2>1 DEF TypesInv
<1>8. WaitsInv'
  BY <1>1 DEF WaitsInv
<1>9. OnceInv'
  <2>1. State(log', applied') = State(log, applied)
    BY <1>1, <1>2, <1>6
  <2>2. \A k \in 1..Len(log') : k \in 1..Len(log) \/ log'[k] = cmd
    BY <1>2, <1>4
  <2> QED BY <1>1, <1>3, <1>4, <2>1, <2>2 DEF OnceInv, ViaReadIndex
<1>10. ReplicasAgree'
  <2> SUFFICES ASSUME NEW i \in Server
               PROVE  /\ kv'[i] = Replayed(last_applied[i])'
                      /\ snapshot'[i].image = Replayed(snapshot[i].last_index)'
    BY DEF ReplicasAgree
  <2>1. last_applied[i] \in 0..Len(log) /\ snapshot[i].last_index \in 0..Len(log)
    BY <1>2 DEF TypesInv
  <2>2. /\ State(log', last_applied[i]) = State(log, last_applied[i])
        /\ State(log', snapshot[i].last_index) = State(log, snapshot[i].last_index)
    BY <1>6, <2>1
  <2> QED BY <1>1, <2>2 DEF ReplicasAgree, Replayed, State
<1> QED BY <1>5, <1>7, <1>8, <1>9, <1>10

LEMMA ResetSessions ==
    ASSUME SessionsInv, NEW i \in Server, _reset_volatile(i)
    PROVE  SessionsInv'
<1> USE DEF SessionsInv
<1>1. /\ kv' = [kv EXCEPT ![i] = snapshot[i].image]
      /\ last_applied' = [last_applied EXCEPT ![i] = snapshot[i].last_index]
      /\ UNCHANGED <<_read_index, log, snapshot, _outstanding, _next_req, observed, asked_at, applied>>
  BY DEF _reset_volatile, restore
<1>2. TypesInv'
  BY <1>1 DEF TypesInv
<1>3. WaitsInv' /\ OnceInv'
  BY <1>1 DEF WaitsInv, OnceInv, ViaReadIndex
<1>4. ReplicasAgree'
  <2>1. \A j \in Server : /\ kv'[j] = IF j = i THEN snapshot[i].image ELSE kv[j]
                          /\ last_applied'[j] = IF j = i THEN snapshot[i].last_index ELSE last_applied[j]
    BY <1>1 DEF TypesInv
  <2> QED BY <1>1, <2>1 DEF ReplicasAgree, Replayed
<1> QED BY <1>2, <1>3, <1>4

LEMMA InstallSessions ==
    ASSUME SessionsInv, NEW i \in Server, NEW j \in Server, _on_install_snapshot(i, j)
    PROVE  SessionsInv'
<1> USE DEF SessionsInv
<1>1. /\ kv' = [kv EXCEPT ![i] = snapshot[j].image]
      /\ snapshot' = [snapshot EXCEPT ![i] = snapshot[j]]
      /\ last_applied' = [last_applied EXCEPT ![i] = snapshot[j].last_index]
      /\ UNCHANGED <<_read_index, log, _outstanding, _next_req, observed, asked_at, applied>>
  BY DEF _on_install_snapshot, restore
<1>2. \A k \in Server : /\ kv'[k] = IF k = i THEN snapshot[j].image ELSE kv[k]
                        /\ snapshot'[k] = IF k = i THEN snapshot[j] ELSE snapshot[k]
                        /\ last_applied'[k] = IF k = i THEN snapshot[j].last_index ELSE last_applied[k]
  BY <1>1 DEF TypesInv
<1>3. TypesInv'
  BY <1>1, <1>2 DEF TypesInv
<1>4. WaitsInv' /\ OnceInv'
  BY <1>1 DEF WaitsInv, OnceInv, ViaReadIndex
<1>5. ReplicasAgree'
  BY <1>1, <1>2 DEF ReplicasAgree, Replayed
<1> QED BY <1>3, <1>4, <1>5

\* Nobody waits for what some server has applied.
LEMMA NotYetApplied ==
    ASSUME SessionsInv, NEW c \in Client, NEW k \in 1..applied
    PROVE  log[k] # _outstanding[c]
<1> SUFFICES ASSUME log[k] = _outstanding[c] PROVE FALSE
  OBVIOUS
<1>1. log \in Seq(Commands) /\ Len(log) \in Nat /\ applied \in 0..Len(log) /\ k \in 1..Len(log)
  BY LogFields DEF SessionsInv, TypesInv
<1>2. log[k] # None
  BY <1>1, LogFields
<1>3. /\ log[k] \in Submitted /\ is_structured(log[k]) /\ log[k].client = c /\ log[k].req = _next_req[c]
      /\ log[k].req \in Nat
  BY <1>2, Fields DEF SessionsInv, TypesInv, WaitsInv
<1> DEFINE sessions == State(log, applied).sessions
<1>4. Remembers(log, applied, sessions)
  BY <1>1, StatesRemember
<1>5. sessions[c].req < _next_req[c]
  BY DEF SessionsInv, OnceInv
<1> HIDE DEF sessions
<1>6. log[k].req <= sessions[c].req /\ sessions[c].req \in Int
  BY <1>3, <1>4 DEF Remembers, IsTable
<1> QED BY <1>3, <1>5, <1>6

LEMMA ServeSessions ==
    ASSUME SessionsInv, NEW i \in Server, NEW c \in Client, _try_serve_read(i, c)
    PROVE  /\ SessionsInv'
           /\ _outstanding' = [_outstanding EXCEPT ![c] = None]
           /\ observed' = [observed EXCEPT ![c] = apply_read(kv[i], _outstanding[c])]
<1> USE DEF SessionsInv
<1> DEFINE report == [cmd |-> _outstanding[c], result |-> apply_read(kv[i], _outstanding[c])]
           reports == <<report>>
<1>1. /\ _outstanding[c] # None /\ ViaReadIndex(_outstanding[c])
      /\ _on_apply(reports)
      /\ UNCHANGED <<_read_index, log, kv, last_applied, snapshot, asked_at, applied>>
  BY DEF _try_serve_read, servers
<1>2. DOMAIN reports = 1..1 /\ reports[1] = report
  OBVIOUS
<1>3. report.cmd = _outstanding[c] /\ report.result = apply_read(kv[i], _outstanding[c])
  OBVIOUS
<1> HIDE DEF report, reports
<1>4. /\ ClientsAreFunctions
      /\ \A d \in Client :
            \/ /\ \A k \in 1..1 : reports[k].cmd # _outstanding[d]
               /\ Unanswered(d)
            \/ \E k \in 1..1 : /\ reports[k].cmd = _outstanding[d]
                               /\ \A j \in 1..(k - 1) : reports[j].cmd # _outstanding[d]
                               /\ Answered(d, reports[k].result)
  <2>1. 1 \in Nat
    OBVIOUS
  <2> QED BY ONLY <1>1, <1>2, <2>1, Reporting
<1>5. \A d \in Client : _outstanding[d] = _outstanding[c] => d = c
  BY <1>1 DEF WaitsInv
<1>6. \A d \in Client : \/ d # c /\ Unanswered(d)
                        \/ d = c /\ Answered(d, apply_read(kv[i], _outstanding[c]))
  <2> TAKE d \in Client
  <2>1. reports[1].cmd = _outstanding[c] /\ reports[1].result = apply_read(kv[i], _outstanding[c])
    BY <1>2, <1>3
  <2>2. \/ _outstanding[d] # _outstanding[c] /\ Unanswered(d)
        \/ _outstanding[d] = _outstanding[c] /\ Answered(d, apply_read(kv[i], _outstanding[c]))
    BY <1>4, <2>1
  <2> QED BY <1>5, <2>2 DEF Answered, Unanswered
<1>7. \A d \in Client : /\ _outstanding'[d] = IF d = c THEN None ELSE _outstanding[d]
                        /\ _next_req'[d] = IF d = c THEN _next_req[d] + 1 ELSE _next_req[d]
                        /\ observed'[d] = IF d = c THEN apply_read(kv[i], _outstanding[c])
                                                  ELSE observed[d]
  BY <1>6 DEF Answered, Unanswered
<1>8. \A d \in Client : _next_req[d] \in Nat
  BY DEF TypesInv
<1>9. TypesInv'
  <2>1. _next_req' \in [Client -> Nat]
    <3>1. \A d \in Client : _next_req'[d] \in Nat
      BY <1>7, <1>8
    <3> QED BY <1>4, <3>1 DEF ClientsAreFunctions
  <2>2. _outstanding' \in [Client -> Submitted \cup {None}]
    <3>1. \A d \in Client : _outstanding'[d] \in Submitted \cup {None}
      BY <1>7 DEF TypesInv
    <3> QED BY <1>4, <3>1 DEF ClientsAreFunctions
  <2>3. observed' = [d \in Client |-> observed'[d]]
    BY <1>4 DEF ClientsAreFunctions
  <2> QED BY <1>1, <2>1, <2>2, <2>3 DEF TypesInv
<1>10. WaitsInv'
  BY <1>7 DEF WaitsInv
<1>11. OnceInv'
  <2>1. \A k \in 1..Len(log) : is_structured(log[k]) =>
            /\ log[k].client \in Client /\ log[k].req \in Nat
            /\ log[k] # _outstanding[c]
    <3> TAKE k \in 1..Len(log)
    <3>1. is_structured(log[k]) => log[k].client \in Client /\ log[k].req \in Nat
      BY LogFields, Fields DEF TypesInv
    <3>2. is_structured(log[k]) => ~ViaReadIndex(log[k])
      BY DEF OnceInv
    <3> QED BY <1>1, <3>1, <3>2
  <2>2. \A d \in Client : /\ State(log, applied).sessions[d].req < _next_req[d]
                          /\ State(log, applied).sessions[d].req \in Int
    <3>1. applied \in 0..Len(log) /\ log \in Seq(Commands)
      BY DEF TypesInv
    <3>2. IsTable(State(log, applied).sessions)
      BY <3>1, StatesRemember DEF Remembers
    <3> QED BY <3>2 DEF OnceInv, IsTable
  <2>3. \A d \in Client : State(log, applied).sessions[d].req < _next_req'[d]
    BY <1>7, <1>8, <2>2
  <2>4. \A k \in 1..Len(log) : is_structured(log[k]) =>
          LET d == log[k].client
          IN  /\ ~ViaReadIndex(log[k])
              /\ \/ _outstanding'[d] = log[k]
                 \/ /\ log[k].req < _next_req'[d]
                    /\ log[k].req <= State(log, applied).sessions[d].req
    <3> SUFFICES ASSUME NEW k \in 1..Len(log), is_structured(log[k])
                 PROVE  LET d == log[k].client
                        IN  /\ ~ViaReadIndex(log[k])
                            /\ \/ _outstanding'[d] = log[k]
                               \/ /\ log[k].req < _next_req'[d]
                                  /\ log[k].req <= State(log, applied).sessions[d].req
      OBVIOUS
    <3> DEFINE d == log[k].client
    <3>1. d \in Client /\ log[k].req \in Nat /\ log[k] # _outstanding[c]
      BY <2>1
    <3>2. /\ ~ViaReadIndex(log[k])
          /\ \/ _outstanding[d] = log[k]
             \/ /\ log[k].req < _next_req[d]
                /\ log[k].req <= State(log, applied).sessions[d].req
      BY DEF OnceInv
    <3> HIDE DEF d
    <3>3. _outstanding[d] = log[k] => _outstanding'[d] = log[k]
      BY <1>7, <3>1
    <3>4. log[k].req < _next_req[d] => log[k].req < _next_req'[d]
      BY <1>7, <1>8, <3>1
    <3> QED BY <3>2, <3>3, <3>4 DEF d
  <2> QED BY <1>1, <2>3, <2>4 DEF OnceInv, ViaReadIndex
<1>12. ReplicasAgree'
  BY <1>1 DEF ReplicasAgree, Replayed
<1>13. /\ _outstanding' = [_outstanding EXCEPT ![c] = None]
       /\ observed' = [observed EXCEPT ![c] = apply_read(kv[i], _outstanding[c])]
  <2>1. /\ _outstanding = [d \in Client |-> _outstanding[d]]
        /\ observed = [d \in Client |-> observed[d]]
    BY DEF TypesInv
  <2> QED BY <1>4, <1>7, <2>1 DEF ClientsAreFunctions
<1> QED BY <1>9, <1>10, <1>11, <1>12, <1>13

LEMMA ApplySessions ==
    ASSUME SessionsInv, NEW i \in Server, NEW index \in 1..Len(log), _set_commit_index(i, index)
    PROVE  SessionsInv'
<1> USE DEF SessionsInv
<1> DEFINE a == last_applied[i]
           now(c) == State(log, applied').sessions[c].req
<1>1. /\ Tells(a, index)
      /\ kv' = [kv EXCEPT ![i] = State(log, index)]
      /\ snapshot' = _maybe_compact(i, State(log, index), index)
      /\ a \in 0..applied /\ applied \in 0..Len(log) /\ index > a
      /\ log \in Seq(Commands) /\ Len(log) \in Nat
  BY Applies DEF TypesInv
<1>2. /\ last_applied' = [last_applied EXCEPT ![i] = index]
      /\ applied' = IF index > applied THEN index ELSE applied
      /\ UNCHANGED <<_read_index, log, asked_at>>
  BY DEF _set_commit_index
<1>3. /\ applied' \in applied..Len(log) /\ applied' \in 0..Len(log)
      /\ index \in 0..applied' /\ (applied' = applied \/ applied' = index)
  BY <1>1, <1>2
<1>4. \A c \in Client :
        \/ /\ \A p \in (a + 1)..index : log[p] # _outstanding[c]
           /\ _outstanding'[c] = _outstanding[c] /\ _next_req'[c] = _next_req[c]
        \/ /\ \E p \in (a + 1)..index : log[p] = _outstanding[c]
           /\ _outstanding'[c] = None /\ _next_req'[c] = _next_req[c] + 1
  BY <1>1 DEF Tells, First, Answered, Unanswered
<1>5. /\ _outstanding' = [c \in Client |-> _outstanding'[c]]
      /\ _next_req' = [c \in Client |-> _next_req'[c]]
      /\ observed' = [c \in Client |-> observed'[c]]
  BY <1>1 DEF Tells, ClientsAreFunctions
<1>6. \A c \in Client : /\ _next_req[c] \in Nat /\ _next_req'[c] \in Nat
                        /\ _next_req[c] <= _next_req'[c]
  BY <1>4 DEF TypesInv
<1>7. /\ snapshot' = [j \in Server |-> snapshot'[j]]
      /\ \A j \in Server :
            \/ snapshot'[j] = snapshot[j]
            \/ snapshot'[j] = [last_index |-> index, image |-> State(log, index)]
  <2>1. snapshot = [j \in Server |-> snapshot[j]]
    BY DEF TypesInv
  <2> DEFINE image == State(log, index)
             compact == [snapshot EXCEPT ![i] = [last_index |-> index, image |-> image]]
  <2>2. snapshot' = snapshot \/ snapshot' = compact
    BY <1>1 DEF _maybe_compact, capture
  <2> HIDE DEF image
  <2>3. /\ compact = [j \in Server |-> compact[j]]
        /\ \A j \in Server : \/ compact[j] = snapshot[j]
                             \/ compact[j] = [last_index |-> index, image |-> image]
    BY <2>1
  <2> HIDE DEF compact
  <2> QED BY <2>1, <2>2, <2>3 DEF image
<1>8. TypesInv'
  <2>1. applied' \in 0..Len(log')
    BY <1>2, <1>3
  <2>2. last_applied' \in [Server -> 0..applied']
    BY <1>1, <1>2, <1>3 DEF TypesInv
  <2>3. \A j \in Server : snapshot'[j].last_index \in 0..applied'
    <3> TAKE j \in Server
    <3>1. snapshot[j].last_index \in 0..applied'
      BY <1>1, <1>3 DEF TypesInv
    <3> QED BY <1>3, <1>7, <3>1
  <2>4. kv' = [j \in Server |-> kv'[j]]
    BY <1>1 DEF TypesInv
  <2>5. _next_req' \in [Client -> Nat]
    BY <1>5, <1>6
  <2>6. _outstanding' \in [Client -> Submitted \cup {None}]
    <3>1. \A c \in Client : _outstanding'[c] \in Submitted \cup {None}
      BY <1>4 DEF TypesInv
    <3> QED BY <1>5, <3>1
  <2>7. asked_at' \in [Client -> 0..applied']
    BY <1>1, <1>2, <1>3 DEF TypesInv
  <2> QED BY <1>2, <1>5, <1>7, <2>1, <2>2, <2>3, <2>4, <2>5, <2>6, <2>7 DEF TypesInv
<1>9. WaitsInv'
  BY <1>4 DEF WaitsInv
<1>10. \A j \in 1..Len(log) : is_structured(log[j]) =>
          /\ log[j].client \in Client /\ log[j].req \in Nat /\ log[j] # None
  BY <1>1, LogFields, Fields
<1>11. Remembers(log, applied', State(log, applied').sessions)
  BY <1>1, <1>3, StatesRemember
<1>12. \A c \in Client : /\ now(c) \in Int
                         /\ State(log, applied).sessions[c].req \in Int
                         /\ State(log, applied).sessions[c].req <= now(c)
  BY <1>1, <1>3, SessionsGrow
<1>13. \A j \in 1..Len(log) : is_structured(log[j]) /\ j <= applied' => log[j].req <= now(log[j].client)
  BY <1>1, <1>3, <1>11 DEF Remembers
<1>14. \A c \in Client : now(c) < _next_req'[c]
  <2> TAKE c \in Client
  <2>1. CASE now(c) = -1
    BY <1>6, <2>1
  <2>2. CASE now(c) # -1
    <3>1. PICK j \in 1..applied' : is_structured(log[j]) /\ log[j].client = c /\ log[j].req = now(c)
      BY <1>11, <2>2 DEF Remembers
    <3>2. j \in 1..Len(log)
      BY <1>1, <1>3
    <3> HIDE DEF now
    <3>3. CASE _outstanding[c] = log[j]
      <4>1. log[j].req = _next_req[c]
        BY <1>10, <3>1, <3>2, <3>3 DEF WaitsInv
      <4>2. ~(j \in 1..applied)
        BY <3>3, NotYetApplied
      <4>3. j \in (a + 1)..index
        BY <1>1, <1>3, <4>2
      <4>4. _next_req'[c] = _next_req[c] + 1
        BY <1>4, <3>3, <4>3
      <4> QED BY <1>6, <3>1, <4>1, <4>4
    <3>4. CASE _outstanding[c] # log[j]
      <4>1. log[j].req < _next_req[c]
        BY <3>1, <3>2, <3>4 DEF OnceInv
      <4> QED BY <1>6, <1>10, <3>1, <3>2, <4>1
    <3> QED BY <3>3, <3>4
  <2> QED BY <2>1, <2>2
<1>15. \A k \in 1..Len(log) : is_structured(log[k]) =>
          LET c == log[k].client
          IN  /\ ~ViaReadIndex(log[k])
              /\ \/ _outstanding'[c] = log[k]
                 \/ log[k].req < _next_req'[c] /\ log[k].req <= now(c)
  <2> SUFFICES ASSUME NEW k \in 1..Len(log), is_structured(log[k])
               PROVE  LET c == log[k].client
                      IN  /\ ~ViaReadIndex(log[k])
                          /\ \/ _outstanding'[c] = log[k]
                             \/ log[k].req < _next_req'[c] /\ log[k].req <= now(c)
    OBVIOUS
  <2> DEFINE c == log[k].client
  <2>1. /\ ~ViaReadIndex(log[k])
        /\ \/ _outstanding[c] = log[k]
           \/ /\ log[k].req < _next_req[c]
              /\ log[k].req <= State(log, applied).sessions[c].req
    BY DEF OnceInv
  <2>2. c \in Client /\ log[k].req \in Nat /\ log[k] # None
    BY <1>10
  <2>3. \A p \in (a + 1)..index : log[p] = log[k] => log[k].req <= now(c)
    <3> SUFFICES ASSUME NEW p \in (a + 1)..index, log[p] = log[k] PROVE log[k].req <= now(c)
      OBVIOUS
    <3>1. p \in 1..Len(log) /\ p <= applied'
      BY <1>1, <1>3
    <3> HIDE DEF now
    <3> QED BY <1>13, <3>1
  <2> HIDE DEF c, now
  <2>4. CASE _outstanding[c] = log[k]
    <3>1. log[k].req = _next_req[c]
      BY <2>2, <2>4 DEF WaitsInv
    <3> QED BY <1>4, <1>6, <2>1, <2>2, <2>3, <2>4, <3>1 DEF c
  <2>5. CASE /\ log[k].req < _next_req[c]
             /\ log[k].req <= State(log, applied).sessions[c].req
    <3>1. log[k].req < _next_req'[c] /\ log[k].req <= now(c)
      BY <1>6, <1>12, <2>2, <2>5
    <3> QED BY <2>1, <3>1 DEF c
  <2> QED BY <2>1, <2>4, <2>5
<1>16. OnceInv'
  BY <1>2, <1>14, <1>15 DEF OnceInv, ViaReadIndex
<1>17. ReplicasAgree'
  <2>1. \A j \in Server : /\ kv'[j] = IF j = i THEN State(log, index) ELSE kv[j]
                          /\ last_applied'[j] = IF j = i THEN index ELSE last_applied[j]
    BY <1>1, <1>2 DEF TypesInv
  <2> QED BY <1>2, <1>7, <2>1 DEF ReplicasAgree, Replayed, State
<1> QED BY <1>8, <1>9, <1>16, <1>17

LEMMA StepSessions == SessionsInv /\ [Next]_vars => SessionsInv'
<1> SUFFICES ASSUME SessionsInv, [Next]_vars PROVE SessionsInv'
  OBVIOUS
<1>1. ASSUME NEW c \in Client, _invoke(c) PROVE SessionsInv'
  BY <1>1, InvokeSessions
<1>2. ASSUME NEW cmd \in {u \in Unfinished : ~ViaReadIndex(u)} \cup ToSet(log) \cup {Noop}, Commit(cmd)
      PROVE  SessionsInv'
  BY <1>2, CommitSessions DEF Commit
<1>3. ASSUME NEW i \in Server, NEW index \in 1..Len(log), _set_commit_index(i, index)
      PROVE  SessionsInv'
  BY <1>3, ApplySessions
<1>4. ASSUME NEW i \in Server, NEW c \in Client, _try_serve_read(i, c) PROVE SessionsInv'
  BY <1>4, ServeSessions
<1>5. ASSUME NEW i \in Server, _reset_volatile(i) PROVE SessionsInv'
  BY <1>5, ResetSessions
<1>6. ASSUME NEW i \in Server, NEW j \in Server, _on_install_snapshot(i, j) PROVE SessionsInv'
  BY <1>6, InstallSessions
<1>7. CASE UNCHANGED vars
  BY <1>7 DEF vars, servers, SessionsInv, TypesInv, WaitsInv, OnceInv, ReplicasAgree, ViaReadIndex, Replayed
<1> QED BY <1>1, <1>2, <1>3, <1>4, <1>5, <1>6, <1>7 DEF Next

(***************************************************************************)
(* Whatever crashes and snapshots do, every server and every image has the *)
(* state that the log says (KVStateMachine.apply, capture, restore).       *)
(***************************************************************************)
THEOREM ReplicasAlwaysAgree == Spec => []ReplicasAgree
<1>1. SessionsInv => ReplicasAgree
  BY DEF SessionsInv
<1> QED BY InitSessions, StepSessions, <1>1, PTL DEF Spec

---------------------------------------------------------------------------
(* What a stretch of the log does to the store. *)

\* The positions at which a request of a waiting client is executed.
Executing(a, b) == {p \in (a + 1)..b : \E c \in Client : First(c, p, a, b)}

\* A server may apply the log from a to b.
Ready(a, b) ==
    /\ log \in Seq(Commands) /\ Len(log) \in Nat /\ applied \in 0..Len(log)
    /\ a \in 0..applied /\ b \in 0..Len(log)

LEMMA SameStore ==
    ASSUME NEW cmd \in Submitted, NEW store
    PROVE  /\ Atomic!Effect(store, cmd) = _execute(store, cmd).store
           /\ Atomic!Result(store, cmd) = _execute(store, cmd).result
<1>1. cmd.op \in {"put", "get", "cas"}
  BY Fields
<1> QED BY <1>1 DEF Atomic!Effect, Atomic!Result, Atomic!Matches, _execute

LEMMA FirstExecutes ==
    ASSUME SessionsInv, NEW a, NEW b, Ready(a, b), NEW p \in (a + 1)..b,
           NEW c \in Client, First(c, p, a, b)
    PROVE  /\ p > applied /\ _outstanding[c] # None /\ log[p].client = c
           /\ State(log, p).store = Atomic!Effect(State(log, p - 1).store, _outstanding[c])
           /\ apply(State(log, p - 1), log[p]).result
                = Atomic!Result(State(log, p - 1).store, _outstanding[c])
<1> DEFINE cmd == log[p]
           s == State(log, p - 1)
<1>1. /\ log \in Seq(Commands) /\ Len(log) \in Nat /\ applied \in 0..Len(log)
      /\ a \in 0..applied /\ b \in 0..Len(log)
  BY DEF Ready
<1>2. p \in 1..Len(log) /\ p - 1 \in 0..Len(log) /\ cmd = _outstanding[c]
      /\ \A j \in (a + 1)..(p - 1) : log[j] # cmd
  BY <1>1 DEF First
<1>3. cmd # None
  BY <1>1, <1>2, LogFields
<1>4. cmd \in Submitted /\ cmd.client = c /\ cmd.req = _next_req[c] /\ cmd.req \in Nat
  BY <1>2, <1>3, Fields DEF SessionsInv, TypesInv, WaitsInv
<1>5. p > applied
  <2> SUFFICES ASSUME p <= applied PROVE FALSE
    BY <1>1, <1>2
  <2>1. p \in 1..applied
    BY <1>1, <1>2
  <2> QED BY <1>2, <2>1, NotYetApplied
<1>6. Remembers(log, p - 1, s.sessions)
  BY <1>1, <1>2, StatesRemember
<1>7. State(log, p) = apply(s, cmd).kv
  BY <1>1, <1>2, StateSteps
<1> HIDE DEF cmd, s
<1>8. s.sessions[c].req < cmd.req
  <2>1. CASE s.sessions[c].req = -1
    BY <1>4, <2>1
  <2>2. CASE s.sessions[c].req # -1
    <3>1. PICK j \in 1..(p - 1) : is_structured(log[j]) /\ log[j].client = c /\ log[j].req = s.sessions[c].req
      BY <1>6, <2>2 DEF Remembers
    <3>2. j \in 1..Len(log)
      BY <1>1, <1>2
    <3>3. _outstanding[c] # log[j]
      <4>1. CASE j \in 1..applied
        BY <4>1, NotYetApplied
      <4>2. CASE j \notin 1..applied
        <5>1. j \in (a + 1)..(p - 1)
          BY <1>1, <1>2, <4>2
        <5> QED BY <1>2, <5>1
      <4> QED BY <4>1, <4>2
    <3>4. log[j].req < _next_req[c]
      BY <3>1, <3>2, <3>3 DEF SessionsInv, OnceInv
    <3> QED BY <1>4, <3>1, <3>4
  <2> QED BY <2>1, <2>2
<1>9. ~is_duplicate(s, cmd)
  <2>1. s.sessions[c].req \in Int
    BY <1>6 DEF Remembers, IsTable
  <2> QED BY <1>4, <1>8, <2>1 DEF is_duplicate
<1>10. /\ State(log, p).store = _execute(s.store, cmd).store
       /\ apply(s, cmd).result = _execute(s.store, cmd).result
  <2>1. IsTable(s.sessions)
    BY <1>6 DEF Remembers
  <2> QED BY <1>4, <1>7, <1>9, <2>1, Applied
<1>11. /\ Atomic!Effect(s.store, cmd) = _execute(s.store, cmd).store
       /\ Atomic!Result(s.store, cmd) = _execute(s.store, cmd).result
  BY <1>4, SameStore
<1> QED BY <1>2, <1>3, <1>4, <1>5, <1>10, <1>11 DEF cmd, s

LEMMA OthersDoNothing ==
    ASSUME SessionsInv, NEW a, NEW b, Ready(a, b), NEW p \in (applied + 1)..b,
           p \notin Executing(a, b)
    PROVE  State(log, p) = State(log, p - 1)
<1> DEFINE cmd == log[p]
           c == cmd.client
           s == State(log, p - 1)
<1>1. /\ log \in Seq(Commands) /\ Len(log) \in Nat /\ applied \in 0..Len(log)
      /\ a \in 0..applied /\ b \in 0..Len(log)
  BY DEF Ready
<1>2. p \in 1..Len(log) /\ p - 1 \in applied..Len(log) /\ p \in (a + 1)..b
      /\ p - 1 \in 0..Len(log)
  BY <1>1
<1>3. State(log, p) = apply(s, cmd).kv
  BY <1>1, <1>2, StateSteps
<1>4. Remembers(log, p - 1, s.sessions)
  BY <1>1, <1>2, StatesRemember
<1>5. CASE ~is_structured(cmd)
  BY <1>3, <1>5 DEF apply
<1>6. CASE is_structured(cmd)
  <2>1. cmd \in Submitted /\ c \in Client /\ cmd.req \in Nat
    BY <1>1, <1>2, <1>6, LogFields, Fields
  <2>2. cmd.req <= s.sessions[c].req
    <3>1. CASE _outstanding[c] = cmd
      <4> DEFINE copies == {j \in (a + 1)..p : log[j] = cmd}
      <4>1. copies \in SUBSET Nat /\ p \in copies
        BY <1>1, <1>2
      <4>2. PICK q \in copies : \A j \in copies : q <= j
        BY <4>1, LeastNat
      <4>3. q \in (a + 1)..b /\ q <= p /\ log[q] = cmd
        BY <1>1, <1>2, <4>1, <4>2
      <4>4. First(c, q, a, b)
        <5>1. \A j \in (a + 1)..(q - 1) : log[j] # cmd
          <6> SUFFICES ASSUME NEW j \in (a + 1)..(q - 1), log[j] = cmd PROVE FALSE
            OBVIOUS
          <6>1. j \in copies
            BY <1>1, <1>2, <4>3
          <6> HIDE DEF copies
          <6> QED BY <1>1, <1>2, <4>2, <4>3, <6>1
        <5> QED BY <3>1, <4>3, <5>1 DEF First
      <4>5. q # p
        <5>1. q \in Executing(a, b)
          BY <2>1, <4>3, <4>4 DEF Executing
        <5> QED BY <5>1
      <4>6. q \in 1..(p - 1)
        BY <1>1, <1>2, <4>3, <4>5
      <4>7. is_structured(log[q]) /\ log[q].client = c /\ log[q].req = cmd.req
        BY <1>6, <4>3
      <4> HIDE DEF cmd, c, s
      <4> QED BY <1>4, <4>6, <4>7 DEF Remembers
    <3>2. CASE _outstanding[c] # cmd
      <4>1. cmd.req <= State(log, applied).sessions[c].req
        BY <1>2, <1>6, <3>2 DEF SessionsInv, OnceInv
      <4>2. /\ State(log, applied).sessions[c].req \in Int /\ s.sessions[c].req \in Int
            /\ State(log, applied).sessions[c].req <= s.sessions[c].req
        BY <1>1, <1>2, <2>1, SessionsGrow
      <4> QED BY <2>1, <4>1, <4>2
    <3> QED BY <3>1, <3>2
  <2>3. is_duplicate(s, cmd)
    BY <2>2 DEF is_duplicate
  <2> QED BY <1>3, <1>6, <2>3 DEF apply
<1> QED BY <1>5, <1>6

\* No request is executed after x and up to y.
Quiet(a, b, x, y) ==
    /\ x \in applied..b /\ y \in x..b
    /\ \A p \in Executing(a, b) : ~(x < p /\ p <= y)

LEMMA QuietStretch ==
    ASSUME SessionsInv, NEW a, NEW b, Ready(a, b), NEW x, NEW y, Quiet(a, b, x, y)
    PROVE  State(log, y) = State(log, x)
<1> DEFINE K == y - x
           S == {k \in 0..K : State(log, x + k) = State(log, x)}
<1>1. /\ applied \in Nat /\ b \in Nat /\ x \in applied..b /\ y \in x..b /\ K \in Nat
      /\ x + K = y /\ x + 0 = x
  BY DEF Ready, Quiet
<1>2. 0 \in S
  BY <1>1
<1>3. \A k \in 0..K : k < K /\ k \in S => k + 1 \in S
  <2> SUFFICES ASSUME NEW k \in 0..K, k < K, k \in S PROVE k + 1 \in S
    OBVIOUS
  <2> DEFINE p == x + (k + 1)
  <2>1. p \in (applied + 1)..b /\ x < p /\ p <= y /\ p - 1 = x + k /\ k + 1 \in 0..K
    BY <1>1
  <2> HIDE DEF p
  <2>2. p \notin Executing(a, b)
    BY <2>1 DEF Quiet
  <2>3. State(log, p) = State(log, p - 1)
    BY <2>1, <2>2, OthersDoNothing
  <2> QED BY <2>1, <2>3 DEF p
<1> HIDE DEF S
<1>4. K \in S
  <2>1. 0..K \subseteq S
    <3> HIDE DEF K
    <3> QED BY <1>1, <1>2, <1>3, IntervalInduction
  <2> QED BY <1>1, <2>1
<1> QED BY <1>1, <1>4 DEF S

LEMMA ExecutedIs ==
    ASSUME NEW callers, NEW n \in Nat, Len(callers) = n,
           NEW h, h = [k \in 0..n |-> h[k]], h[0] = Replayed(applied).store,
           \A k \in 1..n : h[k] = Atomic!Effect(h[k - 1], _outstanding[callers[k]])
    PROVE  Atomic!Executed(callers) = h
<1> DEFINE start == Replayed(applied).store
           Turn(f, k) == IF k = 0 THEN start ELSE Atomic!Effect(f[k - 1], _outstanding[callers[k]])
           Solves(f) == f = [k \in 0..n |-> Turn(f, k)]
           e == Atomic!Executed(callers)
<1>1. Solves(h)
  <2>1. \A k \in 0..n : h[k] = Turn(h, k)
    <3> TAKE k \in 0..n
    <3>1. CASE k = 0
      BY <3>1
    <3>2. CASE k # 0
      <4>1. k \in 1..n
        BY <3>2
      <4> QED BY <3>2, <4>1
    <3> QED BY <3>1, <3>2
  <2> HIDE DEF Turn
  <2> QED BY <2>1
<1>2. Solves(e)
  <2>1. e = CHOOSE f : f = [k \in 0..Len(callers) |-> Turn(f, k)]
    BY DEF Atomic!Executed
  <2>2. e = CHOOSE f : Solves(f)
    BY <2>1
  <2> HIDE DEF Solves
  <2> QED BY <1>1, <2>2
<1> HIDE DEF e, start
<1> DEFINE S == {k \in 0..n : e[k] = h[k]}
<1>3. 0 \in S
  BY <1>2 DEF start
<1>4. \A k \in 0..n : k < n /\ k \in S => k + 1 \in S
  <2> SUFFICES ASSUME NEW k \in 0..n, k < n, k \in S PROVE k + 1 \in S
    OBVIOUS
  <2>1. k + 1 \in 1..n /\ (k + 1) - 1 = k /\ k + 1 \in 0..n /\ k + 1 # 0
    OBVIOUS
  <2>2. e[k + 1] = Atomic!Effect(e[k], _outstanding[callers[k + 1]])
    BY <1>2, <2>1
  <2> QED BY <2>1, <2>2
<1> HIDE DEF S
<1>5. 0..n \subseteq S
  BY <1>3, <1>4, IntervalInduction
<1>6. e = [k \in 0..n |-> e[k]]
  <2> HIDE DEF Turn
  <2> QED BY <1>2
<1> QED BY <1>5, <1>6 DEF S, e

\* The positions at which requests are executed, in order.
Turns(t, n, a, b) ==
    /\ n \in Nat /\ t \in [1..n -> Executing(a, b)] /\ Increasing(t, n)
    /\ \A p \in Executing(a, b) : \E m \in 1..n : t[m] = p

LEMMA InOrder ==
    ASSUME NEW a, NEW b, Ready(a, b)
    PROVE  \E n, t : Turns(t, n, a, b)
<1> DEFINE P == Executing(a, b)
           n == Cardinality(P)
<1>1. P \in SUBSET Nat /\ IsFiniteSet(P)
  <2>1. a \in Nat /\ b \in Nat /\ IsFiniteSet((a + 1)..b)
    BY FS_Interval DEF Ready
  <2>2. P \subseteq (a + 1)..b
    BY DEF Executing
  <2> HIDE DEF P
  <2>3. IsFiniteSet(P)
    BY <2>1, <2>2, FS_Subset
  <2> QED BY <2>1, <2>2, <2>3
<1> HIDE DEF P
<1>2. n \in Nat
  BY <1>1, FS_CardinalityType
<1>3. PICK t \in [1..n -> P] : Increasing(t, n)
  BY <1>1, Sortable
<1>4. \A p \in P : \E m \in 1..n : t[m] = p
  BY <1>1, <1>3, IncreasingIsOnto
<1> HIDE DEF n
<1>5. Turns(t, n, a, b)
  BY <1>2, <1>3, <1>4 DEF Turns, P
<1> QED BY <1>5

\* The position of the m-th turn.
At(t, m) == IF m = 0 THEN applied ELSE t[m]

LEMMA BetweenTurns ==
    ASSUME SessionsInv, NEW a, NEW b, Ready(a, b), applied <= b,
           NEW t, NEW n, Turns(t, n, a, b)
    PROVE  /\ \A m \in 1..n : /\ Quiet(a, b, At(t, m - 1), t[m] - 1)
                              /\ t[m] \in (applied + 1)..b
           /\ \A k \in applied..b : \E m \in 0..n : Quiet(a, b, At(t, m), k)
           /\ Quiet(a, b, At(t, n), b)
<1>1. /\ applied \in Nat /\ b \in Nat /\ applied \in applied..b /\ n \in Nat
      /\ \A m \in 1..n : t[m] \in Executing(a, b)
      /\ Increasing(t, n)
      /\ \A p \in Executing(a, b) : \E m \in 1..n : t[m] = p
  BY DEF Ready, Turns
<1>2. \A p \in Executing(a, b) : p \in (applied + 1)..b
  <2> TAKE p \in Executing(a, b)
  <2>1. p \in (a + 1)..b /\ \E c \in Client : First(c, p, a, b)
    BY DEF Executing
  <2>2. p > applied
    BY <2>1, FirstExecutes
  <2>3. a \in Nat
    BY DEF Ready
  <2> QED BY <1>1, <2>1, <2>2, <2>3
<1>3. \A m \in 1..n : t[m] \in (applied + 1)..b
  BY <1>1, <1>2
<1>4. \A m \in 0..n : At(t, m) \in applied..b
  BY <1>1, <1>3 DEF At
<1>5. \A j, k \in 1..n : t[j] < t[k] => j < k
  <2> SUFFICES ASSUME NEW j \in 1..n, NEW k \in 1..n, t[j] < t[k] PROVE j < k
    OBVIOUS
  <2>1. t[j] \in Int /\ t[k] \in Int
    BY <1>3
  <2>2. k < j => t[k] < t[j]
    BY <1>1 DEF Increasing
  <2> QED BY <2>1, <2>2
<1>6. ASSUME NEW m \in 1..n
      PROVE  Quiet(a, b, At(t, m - 1), t[m] - 1)
  <2>1. m - 1 \in 0..n /\ (m # 1 => m - 1 \in 1..n /\ m - 1 # 0)
    BY <1>1
  <2>2. At(t, m - 1) < t[m]
    <3>1. CASE m = 1
      <4>1. At(t, m - 1) = applied
        BY <3>1 DEF At
      <4> QED BY <1>1, <1>3, <4>1
    <3>2. CASE m # 1
      <4>1. At(t, m - 1) = t[m - 1]
        BY <2>1, <3>2 DEF At
      <4> QED BY <1>1, <2>1, <3>2, <4>1 DEF Increasing
    <3> QED BY <3>1, <3>2
  <2>3. At(t, m - 1) \in applied..b /\ t[m] - 1 \in At(t, m - 1)..b
    BY <1>1, <1>3, <1>4, <2>1, <2>2
  <2>4. ASSUME NEW p \in Executing(a, b), At(t, m - 1) < p, p <= t[m] - 1
        PROVE  FALSE
    <3>1. PICK j \in 1..n : t[j] = p
      BY <1>1
    <3>2. t[j] < t[m]
      BY <1>1, <1>3, <2>4, <3>1
    <3>3. j < m
      BY <1>5, <3>2
    <3>4. m # 1 /\ t[m - 1] < t[j]
      BY <2>4, <3>1, <3>3 DEF At
    <3>5. m - 1 < j
      BY <1>5, <2>1, <3>4
    <3> QED BY <3>3, <3>5
  <2> QED BY <2>3, <2>4 DEF Quiet
<1>7. ASSUME NEW k \in applied..b
      PROVE  \E m \in 0..n : Quiet(a, b, At(t, m), k)
  <2> DEFINE M == {m \in 1..n : t[m] <= k}
  <2>1. CASE M = {}
    <3>1. \A p \in Executing(a, b) : ~(applied < p /\ p <= k)
      BY <1>1, <2>1
    <3>2. Quiet(a, b, At(t, 0), k)
      BY <1>1, <3>1 DEF Quiet, At
    <3> QED BY <1>1, <3>2
  <2>2. CASE M # {}
    <3>1. M \in SUBSET Nat /\ M \subseteq 1..n
      OBVIOUS
    <3> HIDE DEF M
    <3>2. IsFiniteSet(M)
      <4>1. IsFiniteSet(1..n)
        BY <1>1, FS_Interval
      <4> QED BY <3>1, <4>1, FS_Subset
    <3>3. PICK m \in M : \A j \in M : j <= m
      BY <2>2, <3>1, <3>2, GreatestNat
    <3>4. m \in 1..n /\ m \in 0..n /\ t[m] <= k /\ At(t, m) = t[m]
      BY <1>1 DEF M, At
    <3>5. At(t, m) \in applied..b /\ k \in At(t, m)..b
      BY <1>1, <1>3, <3>4
    <3>6. ASSUME NEW p \in Executing(a, b), At(t, m) < p, p <= k
          PROVE  FALSE
      <4>1. PICK j \in 1..n : t[j] = p
        BY <1>1
      <4>2. j \in M /\ m < j
        BY <1>5, <3>4, <3>6, <4>1 DEF M
      <4> QED BY <3>3, <3>4, <4>2
    <3> QED BY <3>4, <3>5, <3>6 DEF Quiet
  <2> QED BY <2>1, <2>2
<1>8. Quiet(a, b, At(t, n), b)
  <2>1. PICK m \in 0..n : Quiet(a, b, At(t, m), b)
    BY <1>1, <1>7
  <2>2. At(t, n) \in applied..b /\ At(t, m) \in applied..b /\ b \in At(t, n)..b
    BY <1>1, <1>4
  <2>3. At(t, m) <= At(t, n)
    <3>1. CASE m = n
      BY <2>2, <3>1
    <3>2. CASE m # n /\ m = 0
      BY <2>2, <3>2 DEF At
    <3>3. CASE m # n /\ m # 0
      BY <1>1, <1>3, <3>3 DEF At, Increasing
    <3> QED BY <3>1, <3>2, <3>3
  <2>4. \A p \in Executing(a, b) : ~(At(t, n) < p /\ p <= b)
    BY <1>1, <1>2, <2>1, <2>2, <2>3 DEF Quiet
  <2> QED BY <2>2, <2>4 DEF Quiet
<1> QED BY <1>3, <1>6, <1>7, <1>8

---------------------------------------------------------------------------
(* The clients see a single store. *)

\* What the clients see, and what they might read, stays as it is.
SameView ==
    /\ _outstanding' = _outstanding /\ asked_at' = asked_at /\ observed' = observed
    /\ applied' = applied
    /\ \A k \in 0..applied : State(log', k) = State(log, k)

LEMMA Unseen ==
    ASSUME SessionsInv, SameView
    PROVE  UNCHANGED Atomic!atomicvars
<1>1. applied \in Nat /\ asked_at \in [Client -> 0..applied]
  BY LogFields DEF SessionsInv, TypesInv
<1>2. \A k \in 0..applied : Replayed(k)' = Replayed(k)
  BY DEF SameView, Replayed, State
<1>3. (Replayed(applied).store)' = Replayed(applied).store
  BY <1>1, <1>2 DEF SameView, Replayed
<1>4. \A c \in Client : Heard(c)' = Heard(c)
  <2> TAKE c \in Client
  <2>1. \A k \in asked_at[c]..applied : k \in 0..applied
    BY <1>1
  <2>2. \A k \in asked_at[c]..applied : Replayed(k)' = Replayed(k)
    BY <1>2, <2>1
  <2> DEFINE key == _outstanding[c].key
  <2>3. {Replayed(k)'.store[key] : k \in asked_at[c]..applied}
            = {Replayed(k).store[key] : k \in asked_at[c]..applied}
    BY <2>2
  <2> QED BY <2>3 DEF SameView, Heard
<1>5. [c \in Client |-> Heard(c)]' = [c \in Client |-> Heard(c)]
  BY <1>4
<1> QED BY <1>3, <1>5 DEF SameView, Atomic!atomicvars

LEMMA InitAtomic == Init => Atomic!Init
<1> SUFFICES ASSUME Init PROVE Atomic!Init
  OBVIOUS
<1>1. Replayed(applied).store = Atomic!EmptyStore
  <2>1. log = <<>> /\ log \in Seq(Commands) /\ applied = 0
    <3>1. log = <<>> /\ applied = 0
      BY DEF Init
    <3> QED BY <3>1
  <2>2. State(log, 0) = KVStateMachine
    BY <2>1, StateSteps
  <2>3. KVStateMachine.store = [k \in Key |-> ""]
    BY DEF KVStateMachine
  <2> QED BY <2>1, <2>2, <2>3 DEF Replayed, State, Atomic!EmptyStore, Atomic!Absent
<1>2. _outstanding = [c \in Client |-> None] /\ observed = [c \in Client |-> ""]
  BY DEF Init
<1>3. [c \in Client |-> Heard(c)] = [c \in Client |-> {}]
  BY <1>2 DEF Heard
<1> QED BY <1>1, <1>2, <1>3 DEF Atomic!Init, Atomic!Absent

LEMMA InvokeAtomic ==
    ASSUME SessionsInv, NEW c \in Client, _invoke(c)
    PROVE  Atomic!Ask(c)
<1>1. SessionsInv'
  BY InvokeSessions
<1>2. /\ _outstanding[c] = None /\ asked_at' = [asked_at EXCEPT ![c] = applied]
      /\ log' = log /\ observed' = observed /\ applied' = applied
  BY DEF _invoke
<1>3. /\ asked_at \in [Client -> 0..applied] /\ _outstanding \in [Client -> Submitted \cup {None}]
      /\ applied \in Nat /\ applied \in applied..applied /\ _outstanding' \in [Client -> Submitted \cup {None}]
  BY <1>1, LogFields DEF SessionsInv, TypesInv
<1>4. PICK o \in Operations :
        _outstanding' = [_outstanding EXCEPT ![c] = Command(c, _next_req[c], o)]
  BY DEF _invoke
<1>5. _outstanding'[c] # None
  <2>1. <<c, _next_req[c]>> \in Requests
    BY DEF _invoke
  <2>2. <<c, _next_req[c]>>[1] = c /\ <<c, _next_req[c]>>[2] = _next_req[c]
    OBVIOUS
  <2>3. Command(c, _next_req[c], o) # None
    BY <2>1, <2>2, SessionsAssumption
  <2> HIDE DEF Command
  <2> QED BY <1>3, <1>4, <2>3
<1>6. \A k : Replayed(k)' = Replayed(k)
  BY <1>2 DEF Replayed
<1>7. \A d \in Client \ {c} : _outstanding'[d] = _outstanding[d] /\ asked_at'[d] = asked_at[d]
  BY <1>2, <1>3, <1>4
<1>8. \A d \in Client \ {c} : Heard(d)' = Heard(d)
  BY <1>2, <1>6, <1>7 DEF Heard
<1>9. Heard(c)' = IF Atomic!IsRead(_outstanding'[c])
                  THEN {Atomic!Result(Replayed(applied).store, _outstanding'[c])}
                  ELSE {}
  <2>1. CASE _outstanding'[c].op = "get"
    <3> DEFINE request == _outstanding'[c]
    <3>1. Atomic!Result(Replayed(applied).store, request) = Replayed(applied).store[request.key]
      BY <2>1 DEF Atomic!Result
    <3>2. Heard(c)' = {Replayed(k).store[request.key] : k \in applied..applied}
      BY <1>2, <1>3, <1>5, <1>6, <2>1 DEF Heard
    <3>3. applied..applied = {applied}
      BY <1>3
    <3>4. Heard(c)' = {Replayed(applied).store[request.key]}
      BY <3>2, <3>3
    <3> QED BY <1>5, <2>1, <3>1, <3>4 DEF Atomic!IsRead
  <2>2. CASE _outstanding'[c].op # "get"
    BY <2>2 DEF Atomic!IsRead, Heard
  <2> QED BY <2>1, <2>2
<1>10. (Replayed(applied).store)' = Replayed(applied).store
  BY <1>2 DEF Replayed
<1> QED BY <1>2, <1>5, <1>7, <1>8, <1>9, <1>10 DEF Atomic!Ask

LEMMA ReadAtomic ==
    ASSUME SessionsInv, NEW i \in Server, NEW c \in Client, _try_serve_read(i, c)
    PROVE  Atomic!Read(c)
<1>1. /\ _outstanding' = [_outstanding EXCEPT ![c] = None]
      /\ observed' = [observed EXCEPT ![c] = apply_read(kv[i], _outstanding[c])]
  BY ServeSessions
<1>2. /\ _outstanding[c] # None /\ _outstanding[c].op = "get"
      /\ last_applied[i] >= asked_at[c]
      /\ log' = log /\ asked_at' = asked_at /\ applied' = applied
  BY DEF _try_serve_read, ViaReadIndex
<1>3. /\ asked_at \in [Client -> 0..applied] /\ last_applied \in [Server -> 0..applied]
      /\ _outstanding = [d \in Client |-> _outstanding[d]]
      /\ observed = [d \in Client |-> observed[d]] /\ applied \in Nat
  BY LogFields DEF SessionsInv, TypesInv
<1>4. observed'[c] \in Heard(c)
  <2>1. observed'[c] = Replayed(last_applied[i]).store[_outstanding[c].key]
    BY <1>1, <1>3 DEF apply_read, SessionsInv, ReplicasAgree
  <2>2. last_applied[i] \in asked_at[c]..applied
    BY <1>2, <1>3
  <2> QED BY <1>2, <2>1, <2>2 DEF Heard
<1>5. \A d \in Client \ {c} : observed'[d] = observed[d] /\ _outstanding'[d] = _outstanding[d]
  BY <1>1, <1>3
<1>6. [d \in Client |-> Heard(d)]' = [[d \in Client |-> Heard(d)] EXCEPT ![c] = {}]
  <2>1. \A k : Replayed(k)' = Replayed(k)
    BY <1>2 DEF Replayed
  <2>2. ASSUME NEW d \in Client \ {c} PROVE Heard(d)' = Heard(d)
    <3>1. _outstanding'[d] = _outstanding[d] /\ asked_at'[d] = asked_at[d] /\ applied' = applied
      BY ONLY <1>2, <1>5
    <3> QED BY ONLY <2>1, <3>1 DEF Heard
  <2>3. Heard(c)' = {}
    BY <1>1, <1>3 DEF Heard
  <2> QED BY <2>2, <2>3
<1>7. (Replayed(applied).store)' = Replayed(applied).store
  BY <1>2 DEF Replayed
<1> QED BY <1>1, <1>2, <1>4, <1>5, <1>6, <1>7 DEF Atomic!Read, Atomic!IsRead

LEMMA FirstIsUnique ==
    ASSUME NEW a \in Nat, NEW b \in Nat, NEW c, NEW p, NEW q, First(c, p, a, b), First(c, q, a, b)
    PROVE  p = q
<1>1. p \in (a + 1)..b /\ q \in (a + 1)..b /\ log[p] = log[q]
  BY DEF First
<1>2. CASE p < q
  <2>1. p \in (a + 1)..(q - 1)
    BY <1>1, <1>2
  <2> QED BY <1>1, <2>1 DEF First
<1>3. CASE q < p
  <2>1. q \in (a + 1)..(p - 1)
    BY <1>1, <1>3
  <2> QED BY <1>1, <2>1 DEF First
<1> QED BY <1>1, <1>2, <1>3

\* The client that waits for the m-th request that is executed.
Callers(t, n) == [m \in 1..n |-> log[t[m]].client]

\* The store after each of them.
Stores(t, n) == [m \in 0..n |-> State(log, At(t, m)).store]

LEMMA TurnsExecute ==
    ASSUME SessionsInv, NEW a, NEW b, Ready(a, b), applied <= b, Tells(a, b),
           NEW t, NEW n, Turns(t, n, a, b)
    PROVE  /\ \A m \in 1..n :
                LET c == Callers(t, n)[m]
                IN  /\ c \in Client /\ First(c, t[m], a, b)
                    /\ _outstanding[c] # None
                    /\ Answered(c, Atomic!Result(Stores(t, n)[m - 1], _outstanding[c]))
                    /\ Stores(t, n)[m] = Atomic!Effect(Stores(t, n)[m - 1], _outstanding[c])
           /\ \A j, m \in 1..n : j # m => Callers(t, n)[j] # Callers(t, n)[m]
           /\ \A c \in Client : c \notin Range(Callers(t, n)) => Unanswered(c)
<1> DEFINE callers == Callers(t, n)
           h == Stores(t, n)
<1>1. /\ n \in Nat /\ a \in Nat /\ b \in Nat /\ Increasing(t, n)
      /\ \A m \in 1..n : t[m] \in Executing(a, b)
      /\ \A p \in Executing(a, b) : \E m \in 1..n : t[m] = p
  BY DEF Turns, Ready
<1>2. \A m \in 1..n : callers[m] = log[t[m]].client
  BY DEF Callers
<1>3. \A m \in 0..n : h[m] = State(log, At(t, m)).store
  BY DEF Stores
<1>4. DOMAIN callers = 1..n
  BY DEF Callers
<1> HIDE DEF callers, h
<1>5. ASSUME NEW m \in 1..n
      PROVE  /\ callers[m] \in Client /\ First(callers[m], t[m], a, b)
             /\ _outstanding[callers[m]] # None
             /\ Answered(callers[m], Atomic!Result(h[m - 1], _outstanding[callers[m]]))
             /\ h[m] = Atomic!Effect(h[m - 1], _outstanding[callers[m]])
  <2> DEFINE p == t[m]
  <2>1. p \in Executing(a, b)
    BY <1>1
  <2> HIDE DEF p
  <2>2. PICK c \in Client : First(c, p, a, b)
    BY <2>1 DEF Executing
  <2>3. p \in (a + 1)..b
    BY <2>1 DEF Executing
  <2>4. /\ _outstanding[c] # None /\ log[p].client = c
        /\ State(log, p).store = Atomic!Effect(State(log, p - 1).store, _outstanding[c])
        /\ apply(State(log, p - 1), log[p]).result
             = Atomic!Result(State(log, p - 1).store, _outstanding[c])
    BY <2>2, <2>3, FirstExecutes
  <2>5. callers[m] = c
    BY <1>2, <2>4 DEF p
  <2>6. m \in 0..n /\ m - 1 \in 0..n /\ m # 0
    BY <1>1
  <2>7. Quiet(a, b, At(t, m - 1), p - 1)
    BY BetweenTurns DEF p
  <2>8. State(log, p - 1) = State(log, At(t, m - 1))
    BY <2>7, QuietStretch
  <2>9. State(log, p - 1).store = h[m - 1]
    BY <1>3, <2>6, <2>8
  <2>10. State(log, p).store = h[m]
    BY <1>3, <2>6 DEF At, p
  <2>11. Answered(c, apply(State(log, p - 1), log[p]).result)
    <3>1. log[p] = _outstanding[c]
      BY <2>2 DEF First
    <3>2. PICK q \in (a + 1)..b : First(c, q, a, b) /\ Answered(c, apply(State(log, q - 1), log[q]).result)
      BY <2>3, <3>1 DEF Tells
    <3>3. q = p
      BY <1>1, <2>2, <3>2, FirstIsUnique
    <3> QED BY <3>2, <3>3
  <2> QED BY <2>2, <2>4, <2>5, <2>9, <2>10, <2>11 DEF p
<1>6. ASSUME NEW j \in 1..n, NEW m \in 1..n, j # m
      PROVE  callers[j] # callers[m]
  <2> SUFFICES ASSUME callers[j] = callers[m] PROVE FALSE
    OBVIOUS
  <2>1. First(callers[m], t[j], a, b) /\ First(callers[m], t[m], a, b)
    BY <1>5
  <2>2. t[j] = t[m]
    BY <1>1, <2>1, FirstIsUnique
  <2>3. t[j] \in Int /\ t[m] \in Int
    BY <2>1, <1>1 DEF First
  <2>4. (j < m => t[j] < t[m]) /\ (m < j => t[m] < t[j])
    BY <1>1 DEF Increasing
  <2> QED BY <1>6, <2>2, <2>3, <2>4
<1>7. ASSUME NEW c \in Client, c \notin Range(callers)
      PROVE  Unanswered(c)
  <2> SUFFICES ASSUME ~Unanswered(c) PROVE FALSE
    OBVIOUS
  <2>1. PICK p \in (a + 1)..b : First(c, p, a, b)
    BY DEF Tells
  <2>2. p \in Executing(a, b)
    BY <2>1 DEF Executing
  <2>3. PICK m \in 1..n : t[m] = p
    BY <1>1, <2>2
  <2>4. log[p].client = c
    BY <2>1, FirstExecutes
  <2>5. callers[m] = c
    BY <1>2, <2>3, <2>4
  <2> QED BY <1>4, <1>7, <2>5 DEF Range
<1> QED BY <1>5, <1>6, <1>7 DEF callers, h

\* Where no request is executed, the clients see nothing.
LEMMA QuietAtomic ==
    ASSUME SessionsInv, NEW a, NEW b, Ready(a, b), Tells(a, b), Executing(a, b) = {},
           applied' = (IF b > applied THEN b ELSE applied), log' = log, asked_at' = asked_at
    PROVE  UNCHANGED Atomic!atomicvars
<1>1. \A c \in Client : Unanswered(c)
  BY DEF Tells, Executing
<1>2. _outstanding' = _outstanding /\ observed' = observed
  <2>1. /\ _outstanding = [c \in Client |-> _outstanding[c]]
        /\ observed = [c \in Client |-> observed[c]]
    BY DEF SessionsInv, TypesInv
  <2>2. /\ _outstanding' = [c \in Client |-> _outstanding'[c]]
        /\ observed' = [c \in Client |-> observed'[c]]
    BY DEF Tells, ClientsAreFunctions
  <2>3. \A c \in Client : _outstanding'[c] = _outstanding[c] /\ observed'[c] = observed[c]
    BY <1>1 DEF Unanswered
  <2> QED BY <2>1, <2>2, <2>3
<1>3. /\ applied \in Nat /\ b \in Nat /\ applied' \in Nat /\ applied <= applied'
      /\ asked_at \in [Client -> 0..applied]
  BY DEF SessionsInv, TypesInv, Ready
<1>4. \A k \in applied..applied' : State(log, k) = State(log, applied)
  <2> TAKE k \in applied..applied'
  <2>1. CASE b <= applied
    BY <1>3, <2>1
  <2>2. CASE b > applied
    <3>1. Quiet(a, b, applied, k)
      BY <1>3, <2>2 DEF Quiet
    <3> QED BY <3>1, QuietStretch
  <2> QED BY <1>3, <2>1, <2>2
<1>5. \A k \in applied..applied' : Replayed(k) = Replayed(applied)
  BY <1>4 DEF Replayed, State
<1>6. \A k : Replayed(k)' = Replayed(k)
  BY DEF Replayed
<1>7. (Replayed(applied).store)' = Replayed(applied).store
  <2>1. applied' \in applied..applied'
    BY <1>3
  <2> QED BY <1>5, <2>1 DEF Replayed
<1>8. \A c \in Client : Heard(c)' = Heard(c)
  <2> TAKE c \in Client
  <2> DEFINE key == _outstanding[c].key
  <2>1. /\ asked_at[c] \in Nat /\ asked_at[c] <= applied
        /\ applied \in asked_at[c]..applied
    BY <1>3
  <2>2. \A k \in asked_at[c]..applied' : k \in asked_at[c]..applied \/ k \in applied..applied'
    BY <1>3, <2>1
  <2>3. \A k \in asked_at[c]..applied : k \in asked_at[c]..applied'
    BY <1>3, <2>1
  <2>4. {Replayed(k).store[key] : k \in asked_at[c]..applied'}
          = {Replayed(k).store[key] : k \in asked_at[c]..applied}
    BY <1>5, <2>1, <2>2, <2>3
  <2>5. {Replayed(k)'.store[key] : k \in asked_at[c]..applied'}
          = {Replayed(k).store[key] : k \in asked_at[c]..applied}
    BY <1>6, <2>4
  <2> QED BY <1>2, <2>5 DEF Heard
<1>9. [c \in Client |-> Heard(c)]' = [c \in Client |-> Heard(c)]
  BY <1>8
<1> QED BY <1>2, <1>7, <1>9 DEF Atomic!atomicvars

\* The states between two turns are those that the turns leave.
LEMMA StoresBetween ==
    ASSUME SessionsInv, NEW a, NEW b, Ready(a, b), applied <= b,
           NEW t, NEW n, Turns(t, n, a, b)
    PROVE  /\ \A k \in applied..b : \E m \in 0..n : Replayed(k).store = Stores(t, n)[m]
           /\ \A m \in 0..n : \E k \in applied..b : Replayed(k).store = Stores(t, n)[m]
           /\ Replayed(b).store = Stores(t, n)[n]
           /\ Stores(t, n)[0] = Replayed(applied).store
<1>1. n \in Nat /\ n \in 0..n /\ 0 \in 0..n /\ applied \in Nat /\ b \in Nat /\ applied \in applied..b
  BY DEF Turns, Ready
<1>2. \A m \in 0..n : Stores(t, n)[m] = Replayed(At(t, m)).store
  BY DEF Stores, Replayed, State
<1>3. \A m \in 0..n : At(t, m) \in applied..b
  <2>1. \A m \in 1..n : t[m] \in (applied + 1)..b
    BY BetweenTurns
  <2>2. \A m \in 0..n : m = 0 \/ m \in 1..n
    BY <1>1
  <2> QED BY <1>1, <2>1, <2>2 DEF At
<1>4. \A x, y : Quiet(a, b, x, y) => Replayed(y) = Replayed(x)
  <2>1. \A x, y : Quiet(a, b, x, y) => State(log, y) = State(log, x)
    BY QuietStretch
  <2> QED BY <2>1 DEF Replayed, State
<1>5. \A k \in applied..b : \E m \in 0..n : Quiet(a, b, At(t, m), k)
  BY BetweenTurns
<1>6. Quiet(a, b, At(t, n), b)
  BY BetweenTurns
<1>7. At(t, 0) = applied
  BY DEF At
<1> QED BY <1>1, <1>2, <1>3, <1>4, <1>5, <1>6, <1>7

LEMMA ExecuteAtomic ==
    ASSUME SessionsInv, NEW a, NEW b, Ready(a, b), applied <= b, Tells(a, b), Executing(a, b) # {},
           applied' = b, log' = log, asked_at' = asked_at
    PROVE  Atomic!Next
<1>1. PICK n, t : Turns(t, n, a, b)
  BY InOrder
<1> DEFINE callers == Callers(t, n)
           h == Stores(t, n)
           done == Range(callers)
<1>2. /\ n \in Nat /\ n \in 1..n /\ callers = [m \in 1..n |-> callers[m]]
      /\ h = [m \in 0..n |-> h[m]]
  <2>1. PICK p \in Executing(a, b) : TRUE
    OBVIOUS
  <2>2. n \in Nat /\ \E m \in 1..n : t[m] = p
    BY <1>1 DEF Turns
  <2>3. n \in 1..n
    BY <2>2
  <2> QED BY <2>2, <2>3 DEF Callers, Stores
<1>3. \A m \in 1..n :
        /\ callers[m] \in Client
        /\ _outstanding[callers[m]] # None
        /\ Answered(callers[m], Atomic!Result(h[m - 1], _outstanding[callers[m]]))
        /\ h[m] = Atomic!Effect(h[m - 1], _outstanding[callers[m]])
  BY <1>1, TurnsExecute
<1>4. \A j, m \in 1..n : j # m => callers[j] # callers[m]
  BY <1>1, TurnsExecute
<1>5. \A c \in Client : c \notin done => Unanswered(c)
  BY <1>1, TurnsExecute
<1>6. /\ \A k \in applied..b : \E m \in 0..n : Replayed(k).store = h[m]
      /\ \A m \in 0..n : \E k \in applied..b : Replayed(k).store = h[m]
      /\ Replayed(b).store = h[n]
      /\ h[0] = Replayed(applied).store
  BY <1>1, StoresBetween
<1> HIDE DEF callers, h
<1>7. /\ callers \in [1..n -> Client] /\ DOMAIN callers = 1..n /\ Len(callers) = n
      /\ done \subseteq Client /\ done # {} /\ callers \in [1..n -> done]
      /\ \A c \in done : \E m \in 1..n : callers[m] = c
  <2>1. callers \in [1..n -> Client]
    BY <1>2, <1>3
  <2>2. DOMAIN callers = 1..n /\ Len(callers) = n
    BY <1>2, <2>1, FunctionIsSeq
  <2> QED BY <1>2, <2>1, <2>2 DEF Range
<1>8. Cardinality(done) = n
  <2>1. callers \in Bijection(1..n, done)
    BY <1>4, <1>7 DEF Bijection, Injection, Surjection, IsInjective
  <2>2. ExistsBijection(1..n, done)
    BY <2>1 DEF ExistsBijection
  <2>3. IsFiniteSet(1..n) /\ Cardinality(1..n) = n
    BY <1>2, FS_Interval
  <2> HIDE DEF done
  <2> QED BY <2>2, <2>3, FS_Bijection
<1>9. Atomic!Range(callers) = done
  BY DEF Atomic!Range, Range
<1>10. callers \in Atomic!SetToSeqs(done)
  <2> HIDE DEF done
  <2>1. callers \in [1..Cardinality(done) -> done]
    BY <1>7, <1>8
  <2>2. \A i, j \in 1..Cardinality(done) : i # j => callers[i] # callers[j]
    BY <1>4, <1>8
  <2>3. Atomic!Cardinality(done) = Cardinality(done)
    BY DEF Atomic!Cardinality, Cardinality
  <2> QED BY ONLY <2>1, <2>2, <2>3 DEF Atomic!SetToSeqs
<1>11. Atomic!Executed(callers) = h
  <2>1. h[0] = Replayed(applied).store
    BY <1>6
  <2>2. \A k \in 1..n : h[k] = Atomic!Effect(h[k - 1], _outstanding[callers[k]])
    BY <1>3
  <2>3. n \in Nat /\ Len(callers) = n /\ h = [k \in 0..n |-> h[k]]
    BY <1>2, <1>7
  <2> QED BY ONLY <2>1, <2>2, <2>3, ExecutedIs
<1>12. \A c \in Client : c \in done => _outstanding[c] # None /\ _outstanding'[c] = None
  BY <1>3, <1>7 DEF Answered
<1>13. \A m \in 1..n : observed'[callers[m]] = Atomic!Result(h[m - 1], _outstanding[callers[m]])
  BY <1>3 DEF Answered
<1>14. \A c \in Client : c \notin done => _outstanding'[c] = _outstanding[c] /\ observed'[c] = observed[c]
  BY <1>5 DEF Unanswered
<1> HIDE DEF done
<1>15. _outstanding' = [c \in Client |-> IF c \in done THEN None ELSE _outstanding[c]]
  BY <1>12, <1>14 DEF Tells, ClientsAreFunctions
<1>16. (Replayed(applied).store)' = h[n]
  BY <1>6 DEF Replayed
<1>17. \A c \in Client :
         Heard(c)' = IF Atomic!IsRead(_outstanding'[c])
                     THEN Heard(c) \cup {Atomic!Result(h[k], _outstanding[c]) : k \in DOMAIN h}
                     ELSE {}
  <2> TAKE c \in Client
  <2>1. CASE c \in done
    <3>1. _outstanding'[c] = None
      BY <1>12, <2>1
    <3> QED BY <3>1 DEF Heard, Atomic!IsRead
  <2>2. CASE c \notin done
    <3>1. _outstanding'[c] = _outstanding[c]
      BY <1>14, <2>2
    <3>2. CASE ~Atomic!IsRead(_outstanding[c])
      BY <3>1, <3>2 DEF Heard, Atomic!IsRead
    <3>3. CASE Atomic!IsRead(_outstanding[c])
      <4> DEFINE key == _outstanding[c].key
      <4>1. _outstanding[c] # None /\ _outstanding[c].op = "get"
        BY <3>3 DEF Atomic!IsRead
      <4>2. \A store : Atomic!Result(store, _outstanding[c]) = store[key]
        BY <4>1 DEF Atomic!Result
      <4>3. \A k : Replayed(k)' = Replayed(k)
        BY DEF Replayed
      <4>4. Heard(c)' = {Replayed(k)'.store[key] : k \in asked_at[c]..b}
        BY <3>1, <4>1 DEF Heard
      <4>5. Heard(c)' = {Replayed(k).store[key] : k \in asked_at[c]..b}
        BY <4>3, <4>4
      <4>6. Heard(c) = {Replayed(k).store[key] : k \in asked_at[c]..applied}
        BY <4>1 DEF Heard
      <4>7. DOMAIN h = 0..n
        BY <1>2
      <4>8. {Atomic!Result(h[k], _outstanding[c]) : k \in DOMAIN h} = {h[m][key] : m \in 0..n}
        BY <4>2, <4>7
      <4>9. /\ asked_at[c] \in Nat /\ asked_at[c] <= applied /\ applied \in Nat /\ b \in Nat
        BY DEF SessionsInv, TypesInv, Ready
      <4>10. /\ \A k \in asked_at[c]..b : k \in asked_at[c]..applied \/ k \in applied..b
             /\ \A k \in asked_at[c]..applied : k \in asked_at[c]..b
             /\ \A k \in applied..b : k \in asked_at[c]..b
        BY <4>9
      <4> DEFINE V(k) == Replayed(k).store[key]
                 W(m) == h[m][key]
      <4>11. /\ \A k \in applied..b : \E m \in 0..n : V(k) = W(m)
             /\ \A m \in 0..n : \E k \in applied..b : V(k) = W(m)
        BY <1>6
      <4> HIDE DEF V, W
      <4>12. {V(k) : k \in asked_at[c]..b}
                = {V(k) : k \in asked_at[c]..applied} \cup {W(m) : m \in 0..n}
        BY <4>10, <4>11
      <4> USE DEF V, W
      <4>13. Heard(c)' = Heard(c) \cup {h[m][key] : m \in 0..n}
        BY <4>5, <4>6, <4>12
      <4> QED BY <3>1, <3>3, <4>8, <4>13
    <3> QED BY <3>2, <3>3
  <2> QED BY <2>1, <2>2
<1>18. [c \in Client |-> Heard(c)]'
         = [c \in Client |->
              IF Atomic!IsRead(_outstanding'[c])
              THEN [d \in Client |-> Heard(d)][c]
                    \cup {Atomic!Result(h[k], _outstanding[c]) : k \in DOMAIN h}
              ELSE {}]
  BY <1>17
<1>19. Atomic!Execute(callers)
  BY <1>7, <1>9, <1>11, <1>12, <1>13, <1>14, <1>15, <1>16, <1>18 DEF Atomic!Execute
<1>20. done \in (SUBSET Client) \ {{}}
  BY <1>7
<1> QED BY <1>10, <1>19, <1>20 DEF Atomic!Next

LEMMA StepAtomic ==
    ASSUME SessionsInv, [Next]_vars
    PROVE  [Atomic!Next]_(Atomic!atomicvars)
<1> USE DEF SessionsInv
<1>1. ASSUME NEW c \in Client, _invoke(c) PROVE Atomic!Next
  BY <1>1, InvokeAtomic DEF Atomic!Next
<1>2. ASSUME NEW cmd \in {u \in Unfinished : ~ViaReadIndex(u)} \cup ToSet(log) \cup {Noop}, Commit(cmd)
      PROVE  UNCHANGED Atomic!atomicvars
  <2>1. Grown(log, log')
    BY <1>2, CommitSessions DEF Commit
  <2>2. \A k \in 0..Len(log) : State(log', k) = State(log, k)
    BY ONLY <2>1, StatesStay
  <2>3. applied \in 0..Len(log) /\ Len(log) \in Nat
    BY LogFields DEF TypesInv
  <2>4. SameView
    BY <1>2, <2>2, <2>3 DEF Commit, SameView
  <2> QED BY <2>4, Unseen
<1>3. ASSUME NEW i \in Server, NEW index \in 1..Len(log), _set_commit_index(i, index)
      PROVE  Atomic!Next \/ UNCHANGED Atomic!atomicvars
  <2> DEFINE a == last_applied[i]
  <2>1. /\ Tells(a, index) /\ a \in 0..applied /\ applied \in 0..Len(log) /\ Len(log) \in Nat
        /\ index > a
    BY <1>3, Applies
  <2>2. /\ applied' = (IF index > applied THEN index ELSE applied)
        /\ log' = log /\ asked_at' = asked_at
    BY <1>3 DEF _set_commit_index
  <2>3. Ready(a, index)
    BY <2>1 DEF Ready, TypesInv
  <2> HIDE DEF a
  <2>4. CASE Executing(a, index) = {}
    BY <2>1, <2>2, <2>3, <2>4, QuietAtomic
  <2>5. CASE Executing(a, index) # {}
    <3>1. PICK p \in (a + 1)..index : \E c \in Client : First(c, p, a, index)
      BY <2>5 DEF Executing
    <3>2. p > applied
      BY <2>3, <3>1, FirstExecutes
    <3>3. applied <= index /\ applied' = index
      BY <2>1, <2>2, <3>1, <3>2
    <3> QED BY <2>1, <2>2, <2>3, <2>5, <3>3, ExecuteAtomic
  <2> QED BY <2>4, <2>5
<1>4. ASSUME NEW i \in Server, NEW c \in Client, _try_serve_read(i, c) PROVE Atomic!Next
  BY <1>4, ReadAtomic DEF Atomic!Next
<1>5. ASSUME \/ \E i \in Server : _reset_volatile(i)
             \/ \E i, j \in Server : _on_install_snapshot(i, j)
             \/ UNCHANGED vars
      PROVE  UNCHANGED Atomic!atomicvars
  <2>1. SameView
    BY <1>5 DEF SameView, _reset_volatile, _on_install_snapshot, vars
  <2> QED BY <2>1, Unseen
<1> QED BY <1>1, <1>2, <1>3, <1>4, <1>5 DEF Next

(***************************************************************************)
(* To its clients the cluster is a single store that executes every        *)
(* request exactly once while its client waits, and tells nobody the       *)
(* result of another request (KVStateMachine.apply, Cluster._on_apply).    *)
(***************************************************************************)
THEOREM ExactlyOnce == Spec => ImplementsAtomicStore
<1>1. SessionsInv /\ [Next]_vars => [Atomic!Next]_(Atomic!atomicvars)
  BY StepAtomic
<1> QED BY InitSessions, StepSessions, InitAtomic, <1>1, PTL
        DEF Spec, ImplementsAtomicStore, Atomic!Spec
=============================================================================
