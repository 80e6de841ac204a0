--------------------------- MODULE ClientSessions ---------------------------
(***************************************************************************)
(* From the replicated log to the clients: the key-value state machine of  *)
(* every server with its table of client sessions (raftverified/kv.py),    *)
(* what servers do with it when they commit, compact, crash and install    *)
(* snapshots (node.py), and the client driver that hears of the results    *)
(* (cluster.py).                                                           *)
(*                                                                         *)
(* What Raft guarantees is taken from the other modules: there is one log  *)
(* of committed commands, which only grows (ReplicatedLog), and a          *)
(* ReadIndex read is served from a state that has everything committed     *)
(* when the read was asked for (RaftCluster!ReadsAreFresh).  The log may   *)
(* hold a request any number of times, early and late.                     *)
(***************************************************************************)
EXTENDS Integers, FiniteSets, SequencesExt

CONSTANTS
    Server,
    Client,
    Key,
    Operations,         \* what a client may ask for: records op, key, value, expected
    SnapshotThreshold,  \* RaftConfig.snapshot_threshold
    None,               \* stands for Python's None
    Requests,           \* bound: the <<client, request>> pairs that may be invoked
    MaxLog              \* bound: length of the committed log

VARIABLES
    _read_index,    \* Cluster._read_index: whether GETs are ReadIndex reads
    log,            \* the committed commands
    kv,             \* the state machine of every server
    last_applied,   \* how much of the log it has applied
    snapshot,       \* the persistent image of every server
    _outstanding,   \* the unfinished operation of each client
    _next_req,      \* the next request id of each client
    observed,       \* what each client was last told (HistoryEntry.observed)
    asked_at,       \* how much was applied anywhere when the client last asked
    applied         \* how much was ever applied anywhere

vars == <<_read_index, log, kv, last_applied, snapshot, _outstanding, _next_req, observed,
          asked_at, applied>>
servers == <<kv, last_applied, snapshot>>

\* What Command.decode makes of a configuration entry, or of any other string.
Noop == [client |-> None, req |-> -1, op |-> "noop"]
is_structured(cmd) == cmd.op # "noop"

\* A client's request.
Command(c, req, o) ==
    [client |-> c, req |-> req, op |-> o.op,
     key |-> o.key, value |-> o.value, expected |-> o.expected]

ASSUME SessionsAssumption ==
    /\ SnapshotThreshold \in Nat
    /\ None \notin Client \cup {Noop}
    /\ \A o \in Operations : o.op \in {"put", "get", "cas"}
    /\ Requests \subseteq Client \X Nat /\ MaxLog \in Nat
    /\ \A q \in Requests, o \in Operations : Command(q[1], q[2], o) # None

---------------------------------------------------------------------------
(* class KVStateMachine *)

NoSession == [req |-> -1, result |-> ""]
KVStateMachine ==
    [store |-> [k \in Key |-> ""], sessions |-> [c \in Client |-> NoSession]]

_execute(store, cmd) ==
    CASE cmd.op = "put" ->
            [store |-> [store EXCEPT ![cmd.key] = cmd.value], result |-> "ok"]
      [] cmd.op = "get" -> [store |-> store, result |-> store[cmd.key]]
      [] cmd.op = "cas" ->
            IF store[cmd.key] = cmd.expected
            THEN [store |-> [store EXCEPT ![cmd.key] = cmd.value], result |-> "ok"]
            ELSE [store |-> store, result |-> "fail"]

IsDuplicateBug(state, cmd) == cmd.req < state.sessions[cmd.client].req  \* bug: off by one
is_duplicate(state, cmd) == cmd.req <= state.sessions[cmd.client].req

\* The state after a command, and the result that is passed to on_apply.
apply(state, cmd) ==
    IF ~is_structured(cmd) THEN [kv |-> state, result |-> ""]
    ELSE IF is_duplicate(state, cmd)
    THEN [kv |-> state, result |-> state.sessions[cmd.client].result]
    ELSE LET done == _execute(state.store, cmd)
         IN  [kv |-> [store |-> done.store,
                      sessions |-> [state.sessions EXCEPT
                          ![cmd.client] = [req |-> cmd.req, result |-> done.result]]],
              result |-> done.result]

apply_read(state, cmd) == state.store[cmd.key]

NoSnapshot == [last_index |-> 0, image |-> KVStateMachine]
\* Both copy: what a server does to its store later does not reach the image.
capture(state) == state
RestoreBug(image) ==                \* bug: the sessions are not part of the image
    [store |-> image.store, sessions |-> KVStateMachine.sessions]
restore(image) == image

---------------------------------------------------------------------------
(* The client driver. *)

Init ==
    /\ _read_index \in BOOLEAN
    /\ log = <<>>
    /\ kv = [i \in Server |-> KVStateMachine]
    /\ last_applied = [i \in Server |-> 0]
    /\ snapshot = [i \in Server |-> NoSnapshot]
    /\ _outstanding = [c \in Client |-> None]
    /\ _next_req = [c \in Client |-> 0]
    /\ observed = [c \in Client |-> ""]
    /\ asked_at = [c \in Client |-> 0]
    /\ applied = 0

\* An idle client's turn: it invokes its next operation.
_invoke(c) ==
    /\ _outstanding[c] = None
    /\ <<c, _next_req[c]>> \in Requests
    /\ \E o \in Operations :
          _outstanding' = [_outstanding EXCEPT ![c] = Command(c, _next_req[c], o)]
    /\ asked_at' = [asked_at EXCEPT ![c] = applied]
    /\ UNCHANGED <<_read_index, log, servers, _next_req, observed, applied>>

Unfinished == {_outstanding[c] : c \in Client} \ {None}
ViaReadIndex(cmd) == _read_index /\ cmd.op = "get"

\* The reports of one event, in order: <<command, result>> pairs.
Answers(waiting, cmd) == waiting = cmd

_on_apply(reports) ==
    LET first(c) ==
            LET mine == {k \in DOMAIN reports : Answers(_outstanding[c], reports[k].cmd)}
            IN  IF mine = {} THEN 0 ELSE CHOOSE k \in mine : \A j \in mine : k <= j
    IN  /\ _outstanding' = [c \in Client |-> IF first(c) = 0 THEN _outstanding[c] ELSE None]
        /\ _next_req' = [c \in Client |-> IF first(c) = 0 THEN _next_req[c] ELSE _next_req[c] + 1]
        /\ observed' = [c \in Client |->
               IF first(c) = 0 THEN observed[c] ELSE reports[first(c)].result]

---------------------------------------------------------------------------
(* The servers.  One that is down commits nothing until it comes back with  *)
(* what _reset_volatile left it, so that it is down is not kept apart.      *)

\* A command is committed: a try of a client, a copy of an earlier one, or a
\* configuration entry.
Commit(cmd) ==
    /\ Len(log) < MaxLog
    /\ log' = Append(log, cmd)
    /\ UNCHANGED <<_read_index, servers, _outstanding, _next_req, observed, asked_at, applied>>

\* The state machine after each of some commands, from state on.
Machines(state, commands) ==
    LET machine[k \in 0..Len(commands)] ==
            IF k = 0 THEN state ELSE apply(machine[k - 1], commands[k]).kv
    IN  machine

\* What comes of it when a server applies the log from its own state.
Applying(i, index) ==
    LET commands == SubSeq(log, last_applied[i] + 1, index)
        machine == Machines(kv[i], commands)
    IN  [kv |-> machine[Len(commands)],
         reports |-> [k \in DOMAIN commands |->
            [cmd |-> commands[k], result |-> apply(machine[k - 1], commands[k]).result]]]

_maybe_compact(i, state, index) ==
    IF SnapshotThreshold <= 0 \/ index - snapshot[i].last_index < SnapshotThreshold
    THEN snapshot
    ELSE [snapshot EXCEPT ![i] = [last_index |-> index, image |-> capture(state)]]

_set_commit_index(i, index) ==
    /\ index > last_applied[i]
    /\ LET run == Applying(i, index)
       IN  /\ kv' = [kv EXCEPT ![i] = run.kv]
           /\ _on_apply(run.reports)
           /\ snapshot' = _maybe_compact(i, run.kv, index)
    /\ last_applied' = [last_applied EXCEPT ![i] = index]
    /\ applied' = IF index > applied THEN index ELSE applied
    /\ UNCHANGED <<_read_index, log, asked_at>>

\* A confirmed read is served from the state of a server that is recent enough.
_try_serve_read(i, c) ==
    /\ _outstanding[c] # None
    /\ ViaReadIndex(_outstanding[c])
    /\ last_applied[i] >= asked_at[c]
    /\ _on_apply(<<[cmd |-> _outstanding[c], result |-> apply_read(kv[i], _outstanding[c])]>>)
    /\ UNCHANGED <<_read_index, log, servers, asked_at, applied>>

\* pause: the state machine is rebuilt from the snapshot.
_reset_volatile(i) ==
    /\ kv' = [kv EXCEPT ![i] = restore(snapshot[i].image)]
    /\ last_applied' = [last_applied EXCEPT ![i] = snapshot[i].last_index]
    /\ UNCHANGED <<_read_index, log, snapshot, _outstanding, _next_req, observed, asked_at, applied>>

\* Server i receives the snapshot of server j, now or late.  No client hears of it.
_on_install_snapshot(i, j) ==
    /\ snapshot[j].last_index > snapshot[i].last_index
    /\ kv' = [kv EXCEPT ![i] = restore(snapshot[j].image)]
    /\ snapshot' = [snapshot EXCEPT ![i] = snapshot[j]]
    /\ last_applied' = [last_applied EXCEPT ![i] = snapshot[j].last_index]
    /\ UNCHANGED <<_read_index, log, _outstanding, _next_req, observed, asked_at, applied>>

Next ==
    \/ \E c \in Client : _invoke(c)
    \/ \E cmd \in {u \in Unfinished : ~ViaReadIndex(u)} \cup ToSet(log) \cup {Noop} : Commit(cmd)
    \/ \E i \in Server :
        \/ \E index \in 1..Len(log) : _set_commit_index(i, index)
        \/ \E c \in Client : _try_serve_read(i, c)
        \/ _reset_volatile(i)
        \/ \E j \in Server : _on_install_snapshot(i, j)

Spec == Init /\ [][Next]_vars

---------------------------------------------------------------------------
\* The state machine after the first k commands of the log.
Replayed(k) == Machines(KVStateMachine, log)[k]

(***************************************************************************)
(* Every server, and every image that a server could be rebuilt from, has  *)
(* the state that the log says, sessions included, whatever crashes and    *)
(* snapshots brought it there.                                             *)
(***************************************************************************)
ReplicasAgree ==
    \A i \in Server :
        /\ kv[i] = Replayed(last_applied[i])
        /\ snapshot[i].image = Replayed(snapshot[i].last_index)

\* What a client that waits for a read might see, from when it asked until now.
Heard(c) ==
    IF _outstanding[c] # None /\ _outstanding[c].op = "get"
    THEN {Replayed(k).store[_outstanding[c].key] : k \in asked_at[c]..applied}
    ELSE {}

Atomic == INSTANCE AtomicStore WITH
    Caller <- Client,
    Nothing <- None,
    store <- Replayed(applied).store,
    asked <- _outstanding,
    told <- observed,
    heard <- [c \in Client |-> Heard(c)]

(***************************************************************************)
(* To its clients the cluster is a single store that executes every        *)
(* request exactly once while its client waits: a retry that is committed  *)
(* as well changes nothing, nobody is told the result of another request,  *)
(* and a server that replays the log after a crash tells nobody anything   *)
(* new (KVStateMachine.apply, Cluster._on_apply).                          *)
(***************************************************************************)
ImplementsAtomicStore == Atomic!Spec
=============================================================================
