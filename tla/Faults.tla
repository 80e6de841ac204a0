------------------------------- MODULE Faults -------------------------------
(***************************************************************************)
(* Faults and their recoveries in one simulated run: the event queue of    *)
(* raftverified/sim.py, the state of its network, the random fault driver  *)
(* of cluster.py and the nemesis schedules of nemesis.py.                  *)
(*                                                                         *)
(* A run is a record.  The events kept in its queue are those that inject  *)
(* a fault, end one, or let the random driver draw; messages and timers of *)
(* the servers are RaftCluster's.  Who is believed to lead is given.       *)
(***************************************************************************)
EXTENDS Integers, FiniteSets, Sequences

CONSTANTS
    num_nodes,      \* the size of the cluster
    FAULT_INTERVAL, \* ms between decisions of the random driver
    ResumeDelays,   \* how long the random driver lets a server be down
    None

ASSUME FaultsAssumption ==
    /\ num_nodes \in Nat \ {0}
    /\ FAULT_INTERVAL \in Nat \ {0}
    /\ ResumeDelays \subseteq Nat \ {0}

Node == 0..(num_nodes - 1)
frozenset(a, b) == {a, b}
_crash_limit == (num_nodes - 1) \div 2

---------------------------------------------------------------------------
(* Nemesis patterns, and their expansion into injections. *)

PartitionHalves(at, duration) ==
    [pattern |-> "partition_halves", at |-> at, duration |-> duration]
IsolateLeader(at, duration) ==
    [pattern |-> "isolate_leader", at |-> at, duration |-> duration]
FlappingLink(a, b, at, period, cycles) ==
    [pattern |-> "flapping_link", a |-> a, b |-> b, at |-> at, duration |-> period,
     cycles |-> cycles]
LossyLink(a, b, at, duration) ==
    [pattern |-> "lossy_link", a |-> a, b |-> b, at |-> at, duration |-> duration]
CrashNode(node, at, duration) ==
    [pattern |-> "crash_node", node |-> node, at |-> at, duration |-> duration]

Planned(at, op, declared) == [at |-> at, op |-> op, declared |-> declared]

\* Each down-flap of a flapping link is an injection of its own.
Expanded(op, declared) ==
    IF op.pattern = "flapping_link"
    THEN {Planned(op.at + 2 * op.duration * i, op, declared) : i \in 0..(op.cycles - 1)}
    ELSE {Planned(op.at, op, declared)}

injections(ops) == UNION {Expanded(ops[k], k) : k \in DOMAIN ops}

FiresFirst(x, y) == x.at < y.at \/ (x.at = y.at /\ x.declared < y.declared)
\* The position of an injection among all of them, sorted.
Place(x, all) == Cardinality({y \in all : FiresFirst(y, x)})

---------------------------------------------------------------------------
(***************************************************************************)
(* The simulator: events in the order of their times, and of their         *)
(* scheduling when the times are equal.                                    *)
(***************************************************************************)
schedule(run, delay, fn) ==
    [run EXCEPT !._heap = @ \cup {[at |-> run.now + delay, seq |-> run._seq, fn |-> fn]},
                !._seq = @ + 1]

LatestOfInstant(heap) ==            \* bug: ties are broken the other way round
    CHOOSE e \in heap : \A f \in heap : e.at < f.at \/ (e.at = f.at /\ e.seq >= f.seq)
NextEvent(heap) ==
    CHOOSE e \in heap : \A f \in heap : e.at < f.at \/ (e.at = f.at /\ e.seq <= f.seq)

Popped(run) ==
    LET e == NextEvent(run._heap)
    IN  [run EXCEPT !._heap = @ \ {e}, !.now = e.at, !.steps = @ + 1]

\* A run before its first step: every injection is scheduled up front, in sorted order.
\* `fired' remembers those that took their turn.
Start(ops, chaos, suppressed) ==
    LET fresh == [now |-> 0, steps |-> 0, _heap |-> {}, _seq |-> 0, fired |-> <<>>,
                  _group |-> [i \in Node |-> 0], crashed |-> {}, down_links |-> {},
                  lossy_links |-> {}, _fault_seq |-> 0, _suppressed |-> suppressed]
        driven == IF chaos THEN schedule(fresh, FAULT_INTERVAL, [kind |-> "fault_tick"])
                           ELSE fresh
        all == injections(ops)
    IN  [driven EXCEPT
            !._heap = @ \cup {[at |-> inj.at, seq |-> driven._seq + Place(inj, all),
                               fn |-> [kind |-> "inject", injection |-> inj]] : inj \in all},
            !._seq = @ + Cardinality(all)]

---------------------------------------------------------------------------
(* The controls of the network. *)

is_partitioned(run) == \E i, j \in Node : run._group[i] # run._group[j]
set_partition(run, side) == [run EXCEPT !._group = [i \in Node |-> IF i \in side THEN 0 ELSE 1]]
heal_partition(run) == [run EXCEPT !._group = [i \in Node |-> 0]]
link_down(run, link) == [run EXCEPT !.down_links = @ \cup {link}]
link_up(run, link) == [run EXCEPT !.down_links = @ \ {link}]
set_lossy_link(run, link) == [run EXCEPT !.lossy_links = @ \cup {link}]
clear_lossy_link(run, link) == [run EXCEPT !.lossy_links = @ \ {link}]
pause(run, i) == [run EXCEPT !.crashed = @ \cup {i}]
_maybe_resume(run, i) == [run EXCEPT !.crashed = @ \ {i}]

Recovery(kind, what, ordinal) == [kind |-> kind, what |-> what, ordinal |-> ordinal]

Recover(run, fn) ==
    CASE fn.kind = "heal"    -> heal_partition(run)
      [] fn.kind = "link_up" -> link_up(run, fn.what)
      [] fn.kind = "clear"   -> clear_lossy_link(run, fn.what)
      [] fn.kind = "resume"  -> _maybe_resume(run, fn.what)

---------------------------------------------------------------------------
(***************************************************************************)
(* Every fault takes the next ordinal.  Unless the mask suppresses it, it  *)
(* strikes, and the recovery it is paired with is scheduled.               *)
(***************************************************************************)
_fire_fault(run) == [run EXCEPT !._fault_seq = @ + 1]

OrphanBug(run, struck, delay, recovery) ==          \* bug: recovers what never happened
    schedule(_fire_fault(IF run._fault_seq \in run._suppressed THEN run ELSE struck),
             delay, recovery)
Fault(run, struck, delay, recovery) ==
    IF run._fault_seq \in run._suppressed
    THEN _fire_fault(run)
    ELSE schedule(_fire_fault(struck), delay, recovery)

Halves == {i \in Node : i < (num_nodes + 1) \div 2}

CrashAgainBug(run, i) == TRUE       \* bug: crashes what is down already
MayCrash(run, i) == i \notin run.crashed

\* An injection with nothing to do is skipped and takes no ordinal.
_nemesis_fire(run, op, leader) ==
    LET link == frozenset(op.a, op.b)
        Ends(kind, what) == Recovery(kind, what, run._fault_seq)
    IN  CASE op.pattern = "partition_halves" ->
                IF num_nodes < 2 THEN run
                ELSE Fault(run, set_partition(run, Halves), op.duration, Ends("heal", None))
          [] op.pattern = "isolate_leader" ->
                IF leader = None \/ leader \in run.crashed \/ num_nodes < 2 THEN run
                ELSE Fault(run, set_partition(run, {leader}), op.duration, Ends("heal", None))
          [] op.pattern = "flapping_link" ->
                Fault(run, link_down(run, link), op.duration, Ends("link_up", link))
          [] op.pattern = "lossy_link" ->
                Fault(run, set_lossy_link(run, link), op.duration, Ends("clear", link))
          [] op.pattern = "crash_node" ->
                IF ~MayCrash(run, op.node) THEN run
                ELSE Fault(run, pause(run, op.node), op.duration, Ends("resume", op.node))

(***************************************************************************)
(* A decision of the random driver.  What it draws: whether to heal, the   *)
(* servers on one side of a new partition, a server to crash and for how   *)
(* long.  A heal is no fault, and a partition has no recovery of its own.  *)
(***************************************************************************)
Draws(run) ==
    [heal : BOOLEAN,
     side : {{}} \cup {s \in SUBSET Node : 0 \in s /\ s # Node},
     victim : {None} \cup
        (IF Cardinality(run.crashed) < _crash_limit THEN Node \ run.crashed ELSE {}),
     resume_delay : ResumeDelays]

_fault_tick(run, draw) ==
    LET network ==
            IF is_partitioned(run)
            THEN IF draw.heal THEN heal_partition(run) ELSE run
            ELSE IF draw.side = {} THEN run
            ELSE IF run._fault_seq \in run._suppressed THEN _fire_fault(run)
            ELSE _fire_fault(set_partition(run, draw.side))
        crash ==
            IF draw.victim = None THEN network
            ELSE Fault(network, pause(network, draw.victim), draw.resume_delay,
                       Recovery("resume", draw.victim, network._fault_seq))
    IN  schedule(crash, FAULT_INTERVAL, [kind |-> "fault_tick"])

\* Simulator.step: the runs that the next event may lead to.
Stepped(run, leader) ==
    LET fn == NextEvent(run._heap).fn
        popped == Popped(run)
    IN  CASE fn.kind = "inject" ->
                {[_nemesis_fire(popped, fn.injection.op, leader)
                    EXCEPT !.fired = Append(@, fn.injection)]}
          [] fn.kind = "fault_tick" -> {_fault_tick(popped, draw) : draw \in Draws(popped)}
          [] OTHER -> {Recover(popped, fn)}

---------------------------------------------------------------------------
(* Properties of a run. *)

Pending(run, kind, what) ==
    {e \in run._heap : e.fn.kind = kind /\ e.fn.what = what}

(***************************************************************************)
(* Every fault ends.  A server that is down has exactly one restart        *)
(* coming, so that no crash ends another one's outage, early or never; a   *)
(* link that is down or lossy has its repair coming; and a partition is    *)
(* healed by its schedule or is left to the random driver                  *)
(* (Cluster._fault_tick and _nemesis_fire, "keep a majority alive").       *)
(***************************************************************************)
FaultsEnd(run) ==
    /\ \A i \in run.crashed : Cardinality(Pending(run, "resume", i)) = 1
    /\ \A link \in run.down_links : Pending(run, "link_up", link) # {}
    /\ \A link \in run.lossy_links : Pending(run, "clear", link) # {}
    /\ is_partitioned(run) =>
           \E e \in run._heap : e.fn.kind \in {"heal", "fault_tick"}

(***************************************************************************)
(* A suppressed fault leaves no trace: no recovery is pending that belongs *)
(* to it, and with every ordinal suppressed nothing is impaired            *)
(* (Cluster._nemesis_fire: "a suppressed injection leaves no orphan        *)
(* events").                                                               *)
(***************************************************************************)
Impaired(run) ==
    run.crashed # {} \/ run.down_links # {} \/ run.lossy_links # {} \/ is_partitioned(run)
SuppressedLeaveNoTrace(run) ==
    /\ \A e \in run._heap :
          e.fn.kind \notin {"inject", "fault_tick"} => e.fn.ordinal \notin run._suppressed
    /\ 0..(run._fault_seq - 1) \subseteq run._suppressed => ~Impaired(run)

(***************************************************************************)
(* Injections take their turns in the order of their times, and in the     *)
(* order in which the schedule declares them when the times are equal      *)
(* (NemesisSchedule.injections, Simulator.schedule and step).              *)
(***************************************************************************)
InDeclaredOrder(run) ==
    \A j, k \in DOMAIN run.fired :
        j < k => \/ run.fired[j].at < run.fired[k].at
                 \/ /\ run.fired[j].at = run.fired[k].at
                    /\ run.fired[j].declared <= run.fired[k].declared
=============================================================================
