---------------------------- MODULE ShrinkProofs ----------------------------
(***************************************************************************)
(* Theorems about Faults and Shrink: in every run, faults end, suppressed  *)
(* ones leave no trace and injections keep their order; and what the       *)
(* shrinker returns fails the way the original did, at the earliest step,  *)
(* with faults of which none can be left out.                              *)
(***************************************************************************)
EXTENDS Shrink, FiniteNats

---------------------------------------------------------------------------
(* The invariant of a run. *)

RunFields ==
    {"now", "steps", "_heap", "_seq", "fired", "_group", "crashed", "down_links",
     "lossy_links", "_fault_seq", "_suppressed"}
Ends == {"heal", "link_up", "clear", "resume"}
Kinds == Ends \cup {"inject", "fault_tick"}

AllInjections == UNION {injections(c.ops) : c \in Scenarios}

\* The queue: times and positions of events, no two at the same position.
QueueInv(r) ==
    /\ DOMAIN r = RunFields
    /\ r.now \in Nat /\ r.steps \in Nat /\ r._seq \in Nat /\ r._fault_seq \in Nat
    /\ \A e \in r._heap :
          /\ e.at \in Nat /\ e.seq \in Nat /\ e.seq < r._seq
          /\ e.fn.kind \in Kinds
          /\ e.fn.kind = "inject" => e.fn.injection \in AllInjections
    /\ \A e, f \in r._heap : e.seq = f.seq => e = f

Earlier(x, y) == x.at < y.at \/ (x.at = y.at /\ x.declared <= y.declared)

\* What is still to be injected comes after what was, and keeps its order.
OrderInv(r) ==
    /\ r.fired \in Seq(AllInjections)
    /\ InDeclaredOrder(r)
    /\ \A e \in r._heap : e.fn.kind = "inject" =>
          /\ e.at = e.fn.injection.at
          /\ \A k \in DOMAIN r.fired : Earlier(r.fired[k], e.fn.injection)
    /\ \A e, f \in r._heap :
          e.fn.kind = "inject" /\ f.fn.kind = "inject" /\ e.at = f.at /\ e.seq <= f.seq =>
              e.fn.injection.declared <= f.fn.injection.declared

\* One restart is coming for a server that is down, and none for one that is up.
CrashInv(r) ==
    /\ \A i \in r.crashed : \E e : Pending(r, "resume", i) = {e}
    /\ \A i : i \notin r.crashed => Pending(r, "resume", i) = {}
LinkInv(r) == \A link \in r.down_links : Pending(r, "link_up", link) # {}
LossyInv(r) == \A link \in r.lossy_links : Pending(r, "clear", link) # {}
PartitionInv(r) == is_partitioned(r) => \E e \in r._heap : e.fn.kind \in {"heal", "fault_tick"}

\* All but the partition, which between two draws of the random driver nobody may heal.
DrawingInv(r) ==
    /\ QueueInv(r) /\ OrderInv(r)
    /\ CrashInv(r) /\ LinkInv(r) /\ LossyInv(r)
    /\ SuppressedLeaveNoTrace(r)
RunInv(r) == DrawingInv(r) /\ PartitionInv(r)

NoTicks(r) == \A e \in r._heap : e.fn.kind # "fault_tick"

LEMMA RunInvMeans ==
    ASSUME NEW r, RunInv(r)
    PROVE  FaultsEnd(r) /\ SuppressedLeaveNoTrace(r) /\ InDeclaredOrder(r)
<1>1. ASSUME NEW i \in r.crashed PROVE Cardinality(Pending(r, "resume", i)) = 1
  <2>1. PICK e : Pending(r, "resume", i) = {e}
    BY <1>1 DEF RunInv, DrawingInv, CrashInv
  <2> QED BY <2>1, FS_Singleton
<1> QED BY <1>1 DEF RunInv, DrawingInv, LinkInv, LossyInv, PartitionInv, OrderInv, FaultsEnd

---------------------------------------------------------------------------
(* What injections are. *)

Planning(x) ==
    /\ x.at \in Nat /\ x.declared \in Nat /\ IsPattern(x.op)

LEMMA ImageFinite ==
    ASSUME NEW S, IsFiniteSet(S), NEW f
    PROVE  IsFiniteSet({f[x] : x \in S})
<1> DEFINE T == {f[x] : x \in S}
           g == [x \in S |-> f[x]]
<1>1. g \in Surjection(S, T)
  BY DEF Surjection
<1> QED BY <1>1, FS_Surjection

LEMMA ExpandedInjections ==
    ASSUME NEW c \in Scenarios
    PROVE  /\ IsFiniteSet(injections(c.ops))
           /\ \A x \in injections(c.ops) : Planning(x)
           /\ \A x, y \in injections(c.ops) :
                 x.at = y.at /\ x.declared = y.declared => x = y
<1> DEFINE ops == c.ops
<1>1. /\ DOMAIN ops = 1..Len(ops) /\ Len(ops) \in Nat
      /\ \A k \in DOMAIN ops : IsPattern(ops[k])
  BY ShrinkAssumption
<1> HIDE DEF ops
<1>2. ASSUME NEW k \in DOMAIN ops, NEW x \in Expanded(ops[k], k)
      PROVE  /\ Planning(x) /\ x.declared = k /\ x.op = ops[k]
             /\ x = Planned(x.at, ops[k], k)
  <2>1. ops[k].at \in Nat /\ ops[k].duration \in Nat /\ k \in Nat /\ IsPattern(ops[k])
    BY <1>1 DEF IsPattern
  <2>2. \E t \in Nat : x = Planned(t, ops[k], k)
    <3>1. CASE ops[k].pattern = "flapping_link"
      <4>1. PICK i \in 0..(ops[k].cycles - 1) :
                x = Planned(ops[k].at + 2 * ops[k].duration * i, ops[k], k)
        BY <1>2, <3>1 DEF Expanded
      <4>2. ops[k].cycles \in Nat /\ i \in Nat
        BY <2>1, <3>1 DEF IsPattern
      <4>3. ops[k].at + 2 * ops[k].duration * i \in Nat
        <5>1. 2 * ops[k].duration \in Nat
          BY <2>1
        <5>2. (2 * ops[k].duration) * i \in Nat
          BY <4>2, <5>1
        <5> QED BY <2>1, <5>2
      <4> QED BY <4>1, <4>3
    <3>2. CASE ops[k].pattern # "flapping_link"
      BY <1>2, <2>1, <3>2 DEF Expanded
    <3> QED BY <3>1, <3>2
  <2>3. PICK t \in Nat : x = Planned(t, ops[k], k)
    BY <2>2
  <2>4. x.at = t /\ x.declared = k /\ x.op = ops[k]
    BY <2>3 DEF Planned
  <2> QED BY <2>1, <2>3, <2>4 DEF Planning
<1>3. IsFiniteSet(injections(ops))
  <2>1. ASSUME NEW k \in DOMAIN ops PROVE IsFiniteSet(Expanded(ops[k], k))
    <3>1. CASE ops[k].pattern = "flapping_link"
      <4>1. ops[k].cycles \in Nat
        BY <1>1, <2>1, <3>1 DEF IsPattern
      <4> DEFINE F == [i \in 0..(ops[k].cycles - 1) |->
                          Planned(ops[k].at + 2 * ops[k].duration * i, ops[k], k)]
             S == 0..(ops[k].cycles - 1)
      <4>2. IsFiniteSet(S)
        <5>1. 0 \in Int /\ ops[k].cycles - 1 \in Int
          BY <4>1
        <5> QED BY ONLY <5>1, FS_Interval
      <4>3. Expanded(ops[k], k) = {F[i] : i \in S}
        BY <3>1 DEF Expanded
      <4> HIDE DEF F, S
      <4>4. IsFiniteSet({F[i] : i \in S})
        BY ONLY <4>2, ImageFinite
      <4> QED BY <4>3, <4>4
    <3>2. CASE ops[k].pattern # "flapping_link"
      <4>1. Expanded(ops[k], k) = {Planned(ops[k].at, ops[k], k)}
        BY <3>2 DEF Expanded
      <4> QED BY <4>1, FS_Singleton
    <3> QED BY <3>1, <3>2
  <2> DEFINE G == [k \in DOMAIN ops |-> Expanded(ops[k], k)]
             W == {G[k] : k \in DOMAIN ops}
  <2>2. IsFiniteSet(DOMAIN ops)
    BY <1>1, FS_Interval
  <2>3. \A T \in W : IsFiniteSet(T)
    BY <2>1
  <2>4. injections(ops) = UNION W
    BY DEF injections
  <2> HIDE DEF G
  <2>5. IsFiniteSet(W)
    BY <2>2, ImageFinite
  <2> QED BY <2>3, <2>4, <2>5, FS_UNION
<1>4. \A x \in injections(ops) : \E k \in DOMAIN ops : x \in Expanded(ops[k], k)
  BY DEF injections
<1>5. \A x \in injections(ops) : Planning(x)
  BY <1>2, <1>4
<1>6. ASSUME NEW x \in injections(ops), NEW y \in injections(ops),
             x.at = y.at, x.declared = y.declared
      PROVE  x = y
  <2>1. PICK k \in DOMAIN ops : x \in Expanded(ops[k], k)
    BY <1>4
  <2>2. PICK j \in DOMAIN ops : y \in Expanded(ops[j], j)
    BY <1>4
  <2>3. x.declared = k /\ x = Planned(x.at, ops[k], k)
    BY <1>2, <2>1
  <2>4. y.declared = j /\ y = Planned(y.at, ops[j], j)
    BY <1>2, <2>2
  <2> QED BY <1>6, <2>3, <2>4
<1> QED BY <1>3, <1>5, <1>6 DEF ops

LEMMA InjectionsPlanned == \A x \in AllInjections : Planning(x)
BY ExpandedInjections DEF AllInjections

LEMMA Places ==
    ASSUME NEW all, IsFiniteSet(all), \A x \in all : x.at \in Nat /\ x.declared \in Nat,
           NEW x \in all
    PROVE  /\ Place(x, all) \in Nat /\ Place(x, all) < Cardinality(all)
           /\ \A y \in all : FiresFirst(x, y) => Place(x, all) < Place(y, all)
<1> DEFINE Ahead(y) == {z \in all : FiresFirst(z, y)}
<1>1. \A y \in all : y \notin Ahead(y)
  BY DEF FiresFirst
<1>2. \A y \in all : IsFiniteSet(Ahead(y)) /\ Cardinality(Ahead(y)) \in Nat
  <2> TAKE y \in all
  <2>1. IsFiniteSet(Ahead(y))
    BY FS_Subset
  <2> QED BY <2>1, FS_CardinalityType
<1>3. \A y \in all : Place(y, all) = Cardinality(Ahead(y))
  BY DEF Place
<1>4. ASSUME NEW y \in all, FiresFirst(x, y) PROVE Ahead(x) \subseteq Ahead(y)
  BY <1>4 DEF FiresFirst
<1>5. \A y \in all : FiresFirst(x, y) => x \in Ahead(y)
  OBVIOUS
<1>6. Ahead(x) \subseteq all
  OBVIOUS
<1> HIDE DEF Ahead
<1>7. Cardinality(all) \in Nat /\ Cardinality(Ahead(x)) < Cardinality(all)
  <2>1. Cardinality(all) \in Nat
    BY FS_CardinalityType
  <2>2. Cardinality(Ahead(x)) <= Cardinality(all) /\ Cardinality(Ahead(x)) # Cardinality(all)
    BY <1>1, <1>6, FS_Subset
  <2> QED BY <1>2, <2>1, <2>2
<1>8. ASSUME NEW y \in all, FiresFirst(x, y)
      PROVE  Cardinality(Ahead(x)) < Cardinality(Ahead(y))
  <2>1. Ahead(x) \subseteq Ahead(y) /\ Ahead(x) # Ahead(y)
    BY <1>1, <1>4, <1>5, <1>8
  <2>2. Cardinality(Ahead(x)) <= Cardinality(Ahead(y)) /\ Cardinality(Ahead(x)) # Cardinality(Ahead(y))
    BY <1>2, <2>1, FS_Subset
  <2> QED BY <1>2, <2>2
<1> QED BY <1>2, <1>3, <1>7, <1>8

---------------------------------------------------------------------------
(* What the operations on a run change. *)

SameNet(o, r) ==
    /\ o._group = r._group /\ o.crashed = r.crashed
    /\ o.down_links = r.down_links /\ o.lossy_links = r.lossy_links
SameClock(o, r) ==
    /\ DOMAIN o = DOMAIN r
    /\ o.now = r.now /\ o.steps = r.steps /\ o.fired = r.fired
    /\ o._suppressed = r._suppressed
SameQueue(o, r) == o._heap = r._heap /\ o._seq = r._seq
\* o is r with other impairments.
Struck(o, r) == SameClock(o, r) /\ SameQueue(o, r) /\ o._fault_seq = r._fault_seq

Event(r, delay, fn) == [at |-> r.now + delay, seq |-> r._seq, fn |-> fn]

\* o is r with one more event.
Scheduled(r, o, delay, fn) ==
    /\ SameClock(o, r) /\ SameNet(o, r) /\ o._fault_seq = r._fault_seq
    /\ o._heap = r._heap \cup {Event(r, delay, fn)} /\ o._seq = r._seq + 1

\* o is r after a fault that the mask suppresses, or that strikes and will end.
Faulted(r, struck, o, delay, recovery) ==
    /\ SameClock(o, r) /\ o._fault_seq = r._fault_seq + 1
    /\ \/ r._fault_seq \in r._suppressed /\ SameNet(o, r) /\ SameQueue(o, r)
       \/ /\ r._fault_seq \notin r._suppressed /\ SameNet(o, struck)
          /\ o._heap = r._heap \cup {Event(r, delay, recovery)} /\ o._seq = r._seq + 1

LEMMA ScheduleDoes ==
    ASSUME NEW r, DOMAIN r = RunFields, NEW delay, NEW fn
    PROVE  Scheduled(r, schedule(r, delay, fn), delay, fn)
BY DEF schedule, Scheduled, SameClock, SameNet, Event, RunFields

LEMMA FireFaultDoes ==
    ASSUME NEW r, DOMAIN r = RunFields
    PROVE  /\ SameClock(_fire_fault(r), r) /\ SameNet(_fire_fault(r), r)
           /\ SameQueue(_fire_fault(r), r) /\ _fire_fault(r)._fault_seq = r._fault_seq + 1
BY DEF _fire_fault, SameClock, SameNet, SameQueue, RunFields

LEMMA FaultDoes ==
    ASSUME NEW r, DOMAIN r = RunFields, NEW struck, Struck(struck, r), NEW delay, NEW recovery
    PROVE  Faulted(r, struck, Fault(r, struck, delay, recovery), delay, recovery)
<1>1. CASE r._fault_seq \in r._suppressed
  <2>1. Fault(r, struck, delay, recovery) = _fire_fault(r)
    BY <1>1 DEF Fault
  <2> QED BY <1>1, <2>1, FireFaultDoes DEF Faulted
<1>2. CASE r._fault_seq \notin r._suppressed
  <2> DEFINE s == _fire_fault(struck)
             o == schedule(s, delay, recovery)
  <2>1. Fault(r, struck, delay, recovery) = o
    BY <1>2 DEF Fault
  <2>2. DOMAIN struck = RunFields
    BY DEF Struck, SameClock
  <2>3. /\ SameClock(s, struck) /\ SameNet(s, struck) /\ SameQueue(s, struck)
        /\ s._fault_seq = struck._fault_seq + 1
    BY <2>2, FireFaultDoes
  <2>4. DOMAIN s = RunFields
    BY <2>2, <2>3 DEF SameClock
  <2>5. Scheduled(s, o, delay, recovery)
    BY <2>4, ScheduleDoes
  <2> HIDE DEF s, o
  <2>6. SameClock(o, r) /\ o._fault_seq = r._fault_seq + 1
    BY <2>3, <2>5 DEF Struck, Scheduled, SameClock
  <2>7. SameNet(o, struck)
    BY <2>3, <2>5 DEF Scheduled, SameNet
  <2>8. o._heap = r._heap \cup {Event(r, delay, recovery)} /\ o._seq = r._seq + 1
    BY <2>3, <2>5 DEF Struck, Scheduled, SameClock, SameQueue, Event
  <2> QED BY <1>2, <2>1, <2>6, <2>7, <2>8 DEF Faulted
<1> QED BY <1>1, <1>2

\* Each control changes one impairment.
LEMMA ControlsDo ==
    ASSUME NEW r, DOMAIN r = RunFields
    PROVE  /\ \A side : LET s == set_partition(r, side) IN
                 /\ Struck(s, r) /\ s.crashed = r.crashed
                 /\ s.down_links = r.down_links /\ s.lossy_links = r.lossy_links
           /\ LET s == heal_partition(r) IN
                 /\ Struck(s, r) /\ s._group = [i \in Node |-> 0] /\ s.crashed = r.crashed
                 /\ s.down_links = r.down_links /\ s.lossy_links = r.lossy_links
           /\ \A link : LET s == link_down(r, link) IN
                 /\ Struck(s, r) /\ s._group = r._group /\ s.crashed = r.crashed
                 /\ s.down_links = r.down_links \cup {link} /\ s.lossy_links = r.lossy_links
           /\ \A link : LET s == link_up(r, link) IN
                 /\ Struck(s, r) /\ s._group = r._group /\ s.crashed = r.crashed
                 /\ s.down_links = r.down_links \ {link} /\ s.lossy_links = r.lossy_links
           /\ \A link : LET s == set_lossy_link(r, link) IN
                 /\ Struck(s, r) /\ s._group = r._group /\ s.crashed = r.crashed
                 /\ s.down_links = r.down_links /\ s.lossy_links = r.lossy_links \cup {link}
           /\ \A link : LET s == clear_lossy_link(r, link) IN
                 /\ Struck(s, r) /\ s._group = r._group /\ s.crashed = r.crashed
                 /\ s.down_links = r.down_links /\ s.lossy_links = r.lossy_links \ {link}
           /\ \A i : LET s == pause(r, i) IN
                 /\ Struck(s, r) /\ s._group = r._group /\ s.crashed = r.crashed \cup {i}
                 /\ s.down_links = r.down_links /\ s.lossy_links = r.lossy_links
           /\ \A i : LET s == _maybe_resume(r, i) IN
                 /\ Struck(s, r) /\ s._group = r._group /\ s.crashed = r.crashed \ {i}
                 /\ s.down_links = r.down_links /\ s.lossy_links = r.lossy_links
<1> USE DEF Struck, SameClock, SameQueue, RunFields
<1>1. ASSUME NEW side
      PROVE  LET s == set_partition(r, side) IN
                 /\ Struck(s, r) /\ s.crashed = r.crashed
                 /\ s.down_links = r.down_links /\ s.lossy_links = r.lossy_links
  BY DEF set_partition
<1>2. LET s == heal_partition(r) IN
         /\ Struck(s, r) /\ s._group = [i \in Node |-> 0] /\ s.crashed = r.crashed
         /\ s.down_links = r.down_links /\ s.lossy_links = r.lossy_links
  BY DEF heal_partition
<1>3. ASSUME NEW link
      PROVE  /\ LET s == link_down(r, link) IN
                 /\ Struck(s, r) /\ s._group = r._group /\ s.crashed = r.crashed
                 /\ s.down_links = r.down_links \cup {link} /\ s.lossy_links = r.lossy_links
             /\ LET s == link_up(r, link) IN
                 /\ Struck(s, r) /\ s._group = r._group /\ s.crashed = r.crashed
                 /\ s.down_links = r.down_links \ {link} /\ s.lossy_links = r.lossy_links
  BY DEF link_down, link_up
<1>4. ASSUME NEW link
      PROVE  /\ LET s == set_lossy_link(r, link) IN
                 /\ Struck(s, r) /\ s._group = r._group /\ s.crashed = r.crashed
                 /\ s.down_links = r.down_links /\ s.lossy_links = r.lossy_links \cup {link}
             /\ LET s == clear_lossy_link(r, link) IN
                 /\ Struck(s, r) /\ s._group = r._group /\ s.crashed = r.crashed
                 /\ s.down_links = r.down_links /\ s.lossy_links = r.lossy_links \ {link}
  BY DEF set_lossy_link, clear_lossy_link
<1>5. ASSUME NEW i
      PROVE  /\ LET s == pause(r, i) IN
                 /\ Struck(s, r) /\ s._group = r._group /\ s.crashed = r.crashed \cup {i}
                 /\ s.down_links = r.down_links /\ s.lossy_links = r.lossy_links
             /\ LET s == _maybe_resume(r, i) IN
                 /\ Struck(s, r) /\ s._group = r._group /\ s.crashed = r.crashed \ {i}
                 /\ s.down_links = r.down_links /\ s.lossy_links = r.lossy_links
  BY DEF pause, _maybe_resume
<1> QED BY <1>1, <1>2, <1>3, <1>4, <1>5

LEMMA NextIsFirst ==
    ASSUME NEW r, QueueInv(r), r._heap # {}
    PROVE  /\ NextEvent(r._heap) \in r._heap
           /\ \A f \in r._heap : \/ NextEvent(r._heap).at < f.at
                                 \/ /\ NextEvent(r._heap).at = f.at
                                    /\ NextEvent(r._heap).seq <= f.seq
<1> DEFINE H == r._heap
           Times == {e.at : e \in H}
<1>1. \A e \in H : e.at \in Nat /\ e.seq \in Nat
  BY DEF QueueInv
<1>2. Times \in SUBSET Nat /\ Times # {}
  BY <1>1
<1>3. PICK t \in Times : \A u \in Times : t <= u
  BY <1>2, LeastNat
<1> DEFINE Turns == {e.seq : e \in {f \in H : f.at = t}}
<1>4. Turns \in SUBSET Nat /\ Turns # {}
  BY <1>1, <1>3
<1>5. PICK k \in Turns : \A u \in Turns : k <= u
  BY <1>4, LeastNat
<1>6. PICK e \in H : e.at = t /\ e.seq = k
  BY <1>5
<1>7. \A f \in H : e.at < f.at \/ (e.at = f.at /\ e.seq <= f.seq)
  <2> TAKE f \in H
  <2>1. t <= f.at
    BY <1>3
  <2>2. CASE f.at = t
    BY <1>5, <1>6, <2>2
  <2>3. CASE f.at # t
    BY <1>1, <1>6, <2>1, <2>3
  <2> QED BY <2>2, <2>3
<1> QED BY <1>6, <1>7 DEF NextEvent

LEMMA PoppedDoes ==
    ASSUME NEW r, DOMAIN r = RunFields
    PROVE  LET p == Popped(r) IN
           /\ DOMAIN p = RunFields /\ SameNet(p, r)
           /\ p._heap = r._heap \ {NextEvent(r._heap)} /\ p._seq = r._seq
           /\ p.now = NextEvent(r._heap).at /\ p.steps = r.steps + 1
           /\ p.fired = r.fired /\ p._fault_seq = r._fault_seq /\ p._suppressed = r._suppressed
BY DEF Popped, SameNet, RunFields

---------------------------------------------------------------------------
(* The invariant is kept: the queue. *)

LEMMA EventFields ==
    ASSUME NEW r, NEW delay, NEW fn
    PROVE  /\ Event(r, delay, fn).at = r.now + delay /\ Event(r, delay, fn).seq = r._seq
           /\ Event(r, delay, fn).fn = fn
BY DEF Event

LEMMA QueueSame ==
    ASSUME NEW r, NEW o, QueueInv(r), OrderInv(r), SameClock(o, r), SameQueue(o, r),
           o._fault_seq \in Nat
    PROVE  QueueInv(o) /\ OrderInv(o) /\ (NoTicks(r) => NoTicks(o))
BY DEF QueueInv, OrderInv, SameClock, SameQueue, InDeclaredOrder, NoTicks

LEMMA QueueGrows ==
    ASSUME NEW r, NEW o, QueueInv(r), OrderInv(r), SameClock(o, r), o._fault_seq \in Nat,
           NEW delay \in Nat, NEW fn, fn.kind \in Kinds, fn.kind # "inject",
           o._heap = r._heap \cup {Event(r, delay, fn)}, o._seq = r._seq + 1
    PROVE  /\ QueueInv(o) /\ OrderInv(o)
           /\ NoTicks(r) /\ fn.kind # "fault_tick" => NoTicks(o)
<1> DEFINE x == Event(r, delay, fn)
<1>1. x.at = r.now + delay /\ x.seq = r._seq /\ x.fn = fn
  BY EventFields
<1> HIDE DEF x
<1>2. o._heap = r._heap \cup {x}
  BY DEF x
<1>3. /\ DOMAIN o = RunFields /\ o.now \in Nat /\ o.steps \in Nat /\ o._seq \in Nat
      /\ x.at \in Nat /\ x.seq \in Nat /\ x.seq < o._seq
  BY <1>1 DEF QueueInv, SameClock
<1>4. QueueInv(o)
  <2>1. ASSUME NEW e \in o._heap
        PROVE  /\ e.at \in Nat /\ e.seq \in Nat /\ e.seq < o._seq
               /\ e.fn.kind \in Kinds
               /\ e.fn.kind = "inject" => e.fn.injection \in AllInjections
    BY <1>1, <1>2, <1>3 DEF QueueInv
  <2>2. ASSUME NEW e \in o._heap, NEW f \in o._heap, e.seq = f.seq PROVE e = f
    <3>1. \A g \in r._heap : g.seq \in Nat /\ g.seq < r._seq
      BY DEF QueueInv
    <3>2. CASE e = x
      BY <1>1, <1>2, <2>2, <3>1, <3>2
    <3>3. CASE f = x
      BY <1>1, <1>2, <2>2, <3>1, <3>3
    <3>4. CASE e # x /\ f # x
      BY <1>2, <2>2, <3>4 DEF QueueInv
    <3> QED BY <3>2, <3>3, <3>4
  <2> QED BY <1>3, <2>1, <2>2 DEF QueueInv
<1>5. OrderInv(o)
  <2>1. \A e \in o._heap : e.fn.kind = "inject" => e \in r._heap
    BY <1>1, <1>2
  <2>2. o.fired = r.fired
    BY DEF SameClock
  <2> QED BY <2>1, <2>2 DEF OrderInv, InDeclaredOrder
<1> QED BY <1>1, <1>2, <1>4, <1>5 DEF NoTicks

LEMMA FaultQueue ==
    ASSUME NEW r, NEW struck, NEW o, NEW delay \in Nat, NEW recovery,
           Faulted(r, struck, o, delay, recovery), recovery.kind \in Ends,
           QueueInv(r), OrderInv(r)
    PROVE  QueueInv(o) /\ OrderInv(o) /\ (NoTicks(r) => NoTicks(o))
<1>1. SameClock(o, r) /\ o._fault_seq \in Nat
  BY DEF Faulted, QueueInv
<1>2. recovery.kind \in Kinds /\ recovery.kind # "inject" /\ recovery.kind # "fault_tick"
  BY DEF Ends, Kinds
<1>3. CASE SameQueue(o, r)
  BY <1>1, <1>3, QueueSame
<1>4. CASE o._heap = r._heap \cup {Event(r, delay, recovery)} /\ o._seq = r._seq + 1
  BY <1>1, <1>2, <1>4, QueueGrows
<1> QED BY <1>3, <1>4 DEF Faulted

---------------------------------------------------------------------------
(* The invariant is kept: every impairment ends. *)

LEMMA PendingSame ==
    ASSUME NEW r, NEW o, o._heap = r._heap
    PROVE  \A kind, what : Pending(o, kind, what) = Pending(r, kind, what)
BY DEF Pending

LEMMA PendingGrows ==
    ASSUME NEW r, NEW o, NEW x, o._heap = r._heap \cup {x}
    PROVE  \A kind, what :
              /\ x.fn.kind = kind /\ x.fn.what = what =>
                     Pending(o, kind, what) = Pending(r, kind, what) \cup {x}
              /\ ~(x.fn.kind = kind /\ x.fn.what = what) =>
                     Pending(o, kind, what) = Pending(r, kind, what)
BY DEF Pending

LEMMA CrashSame ==
    ASSUME NEW r, NEW o, CrashInv(r), o.crashed = r.crashed,
           \A i : Pending(o, "resume", i) = Pending(r, "resume", i)
    PROVE  CrashInv(o)
<1>1. ASSUME NEW i \in o.crashed PROVE \E e : Pending(o, "resume", i) = {e}
  <2>1. PICK e : Pending(r, "resume", i) = {e}
    BY DEF CrashInv
  <2>2. Pending(o, "resume", i) = {e}
    BY <2>1
  <2> QED BY <2>2
<1>2. ASSUME NEW i, i \notin o.crashed PROVE Pending(o, "resume", i) = {}
  BY <1>2 DEF CrashInv
<1> QED BY <1>1, <1>2 DEF CrashInv

\* A server that crashes is up, and its restart is scheduled.
LEMMA FaultCrash ==
    ASSUME NEW r, NEW struck, NEW o, NEW delay, NEW recovery,
           Faulted(r, struck, o, delay, recovery), CrashInv(r),
           \/ recovery.kind # "resume" /\ struck.crashed = r.crashed
           \/ /\ recovery.kind = "resume" /\ recovery.what \notin r.crashed
              /\ struck.crashed = r.crashed \cup {recovery.what}
    PROVE  CrashInv(o)
<1>1. CASE r._fault_seq \in r._suppressed
  <2>1. o.crashed = r.crashed /\ o._heap = r._heap
    BY <1>1 DEF Faulted, SameNet, SameQueue
  <2>2. \A i : Pending(o, "resume", i) = Pending(r, "resume", i)
    BY <2>1, PendingSame
  <2> QED BY <2>1, <2>2 DEF CrashInv
<1>2. CASE r._fault_seq \notin r._suppressed
  <2> DEFINE x == Event(r, delay, recovery)
  <2>1. o.crashed = struck.crashed /\ o._heap = r._heap \cup {x} /\ x.fn = recovery
    BY <1>2, EventFields DEF Faulted, SameNet
  <2> HIDE DEF x
  <2>2. CASE recovery.kind # "resume" /\ struck.crashed = r.crashed
    <3>1. \A i : Pending(o, "resume", i) = Pending(r, "resume", i)
      BY <2>1, <2>2, PendingGrows
    <3> QED BY <2>1, <2>2, <3>1 DEF CrashInv
  <2>3. CASE /\ recovery.kind = "resume" /\ recovery.what \notin r.crashed
             /\ struck.crashed = r.crashed \cup {recovery.what}
    <3>1. Pending(o, "resume", recovery.what) = {x}
      <4>1. Pending(r, "resume", recovery.what) = {}
        BY <2>3 DEF CrashInv
      <4>2. Pending(o, "resume", recovery.what) = Pending(r, "resume", recovery.what) \cup {x}
        BY <2>1, <2>3, PendingGrows
      <4> QED BY ONLY <4>1, <4>2
    <3>2. ASSUME NEW i, i # recovery.what
          PROVE  Pending(o, "resume", i) = Pending(r, "resume", i)
      BY <2>1, <3>2, PendingGrows
    <3>3. ASSUME NEW i \in o.crashed PROVE \E e : Pending(o, "resume", i) = {e}
      <4>1. CASE i = recovery.what
        BY <3>1, <4>1
      <4>2. CASE i # recovery.what
        <5>1. i \in r.crashed
          BY <2>1, <2>3, <3>3, <4>2
        <5>2. PICK e : Pending(r, "resume", i) = {e}
          BY <5>1 DEF CrashInv
        <5>3. Pending(o, "resume", i) = {e}
          BY <3>2, <4>2, <5>2
        <5> QED BY <5>3
      <4> QED BY <4>1, <4>2
    <3>4. ASSUME NEW i, i \notin o.crashed PROVE Pending(o, "resume", i) = {}
      <4>1. i # recovery.what /\ i \notin r.crashed
        BY <2>1, <2>3, <3>4
      <4> QED BY <3>2, <4>1 DEF CrashInv
    <3> QED BY <3>3, <3>4 DEF CrashInv
  <2> QED BY <2>2, <2>3
<1> QED BY <1>1, <1>2

\* A link that goes down, or becomes lossy, has its repair scheduled.
LEMMA FaultLink ==
    ASSUME NEW r, NEW struck, NEW o, NEW delay, NEW recovery,
           Faulted(r, struck, o, delay, recovery), LinkInv(r),
           \/ struck.down_links = r.down_links
           \/ /\ recovery.kind = "link_up"
              /\ struck.down_links = r.down_links \cup {recovery.what}
    PROVE  LinkInv(o)
<1>1. CASE r._fault_seq \in r._suppressed
  <2>1. o.down_links = r.down_links /\ o._heap = r._heap
    BY <1>1 DEF Faulted, SameNet, SameQueue
  <2> QED BY <2>1, PendingSame DEF LinkInv
<1>2. CASE r._fault_seq \notin r._suppressed
  <2> DEFINE x == Event(r, delay, recovery)
  <2>1. o.down_links = struck.down_links /\ o._heap = r._heap \cup {x} /\ x.fn = recovery
    BY <1>2, EventFields DEF Faulted, SameNet
  <2> HIDE DEF x
  <2>2. \A link : Pending(r, "link_up", link) \subseteq Pending(o, "link_up", link)
    BY <2>1 DEF Pending
  <2>3. recovery.kind = "link_up" => x \in Pending(o, "link_up", recovery.what)
    BY <2>1 DEF Pending
  <2> QED BY <2>1, <2>2, <2>3 DEF LinkInv
<1> QED BY <1>1, <1>2

LEMMA FaultLossy ==
    ASSUME NEW r, NEW struck, NEW o, NEW delay, NEW recovery,
           Faulted(r, struck, o, delay, recovery), LossyInv(r),
           \/ struck.lossy_links = r.lossy_links
           \/ /\ recovery.kind = "clear"
              /\ struck.lossy_links = r.lossy_links \cup {recovery.what}
    PROVE  LossyInv(o)
<1>1. CASE r._fault_seq \in r._suppressed
  <2>1. o.lossy_links = r.lossy_links /\ o._heap = r._heap
    BY <1>1 DEF Faulted, SameNet, SameQueue
  <2> QED BY <2>1, PendingSame DEF LossyInv
<1>2. CASE r._fault_seq \notin r._suppressed
  <2> DEFINE x == Event(r, delay, recovery)
  <2>1. o.lossy_links = struck.lossy_links /\ o._heap = r._heap \cup {x} /\ x.fn = recovery
    BY <1>2, EventFields DEF Faulted, SameNet
  <2> HIDE DEF x
  <2>2. \A link : Pending(r, "clear", link) \subseteq Pending(o, "clear", link)
    BY <2>1 DEF Pending
  <2>3. recovery.kind = "clear" => x \in Pending(o, "clear", recovery.what)
    BY <2>1 DEF Pending
  <2> QED BY <2>1, <2>2, <2>3 DEF LossyInv
<1> QED BY <1>1, <1>2

LEMMA FaultPartition ==
    ASSUME NEW r, NEW struck, NEW o, NEW delay, NEW recovery,
           Faulted(r, struck, o, delay, recovery), PartitionInv(r),
           struck._group = r._group \/ recovery.kind = "heal"
    PROVE  PartitionInv(o)
<1>1. CASE r._fault_seq \in r._suppressed
  BY <1>1 DEF Faulted, SameNet, SameQueue, PartitionInv, is_partitioned
<1>2. CASE r._fault_seq \notin r._suppressed
  <2> DEFINE x == Event(r, delay, recovery)
  <2>1. o._group = struck._group /\ o._heap = r._heap \cup {x} /\ x.fn = recovery
    BY <1>2, EventFields DEF Faulted, SameNet
  <2> HIDE DEF x
  <2> QED BY <2>1 DEF PartitionInv, is_partitioned
<1> QED BY <1>1, <1>2

\* A fault that is suppressed changes nothing, and one that is not has an ordinal of its own.
LEMMA FaultTrace ==
    ASSUME NEW r, NEW struck, NEW o, NEW delay, NEW recovery,
           Faulted(r, struck, o, delay, recovery), QueueInv(r), SuppressedLeaveNoTrace(r),
           recovery.ordinal = r._fault_seq
    PROVE  SuppressedLeaveNoTrace(o)
<1>1. /\ r._fault_seq \in Nat /\ o._fault_seq = r._fault_seq + 1
      /\ o._suppressed = r._suppressed
  BY DEF Faulted, QueueInv, SameClock
<1>2. r._fault_seq \in 0..(o._fault_seq - 1) /\ 0..(r._fault_seq - 1) \subseteq 0..(o._fault_seq - 1)
  BY <1>1
<1>3. CASE r._fault_seq \in r._suppressed
  <2>1. SameNet(o, r) /\ o._heap = r._heap
    BY <1>3 DEF Faulted, SameQueue
  <2>2. Impaired(o) = Impaired(r)
    BY <2>1 DEF SameNet, Impaired, is_partitioned
  <2> QED BY <1>1, <1>2, <2>1, <2>2 DEF SuppressedLeaveNoTrace
<1>4. CASE r._fault_seq \notin r._suppressed
  <2>1. ~(0..(o._fault_seq - 1) \subseteq o._suppressed)
    BY <1>1, <1>2, <1>4
  <2>2. o._heap = r._heap \cup {Event(r, delay, recovery)} /\ Event(r, delay, recovery).fn = recovery
    BY <1>4, EventFields DEF Faulted
  <2>3. \A e \in o._heap :
           e.fn.kind \notin {"inject", "fault_tick"} => e.fn.ordinal \notin o._suppressed
    BY <1>1, <1>4, <2>2 DEF SuppressedLeaveNoTrace
  <2> QED BY <2>1, <2>3 DEF SuppressedLeaveNoTrace
<1> QED BY <1>3, <1>4

---------------------------------------------------------------------------
(* The invariant is kept: the steps of a run. *)

\* Nothing is injected anew, and what was injected is as before.
SameInjections(o, r) ==
    /\ o.fired = r.fired /\ o.steps = r.steps /\ o._suppressed = r._suppressed
    /\ \A e \in o._heap : e.fn.kind = "inject" => e \in r._heap

\* A recovery that ends what struck brought.
Paired(r, struck, recovery) ==
    /\ recovery.kind \in Ends /\ recovery.ordinal = r._fault_seq
    /\ \/ recovery.kind # "resume" /\ struck.crashed = r.crashed
       \/ /\ recovery.kind = "resume" /\ recovery.what \notin r.crashed
          /\ struck.crashed = r.crashed \cup {recovery.what}
    /\ \/ struck.down_links = r.down_links
       \/ recovery.kind = "link_up" /\ struck.down_links = r.down_links \cup {recovery.what}
    /\ \/ struck.lossy_links = r.lossy_links
       \/ recovery.kind = "clear" /\ struck.lossy_links = r.lossy_links \cup {recovery.what}
    /\ struck._group = r._group \/ recovery.kind = "heal"

LEMMA FaultKeeps ==
    ASSUME NEW r, DrawingInv(r), NEW struck, Struck(struck, r), NEW delay \in Nat, NEW recovery,
           Paired(r, struck, recovery)
    PROVE  LET o == Fault(r, struck, delay, recovery) IN
           /\ DrawingInv(o) /\ (PartitionInv(r) => PartitionInv(o))
           /\ SameInjections(o, r) /\ (NoTicks(r) => NoTicks(o))
<1> DEFINE o == Fault(r, struck, delay, recovery)
<1>1. Faulted(r, struck, o, delay, recovery)
  BY FaultDoes DEF DrawingInv, QueueInv
<1> HIDE DEF o
<1>2. QueueInv(r) /\ OrderInv(r) /\ CrashInv(r) /\ LinkInv(r) /\ LossyInv(r)
      /\ SuppressedLeaveNoTrace(r)
  BY DEF DrawingInv
<1>3. recovery.kind \in Ends /\ recovery.ordinal = r._fault_seq
  BY DEF Paired
<1>4. QueueInv(o) /\ OrderInv(o) /\ (NoTicks(r) => NoTicks(o))
  BY <1>1, <1>2, <1>3, FaultQueue
<1>5. CrashInv(o)
  BY <1>1, <1>2, FaultCrash DEF Paired
<1>6. LinkInv(o)
  BY <1>1, <1>2, FaultLink DEF Paired
<1>7. LossyInv(o)
  BY <1>1, <1>2, FaultLossy DEF Paired
<1>8. PartitionInv(r) => PartitionInv(o)
  BY <1>1, FaultPartition DEF Paired
<1>9. SuppressedLeaveNoTrace(o)
  BY <1>1, <1>2, <1>3, FaultTrace
<1>10. SameInjections(o, r)
  <2>1. /\ o.fired = r.fired /\ o.steps = r.steps /\ o._suppressed = r._suppressed
        /\ o._heap = r._heap \/ o._heap = r._heap \cup {Event(r, delay, recovery)}
    BY <1>1 DEF Faulted, SameClock, SameQueue
  <2>2. Event(r, delay, recovery).fn.kind # "inject"
    BY <1>3, EventFields DEF Ends
  <2> QED BY <2>1, <2>2 DEF SameInjections
<1> QED BY <1>4, <1>5, <1>6, <1>7, <1>8, <1>9, <1>10 DEF DrawingInv, o

LEMMA NemesisKeeps ==
    ASSUME NEW r, RunInv(r), NEW op, IsPattern(op), NEW leader
    PROVE  LET o == _nemesis_fire(r, op, leader) IN
           RunInv(o) /\ SameInjections(o, r) /\ (NoTicks(r) => NoTicks(o))
<1> DEFINE o == _nemesis_fire(r, op, leader)
           link == frozenset(op.a, op.b)
           Good(x) == RunInv(x) /\ SameInjections(x, r) /\ (NoTicks(r) => NoTicks(x))
<1>1. DOMAIN r = RunFields /\ op.duration \in Nat
  BY DEF RunInv, DrawingInv, QueueInv, IsPattern
<1>2. Good(r)
  BY DEF SameInjections
<1>3. ASSUME NEW struck, NEW kind, NEW what, Struck(struck, r),
             Paired(r, struck, Recovery(kind, what, r._fault_seq))
      PROVE  Good(Fault(r, struck, op.duration, Recovery(kind, what, r._fault_seq)))
  BY <1>1, <1>3, FaultKeeps DEF RunInv
<1> SUFFICES Good(o)
  BY DEF Good
<1> HIDE DEF Good
<1> USE DEF Recovery, Ends, Paired
<1>4. CASE op.pattern = "partition_halves"
  <2>1. o = r \/ o = Fault(r, set_partition(r, Halves), op.duration, Recovery("heal", None, r._fault_seq))
    BY <1>4 DEF _nemesis_fire
  <2>2. /\ Struck(set_partition(r, Halves), r)
        /\ Paired(r, set_partition(r, Halves), Recovery("heal", None, r._fault_seq))
    BY <1>1, ControlsDo
  <2> QED BY ONLY <1>2, <1>3, <2>1, <2>2
<1>5. CASE op.pattern = "isolate_leader"
  <2>1. o = r \/ o = Fault(r, set_partition(r, {leader}), op.duration, Recovery("heal", None, r._fault_seq))
    BY <1>5 DEF _nemesis_fire
  <2>2. /\ Struck(set_partition(r, {leader}), r)
        /\ Paired(r, set_partition(r, {leader}), Recovery("heal", None, r._fault_seq))
    BY <1>1, ControlsDo
  <2> QED BY ONLY <1>2, <1>3, <2>1, <2>2
<1>6. CASE op.pattern = "flapping_link"
  <2>1. o = Fault(r, link_down(r, link), op.duration, Recovery("link_up", link, r._fault_seq))
    BY <1>6 DEF _nemesis_fire
  <2> HIDE DEF link
  <2>2. LET s == link_down(r, link) IN
          /\ Struck(s, r) /\ s._group = r._group /\ s.crashed = r.crashed
          /\ s.down_links = r.down_links \cup {link} /\ s.lossy_links = r.lossy_links
    BY <1>1, ControlsDo
  <2>3. Paired(r, link_down(r, link), Recovery("link_up", link, r._fault_seq))
    BY <2>2
  <2> QED BY ONLY <1>3, <2>1, <2>2, <2>3
<1>7. CASE op.pattern = "lossy_link"
  <2>1. o = Fault(r, set_lossy_link(r, link), op.duration, Recovery("clear", link, r._fault_seq))
    BY <1>7 DEF _nemesis_fire
  <2> HIDE DEF link
  <2>2. LET s == set_lossy_link(r, link) IN
          /\ Struck(s, r) /\ s._group = r._group /\ s.crashed = r.crashed
          /\ s.down_links = r.down_links /\ s.lossy_links = r.lossy_links \cup {link}
    BY <1>1, ControlsDo
  <2>3. Paired(r, set_lossy_link(r, link), Recovery("clear", link, r._fault_seq))
    BY <2>2
  <2> QED BY ONLY <1>3, <2>1, <2>2, <2>3
<1>8. CASE op.pattern = "crash_node"
  <2>1. CASE ~MayCrash(r, op.node)
    <3>1. o = r
      BY <1>8, <2>1 DEF _nemesis_fire
    <3> QED BY ONLY <1>2, <3>1
  <2>2. CASE MayCrash(r, op.node)
    <3>1. o = Fault(r, pause(r, op.node), op.duration, Recovery("resume", op.node, r._fault_seq))
      BY <1>8, <2>2 DEF _nemesis_fire
    <3>2. /\ Struck(pause(r, op.node), r)
          /\ Paired(r, pause(r, op.node), Recovery("resume", op.node, r._fault_seq))
      BY <1>1, <2>2, ControlsDo DEF MayCrash
    <3> QED BY ONLY <1>3, <3>1, <3>2
  <2> QED BY <2>1, <2>2
<1> QED BY <1>4, <1>5, <1>6, <1>7, <1>8 DEF IsPattern

\* An event leaves the queue: all holds that does not depend on it.
LEMMA PoppedKeeps ==
    ASSUME NEW r, RunInv(r), r._heap # {}
    PROVE  LET p == Popped(r)
               e == NextEvent(r._heap)
           IN  /\ QueueInv(p) /\ OrderInv(p) /\ SuppressedLeaveNoTrace(p) /\ SameNet(p, r)
               /\ e \in r._heap /\ p._heap = r._heap \ {e} /\ p.steps = r.steps + 1
               /\ p.fired = r.fired /\ p._suppressed = r._suppressed
               /\ e.fn.kind # "resume" => CrashInv(p)
               /\ e.fn.kind # "link_up" => LinkInv(p)
               /\ e.fn.kind # "clear" => LossyInv(p)
               /\ e.fn.kind \notin {"heal", "fault_tick"} => PartitionInv(p)
<1> DEFINE p == Popped(r)
           e == NextEvent(r._heap)
<1>1. /\ QueueInv(r) /\ OrderInv(r) /\ CrashInv(r) /\ LinkInv(r) /\ LossyInv(r)
      /\ SuppressedLeaveNoTrace(r) /\ PartitionInv(r) /\ DOMAIN r = RunFields
  BY DEF RunInv, DrawingInv, QueueInv
<1>2. e \in r._heap
  BY <1>1, NextIsFirst
<1>3. /\ DOMAIN p = RunFields /\ SameNet(p, r)
      /\ p._heap = r._heap \ {e} /\ p._seq = r._seq /\ p.now = e.at /\ p.steps = r.steps + 1
      /\ p.fired = r.fired /\ p._fault_seq = r._fault_seq /\ p._suppressed = r._suppressed
  BY <1>1, PoppedDoes
<1> HIDE DEF p, e
<1>4. QueueInv(p)
  BY <1>1, <1>2, <1>3 DEF QueueInv
<1>5. OrderInv(p)
  BY <1>1, <1>3 DEF OrderInv, InDeclaredOrder
<1>6. SuppressedLeaveNoTrace(p)
  <2>1. Impaired(p) = Impaired(r)
    BY <1>3 DEF SameNet, Impaired, is_partitioned
  <2> QED BY <1>1, <1>3, <2>1 DEF SuppressedLeaveNoTrace
<1>7. ASSUME NEW kind, e.fn.kind # kind
      PROVE  \A what : Pending(p, kind, what) = Pending(r, kind, what)
  BY <1>3, <1>7 DEF Pending
<1>8. e.fn.kind # "resume" => CrashInv(p)
  <2> SUFFICES ASSUME e.fn.kind # "resume" PROVE CrashInv(p)
    OBVIOUS
  <2>1. \A i : Pending(p, "resume", i) = Pending(r, "resume", i)
    BY <1>7
  <2> QED BY <1>1, <1>3, <2>1, CrashSame DEF SameNet
<1>9. e.fn.kind # "link_up" => LinkInv(p)
  BY <1>1, <1>3, <1>7 DEF LinkInv, SameNet
<1>10. e.fn.kind # "clear" => LossyInv(p)
  BY <1>1, <1>3, <1>7 DEF LossyInv, SameNet
<1>11. e.fn.kind \notin {"heal", "fault_tick"} => PartitionInv(p)
  BY <1>1, <1>3 DEF PartitionInv, is_partitioned, SameNet
<1> QED BY <1>2, <1>3, <1>4, <1>5, <1>6, <1>8, <1>9, <1>10, <1>11 DEF p, e

LEMMA RecoverKeeps ==
    ASSUME NEW r, RunInv(r), r._heap # {}, NextEvent(r._heap).fn.kind \in Ends
    PROVE  LET o == Recover(Popped(r), NextEvent(r._heap).fn) IN
           /\ RunInv(o) /\ o.steps = r.steps + 1 /\ o._suppressed = r._suppressed
           /\ NoTicks(r) => NoTicks(o)
<1> DEFINE p == Popped(r)
           e == NextEvent(r._heap)
           o == Recover(p, e.fn)
<1>1. /\ QueueInv(p) /\ OrderInv(p) /\ SuppressedLeaveNoTrace(p) /\ SameNet(p, r)
      /\ e \in r._heap /\ p._heap = r._heap \ {e} /\ p.steps = r.steps + 1
      /\ p.fired = r.fired /\ p._suppressed = r._suppressed
      /\ e.fn.kind # "resume" => CrashInv(p)
      /\ e.fn.kind # "link_up" => LinkInv(p)
      /\ e.fn.kind # "clear" => LossyInv(p)
      /\ e.fn.kind \notin {"heal", "fault_tick"} => PartitionInv(p)
  BY PoppedKeeps
<1>2. DOMAIN p = RunFields /\ p._fault_seq \in Nat
  BY <1>1 DEF QueueInv
<1>3. CrashInv(r) /\ LinkInv(r) /\ LossyInv(r) /\ PartitionInv(r)
  BY DEF RunInv, DrawingInv
<1>4. CASE e.fn.kind = "heal"
  <2>1. o = heal_partition(p)
    BY <1>4 DEF Recover
  <2>2. /\ Struck(o, p) /\ o._group = [i \in Node |-> 0] /\ o.crashed = p.crashed
        /\ o.down_links = p.down_links /\ o.lossy_links = p.lossy_links
    BY <1>2, <2>1, ControlsDo
  <2> HIDE DEF o, p, e
  <2>3. ~is_partitioned(o)
    BY <2>2 DEF is_partitioned
  <2>4. Impaired(o) => Impaired(p)
    BY <2>2, <2>3 DEF Impaired
  <2>5. QueueInv(o) /\ OrderInv(o)
    BY <1>1, <1>2, <2>2, QueueSame DEF Struck
  <2>6. o._heap = p._heap /\ o._suppressed = p._suppressed /\ o.steps = p.steps
        /\ o._fault_seq = p._fault_seq
    BY <2>2 DEF Struck, SameClock, SameQueue
  <2>7. SuppressedLeaveNoTrace(o)
    BY <1>1, <2>4, <2>6 DEF SuppressedLeaveNoTrace
  <2>8. CrashInv(o)
    BY <1>1, <1>4, <2>2, <2>6, PendingSame, CrashSame
  <2>9. LinkInv(o) /\ LossyInv(o) /\ PartitionInv(o)
    BY <1>1, <1>4, <2>2, <2>3, <2>6 DEF LinkInv, LossyInv, PartitionInv, Pending
  <2> QED BY <1>1, <2>5, <2>6, <2>7, <2>8, <2>9 DEF RunInv, DrawingInv, NoTicks, o, p, e
<1>5. CASE e.fn.kind = "link_up"
  <2>1. o = link_up(p, e.fn.what)
    BY <1>5 DEF Recover
  <2>2. /\ Struck(o, p) /\ o._group = p._group /\ o.crashed = p.crashed
        /\ o.down_links = p.down_links \ {e.fn.what} /\ o.lossy_links = p.lossy_links
    BY <1>2, <2>1, ControlsDo
  <2> HIDE DEF o, p, e
  <2>3. Impaired(o) => Impaired(p)
    BY <2>2 DEF Impaired, is_partitioned
  <2>4. QueueInv(o) /\ OrderInv(o)
    BY <1>1, <1>2, <2>2, QueueSame DEF Struck
  <2>5. o._heap = p._heap /\ o._suppressed = p._suppressed /\ o.steps = p.steps
        /\ o._fault_seq = p._fault_seq
    BY <2>2 DEF Struck, SameClock, SameQueue
  <2>6. SuppressedLeaveNoTrace(o)
    BY <1>1, <2>3, <2>5 DEF SuppressedLeaveNoTrace
  <2>7. LinkInv(o)
    <3>1. ASSUME NEW link \in o.down_links PROVE Pending(o, "link_up", link) # {}
      <4>1. link # e.fn.what /\ link \in r.down_links
        BY <1>1, <2>2, <3>1 DEF SameNet
      <4>2. PICK f : f \in Pending(r, "link_up", link)
        BY <1>3, <4>1 DEF LinkInv
      <4>3. f \in Pending(o, "link_up", link)
        BY <1>1, <2>5, <4>1, <4>2 DEF Pending
      <4> QED BY <4>3
    <3> QED BY <3>1 DEF LinkInv
  <2>8. CrashInv(o)
    BY <1>1, <1>5, <2>2, <2>5, PendingSame, CrashSame
  <2>9. LossyInv(o) /\ PartitionInv(o)
    BY <1>1, <1>5, <2>2, <2>5 DEF LossyInv, PartitionInv, Pending, is_partitioned
  <2> QED BY <1>1, <2>4, <2>5, <2>6, <2>7, <2>8, <2>9 DEF RunInv, DrawingInv, NoTicks, o, p, e
<1>6. CASE e.fn.kind = "clear"
  <2>1. o = clear_lossy_link(p, e.fn.what)
    BY <1>6 DEF Recover
  <2>2. /\ Struck(o, p) /\ o._group = p._group /\ o.crashed = p.crashed
        /\ o.down_links = p.down_links /\ o.lossy_links = p.lossy_links \ {e.fn.what}
    BY <1>2, <2>1, ControlsDo
  <2> HIDE DEF o, p, e
  <2>3. Impaired(o) => Impaired(p)
    BY <2>2 DEF Impaired, is_partitioned
  <2>4. QueueInv(o) /\ OrderInv(o)
    BY <1>1, <1>2, <2>2, QueueSame DEF Struck
  <2>5. o._heap = p._heap /\ o._suppressed = p._suppressed /\ o.steps = p.steps
        /\ o._fault_seq = p._fault_seq
    BY <2>2 DEF Struck, SameClock, SameQueue
  <2>6. SuppressedLeaveNoTrace(o)
    BY <1>1, <2>3, <2>5 DEF SuppressedLeaveNoTrace
  <2>7. LossyInv(o)
    <3>1. ASSUME NEW link \in o.lossy_links PROVE Pending(o, "clear", link) # {}
      <4>1. link # e.fn.what /\ link \in r.lossy_links
        BY <1>1, <2>2, <3>1 DEF SameNet
      <4>2. PICK f : f \in Pending(r, "clear", link)
        BY <1>3, <4>1 DEF LossyInv
      <4>3. f \in Pending(o, "clear", link)
        BY <1>1, <2>5, <4>1, <4>2 DEF Pending
      <4> QED BY <4>3
    <3> QED BY <3>1 DEF LossyInv
  <2>8. CrashInv(o)
    BY <1>1, <1>6, <2>2, <2>5, PendingSame, CrashSame
  <2>9. LinkInv(o) /\ PartitionInv(o)
    BY <1>1, <1>6, <2>2, <2>5 DEF LinkInv, PartitionInv, Pending, is_partitioned
  <2> QED BY <1>1, <2>4, <2>5, <2>6, <2>7, <2>8, <2>9 DEF RunInv, DrawingInv, NoTicks, o, p, e
<1>7. CASE e.fn.kind = "resume"
  <2>1. o = _maybe_resume(p, e.fn.what)
    BY <1>7 DEF Recover
  <2>2. /\ Struck(o, p) /\ o._group = p._group /\ o.crashed = p.crashed \ {e.fn.what}
        /\ o.down_links = p.down_links /\ o.lossy_links = p.lossy_links
    BY <1>2, <2>1, ControlsDo
  <2> HIDE DEF o, p, e
  <2>3. Impaired(o) => Impaired(p)
    BY <2>2 DEF Impaired, is_partitioned
  <2>4. QueueInv(o) /\ OrderInv(o)
    BY <1>1, <1>2, <2>2, QueueSame DEF Struck
  <2>5. o._heap = p._heap /\ o._suppressed = p._suppressed /\ o.steps = p.steps
        /\ o._fault_seq = p._fault_seq
    BY <2>2 DEF Struck, SameClock, SameQueue
  <2>6. SuppressedLeaveNoTrace(o)
    BY <1>1, <2>3, <2>5 DEF SuppressedLeaveNoTrace
  <2>7. CrashInv(o)
    <3>1. e \in Pending(r, "resume", e.fn.what)
      BY <1>1, <1>7 DEF Pending
    <3>2. Pending(r, "resume", e.fn.what) = {e}
      BY <1>3, <3>1 DEF CrashInv
    <3>3. \A i : Pending(o, "resume", i) = Pending(r, "resume", i) \ {e}
      BY <1>1, <2>5 DEF Pending
    <3>4. \A i : i # e.fn.what => e \notin Pending(r, "resume", i)
      BY DEF Pending
    <3>5. Pending(o, "resume", e.fn.what) = {}
      BY <3>2, <3>3
    <3>6. \A i : i # e.fn.what => Pending(o, "resume", i) = Pending(r, "resume", i)
      BY <3>3, <3>4
    <3>7. o.crashed = r.crashed \ {e.fn.what}
      BY <1>1, <2>2 DEF SameNet
    <3>8. ASSUME NEW i \in o.crashed PROVE \E f : Pending(o, "resume", i) = {f}
      <4>1. i # e.fn.what /\ i \in r.crashed
        BY <3>7, <3>8
      <4>2. PICK f : Pending(r, "resume", i) = {f}
        BY <1>3, <4>1 DEF CrashInv
      <4>3. Pending(o, "resume", i) = {f}
        BY <3>6, <4>1, <4>2
      <4> QED BY <4>3
    <3>9. ASSUME NEW i, i \notin o.crashed PROVE Pending(o, "resume", i) = {}
      <4>1. CASE i = e.fn.what
        BY <3>5, <4>1
      <4>2. CASE i # e.fn.what
        <5>1. i \notin r.crashed
          BY <3>7, <3>9, <4>2
        <5> QED BY <1>3, <3>6, <4>2, <5>1 DEF CrashInv
      <4> QED BY <4>1, <4>2
    <3> QED BY <3>8, <3>9 DEF CrashInv
  <2>8. LinkInv(o) /\ LossyInv(o) /\ PartitionInv(o)
    BY <1>1, <1>7, <2>2, <2>5 DEF LinkInv, LossyInv, PartitionInv, Pending, is_partitioned
  <2> QED BY <1>1, <2>4, <2>5, <2>6, <2>7, <2>8 DEF RunInv, DrawingInv, NoTicks, o, p, e
<1> QED BY <1>4, <1>5, <1>6, <1>7 DEF Ends

\* One decision of the random driver.
LEMMA TickKeeps ==
    ASSUME NEW r, DrawingInv(r), NEW draw \in Draws(r)
    PROVE  LET o == _fault_tick(r, draw) IN RunInv(o) /\ SameInjections(o, r)
<1> DEFINE network ==
               IF is_partitioned(r)
               THEN IF draw.heal THEN heal_partition(r) ELSE r
               ELSE IF draw.side = {} THEN r
               ELSE IF r._fault_seq \in r._suppressed THEN _fire_fault(r)
               ELSE _fire_fault(set_partition(r, draw.side))
           crash ==
               IF draw.victim = None THEN network
               ELSE Fault(network, pause(network, draw.victim), draw.resume_delay,
                          Recovery("resume", draw.victim, network._fault_seq))
           tick == [kind |-> "fault_tick"]
           o == schedule(crash, FAULT_INTERVAL, tick)
<1>1. /\ QueueInv(r) /\ OrderInv(r) /\ CrashInv(r) /\ LinkInv(r) /\ LossyInv(r)
      /\ SuppressedLeaveNoTrace(r) /\ DOMAIN r = RunFields /\ r._fault_seq \in Nat
  BY DEF DrawingInv, QueueInv
<1>2. /\ SameClock(network, r) /\ SameQueue(network, r) /\ network.crashed = r.crashed
      /\ network.down_links = r.down_links /\ network.lossy_links = r.lossy_links
      /\ \/ network._fault_seq = r._fault_seq /\ (is_partitioned(network) => is_partitioned(r))
         \/ /\ network._fault_seq = r._fault_seq + 1 /\ r._fault_seq \in r._suppressed
            /\ network._group = r._group
         \/ network._fault_seq = r._fault_seq + 1 /\ r._fault_seq \notin r._suppressed
  <2>1. CASE network = r
    BY <2>1 DEF SameClock, SameQueue
  <2>2. CASE network = heal_partition(r)
    <3>1. /\ Struck(network, r) /\ network._group = [i \in Node |-> 0]
          /\ network.crashed = r.crashed
          /\ network.down_links = r.down_links /\ network.lossy_links = r.lossy_links
      BY <1>1, <2>2, ControlsDo
    <3> HIDE DEF network
    <3>2. ~is_partitioned(network)
      BY <3>1 DEF is_partitioned
    <3> QED BY <3>1, <3>2 DEF Struck
  <2>3. CASE network = _fire_fault(r) /\ r._fault_seq \in r._suppressed
    <3>1. /\ SameClock(network, r) /\ SameNet(network, r)
          /\ SameQueue(network, r) /\ network._fault_seq = r._fault_seq + 1
      BY <1>1, <2>3, FireFaultDoes
    <3> HIDE DEF network
    <3> QED BY <2>3, <3>1 DEF SameNet
  <2>4. CASE /\ network = _fire_fault(set_partition(r, draw.side))
             /\ r._fault_seq \notin r._suppressed
    <3> DEFINE s == set_partition(r, draw.side)
    <3>1. /\ Struck(s, r) /\ s.crashed = r.crashed
          /\ s.down_links = r.down_links /\ s.lossy_links = r.lossy_links
      BY <1>1, ControlsDo
    <3>2. network = _fire_fault(s)
      BY <2>4
    <3> HIDE DEF s, network
    <3>3. DOMAIN s = RunFields
      BY <1>1, <3>1 DEF Struck, SameClock
    <3>4. /\ SameClock(network, s) /\ SameNet(network, s)
          /\ SameQueue(network, s) /\ network._fault_seq = s._fault_seq + 1
      BY <3>2, <3>3, FireFaultDoes
    <3> QED BY <2>4, <3>1, <3>4 DEF Struck, SameClock, SameQueue, SameNet
  <2> QED BY <2>1, <2>2, <2>3, <2>4
<1>3. /\ draw.victim = None \/ draw.victim \notin r.crashed
      /\ draw.resume_delay \in Nat
  BY FaultsAssumption DEF Draws
<1>4. _fault_tick(r, draw) = o
  BY DEF _fault_tick
<1> HIDE DEF network
<1>5. DrawingInv(network)
  <2>1. network._fault_seq \in Nat
    BY <1>1, <1>2
  <2>2. QueueInv(network) /\ OrderInv(network)
    BY <1>1, <1>2, <2>1, QueueSame
  <2>3. network._heap = r._heap
    BY <1>2 DEF SameQueue
  <2>4. CrashInv(network)
    BY <1>1, <1>2, <2>3, PendingSame, CrashSame
  <2>5. LinkInv(network) /\ LossyInv(network)
    BY <1>1, <1>2, <2>3 DEF LinkInv, LossyInv, Pending
  <2>6. network._suppressed = r._suppressed
    BY <1>2 DEF SameClock
  <2>7. 0..(network._fault_seq - 1) \subseteq network._suppressed => ~Impaired(network)
    <3>1. CASE network._fault_seq = r._fault_seq /\ (is_partitioned(network) => is_partitioned(r))
      <4>1. Impaired(network) => Impaired(r)
        BY <1>2, <3>1 DEF Impaired
      <4> QED BY <1>1, <2>6, <3>1, <4>1 DEF SuppressedLeaveNoTrace
    <3>2. CASE /\ network._fault_seq = r._fault_seq + 1 /\ r._fault_seq \in r._suppressed
               /\ network._group = r._group
      <4>1. Impaired(network) => Impaired(r)
        BY <1>2, <3>2 DEF Impaired, is_partitioned
      <4>2. 0..(r._fault_seq - 1) \subseteq 0..(network._fault_seq - 1)
        BY <1>1, <3>2
      <4> QED BY <1>1, <2>6, <4>1, <4>2 DEF SuppressedLeaveNoTrace
    <3>3. CASE network._fault_seq = r._fault_seq + 1 /\ r._fault_seq \notin r._suppressed
      <4>1. r._fault_seq \in 0..(network._fault_seq - 1)
        BY <1>1, <3>3
      <4> QED BY <2>6, <3>3, <4>1
    <3> QED BY <1>2, <3>1, <3>2, <3>3
  <2>8. SuppressedLeaveNoTrace(network)
    BY <1>1, <2>3, <2>6, <2>7 DEF SuppressedLeaveNoTrace
  <2> QED BY <2>2, <2>4, <2>5, <2>8 DEF DrawingInv
<1>6. SameInjections(network, r) /\ DOMAIN network = RunFields
  BY <1>1, <1>2 DEF SameInjections, SameClock, SameQueue
<1>7. DrawingInv(crash) /\ SameInjections(crash, r)
  <2>1. CASE draw.victim = None
    BY <1>5, <1>6, <2>1
  <2>2. CASE draw.victim # None
    <3> DEFINE struck == pause(network, draw.victim)
               recovery == Recovery("resume", draw.victim, network._fault_seq)
    <3>1. /\ Struck(struck, network) /\ struck._group = network._group
          /\ struck.crashed = network.crashed \cup {draw.victim}
          /\ struck.down_links = network.down_links
          /\ struck.lossy_links = network.lossy_links
      BY <1>6, ControlsDo
    <3>2. Paired(network, struck, recovery)
      BY <1>2, <1>3, <2>2, <3>1 DEF Paired, Recovery, Ends
    <3>3. crash = Fault(network, struck, draw.resume_delay, recovery)
      BY <2>2
    <3> HIDE DEF struck, recovery, crash
    <3>4. DrawingInv(crash) /\ SameInjections(crash, network)
      BY <1>3, <1>5, <3>1, <3>2, <3>3, FaultKeeps
    <3> QED BY <1>6, <3>4 DEF SameInjections
  <2> QED BY <2>1, <2>2
<1> HIDE DEF crash
<1>8. Scheduled(crash, o, FAULT_INTERVAL, tick)
  BY <1>7, ScheduleDoes DEF DrawingInv, QueueInv
<1> DEFINE x == Event(crash, FAULT_INTERVAL, tick)
<1>9. /\ SameClock(o, crash) /\ SameNet(o, crash) /\ o._fault_seq = crash._fault_seq
      /\ o._heap = crash._heap \cup {x} /\ o._seq = crash._seq + 1 /\ x.fn = tick
  BY <1>8, EventFields DEF Scheduled
<1>10. /\ tick.kind = "fault_tick" /\ "fault_tick" \in Kinds /\ FAULT_INTERVAL \in Nat
       /\ crash._fault_seq \in Nat
  BY <1>7, FaultsAssumption DEF Kinds, DrawingInv, QueueInv
<1> HIDE DEF o, tick
<1>11. QueueInv(o) /\ OrderInv(o)
  BY <1>7, <1>9, <1>10, QueueGrows DEF DrawingInv
<1> HIDE DEF x
<1>12. \A kind, what : kind # "fault_tick" => Pending(o, kind, what) = Pending(crash, kind, what)
  BY <1>9, <1>10 DEF Pending
<1>13. CrashInv(o)
  BY <1>7, <1>9, <1>12, CrashSame DEF DrawingInv, SameNet
<1>14. LinkInv(o) /\ LossyInv(o)
  BY <1>7, <1>9, <1>12 DEF DrawingInv, LinkInv, LossyInv, SameNet
<1>15. PartitionInv(o)
  BY <1>9, <1>10 DEF PartitionInv
<1>16. SuppressedLeaveNoTrace(o)
  <2>1. Impaired(o) = Impaired(crash)
    BY <1>9 DEF SameNet, Impaired, is_partitioned
  <2>2. o._suppressed = crash._suppressed
    BY <1>9 DEF SameClock
  <2> QED BY <1>7, <1>9, <1>10, <2>1, <2>2 DEF DrawingInv, SuppressedLeaveNoTrace
<1>17. SameInjections(o, r)
  BY <1>7, <1>9, <1>10 DEF SameInjections, SameClock
<1> QED BY <1>4, <1>11, <1>13, <1>14, <1>15, <1>16, <1>17 DEF RunInv, DrawingInv

\* The injection that takes its turn is not earlier than any before it.
LEMMA InjectKeeps ==
    ASSUME NEW r, RunInv(r), r._heap # {}, NextEvent(r._heap).fn.kind = "inject", NEW leader
    PROVE  LET e == NextEvent(r._heap)
               o == [_nemesis_fire(Popped(r), e.fn.injection.op, leader)
                        EXCEPT !.fired = Append(@, e.fn.injection)]
           IN  /\ RunInv(o) /\ o.steps = r.steps + 1 /\ o._suppressed = r._suppressed
               /\ NoTicks(r) => NoTicks(o)
<1> DEFINE p == Popped(r)
           e == NextEvent(r._heap)
           inj == e.fn.injection
           q == _nemesis_fire(p, inj.op, leader)
           o == [q EXCEPT !.fired = Append(@, inj)]
<1>1. /\ QueueInv(p) /\ OrderInv(p) /\ SuppressedLeaveNoTrace(p)
      /\ e \in r._heap /\ p._heap = r._heap \ {e} /\ p.steps = r.steps + 1
      /\ p.fired = r.fired /\ p._suppressed = r._suppressed
      /\ CrashInv(p) /\ LinkInv(p) /\ LossyInv(p) /\ PartitionInv(p)
  BY PoppedKeeps
<1>2. RunInv(p)
  BY <1>1 DEF RunInv, DrawingInv
<1>3. QueueInv(r) /\ OrderInv(r)
  BY DEF RunInv, DrawingInv
<1>4. inj \in AllInjections /\ e.fn.kind = "inject"
  BY <1>1, <1>3 DEF QueueInv
<1>5. IsPattern(inj.op)
  BY <1>4, InjectionsPlanned DEF Planning
<1>6. RunInv(q) /\ SameInjections(q, p) /\ (NoTicks(p) => NoTicks(q))
  BY <1>2, <1>5, NemesisKeeps
<1>7. \A f \in r._heap : \/ e.at < f.at
                         \/ e.at = f.at /\ e.seq <= f.seq
  BY <1>3, NextIsFirst
<1>8. \A f \in p._heap : f.fn.kind = "inject" => Earlier(inj, f.fn.injection)
  <2> SUFFICES ASSUME NEW f \in r._heap, f.fn.kind = "inject"
               PROVE  Earlier(inj, f.fn.injection)
    BY <1>1
  <2>1. e.at = inj.at /\ f.at = f.fn.injection.at
    BY <1>1, <1>3, <1>4 DEF OrderInv
  <2>2. e.at = f.at /\ e.seq <= f.seq => inj.declared <= f.fn.injection.declared
    BY <1>1, <1>3, <1>4 DEF OrderInv
  <2> QED BY <1>7, <2>1, <2>2 DEF Earlier
<1>9. \A k \in DOMAIN r.fired : Earlier(r.fired[k], inj)
  BY <1>1, <1>3, <1>4 DEF OrderInv
<1>10. /\ q.fired \in Seq(AllInjections) /\ DOMAIN q = RunFields
       /\ q.fired = r.fired /\ q.steps = p.steps /\ q._suppressed = p._suppressed
  BY <1>1, <1>6 DEF RunInv, DrawingInv, OrderInv, QueueInv, SameInjections
<1> HIDE DEF q, inj, p, e
<1>11. /\ DOMAIN o = RunFields /\ o.fired = Append(q.fired, inj) /\ SameNet(o, q)
       /\ SameQueue(o, q) /\ o._fault_seq = q._fault_seq /\ o._suppressed = q._suppressed
       /\ o.now = q.now /\ o.steps = q.steps
  BY <1>10 DEF RunFields, SameNet, SameQueue
<1>12. /\ o.fired \in Seq(AllInjections) /\ Len(q.fired) \in Nat
       /\ DOMAIN q.fired = 1..Len(q.fired) /\ DOMAIN o.fired = 1..(Len(q.fired) + 1)
       /\ \A k \in 1..Len(q.fired) : o.fired[k] = q.fired[k]
       /\ o.fired[Len(q.fired) + 1] = inj
  BY <1>4, <1>10, <1>11
<1> HIDE DEF o
<1>13. OrderInv(o)
  <2>1. OrderInv(q)
    BY <1>6 DEF RunInv, DrawingInv
  <2>2. ASSUME NEW f \in o._heap, f.fn.kind = "inject", NEW k \in DOMAIN o.fired
        PROVE  Earlier(o.fired[k], f.fn.injection)
    <3>1. f \in q._heap /\ f \in p._heap
      BY <1>6, <1>11, <2>2 DEF SameQueue, SameInjections
    <3>2. CASE k = Len(q.fired) + 1
      BY <1>8, <1>12, <2>2, <3>1, <3>2
    <3>3. CASE k # Len(q.fired) + 1
      <4>1. k \in DOMAIN q.fired /\ o.fired[k] = q.fired[k]
        BY <1>12, <2>2, <3>3
      <4> QED BY <2>1, <2>2, <3>1, <4>1 DEF OrderInv
    <3> QED BY <3>2, <3>3
  <2>3. ASSUME NEW j \in DOMAIN o.fired, NEW k \in DOMAIN o.fired, j < k
        PROVE  Earlier(o.fired[j], o.fired[k])
    <3>1. j \in DOMAIN q.fired /\ o.fired[j] = q.fired[j]
      BY <1>12, <2>3
    <3>2. CASE k = Len(q.fired) + 1
      BY <1>9, <1>10, <1>12, <3>1, <3>2
    <3>3. CASE k # Len(q.fired) + 1
      <4>1. k \in DOMAIN q.fired /\ o.fired[k] = q.fired[k]
        BY <1>12, <2>3, <3>3
      <4> QED BY <2>1, <2>3, <3>1, <4>1 DEF OrderInv, InDeclaredOrder, Earlier
    <3> QED BY <3>2, <3>3
  <2>4. InDeclaredOrder(o)
    BY <2>3 DEF InDeclaredOrder, Earlier
  <2>5. o._heap = q._heap
    BY <1>11 DEF SameQueue
  <2> QED BY <1>12, <2>1, <2>2, <2>4, <2>5 DEF OrderInv
<1>14. QueueInv(o)
  BY <1>6, <1>11 DEF RunInv, DrawingInv, QueueInv, SameQueue
<1>15. o._heap = q._heap
  BY <1>11 DEF SameQueue
<1>16. CrashInv(o)
  BY <1>6, <1>11, <1>15, PendingSame, CrashSame DEF RunInv, DrawingInv, SameNet
<1>17. LinkInv(o) /\ LossyInv(o) /\ PartitionInv(o)
  BY <1>6, <1>11, <1>15 DEF RunInv, DrawingInv, SameNet, LinkInv, LossyInv, PartitionInv, Pending,
                            is_partitioned
<1>18. SuppressedLeaveNoTrace(o)
  <2>1. Impaired(o) = Impaired(q)
    BY <1>11 DEF SameNet, Impaired, is_partitioned
  <2> QED BY <1>6, <1>11, <1>15, <2>1 DEF RunInv, DrawingInv, SuppressedLeaveNoTrace
<1>19. NoTicks(r) => NoTicks(o)
  BY <1>1, <1>6, <1>15 DEF NoTicks
<1> QED BY <1>1, <1>10, <1>11, <1>13, <1>14, <1>16, <1>17, <1>18, <1>19
        DEF RunInv, DrawingInv, o, q, inj, p, e

LEMMA RunStep ==
    ASSUME NEW r, RunInv(r), r._heap # {}, NEW leader, NEW o \in Stepped(r, leader)
    PROVE  /\ RunInv(o) /\ o.steps = r.steps + 1 /\ o._suppressed = r._suppressed
           /\ NoTicks(r) => NoTicks(o)
<1> DEFINE p == Popped(r)
           e == NextEvent(r._heap)
<1>1. /\ QueueInv(p) /\ OrderInv(p) /\ SuppressedLeaveNoTrace(p)
      /\ e \in r._heap /\ p.steps = r.steps + 1 /\ p._suppressed = r._suppressed
      /\ e.fn.kind = "fault_tick" => CrashInv(p) /\ LinkInv(p) /\ LossyInv(p)
  BY PoppedKeeps
<1>2. e.fn.kind \in Kinds
  BY <1>1 DEF RunInv, DrawingInv, QueueInv
<1>3. CASE e.fn.kind = "inject"
  <2>1. o = [_nemesis_fire(p, e.fn.injection.op, leader)
                EXCEPT !.fired = Append(@, e.fn.injection)]
    BY <1>3 DEF Stepped
  <2> QED BY <1>3, <2>1, InjectKeeps
<1>4. CASE e.fn.kind = "fault_tick"
  <2>1. PICK draw \in Draws(p) : o = _fault_tick(p, draw)
    BY <1>4 DEF Stepped
  <2>2. DrawingInv(p)
    BY <1>1, <1>4 DEF DrawingInv
  <2> HIDE DEF p
  <2>3. RunInv(o) /\ SameInjections(o, p)
    BY <2>1, <2>2, TickKeeps
  <2>4. ~NoTicks(r)
    BY <1>1, <1>4 DEF NoTicks
  <2> QED BY <1>1, <2>3, <2>4 DEF SameInjections
<1>5. CASE e.fn.kind \in Ends
  <2>1. o = Recover(p, e.fn)
    BY <1>5 DEF Stepped, Ends
  <2> QED BY <1>5, <2>1, RecoverKeeps
<1> QED BY <1>2, <1>3, <1>4, <1>5 DEF Kinds

LEMMA StartGood ==
    ASSUME NEW c \in Scenarios, NEW mask
    PROVE  LET r == Start(c.ops, c.chaos, mask) IN
           /\ RunInv(r) /\ r.steps = 0 /\ r._suppressed = mask
           /\ ~c.chaos => NoTicks(r)
<1> DEFINE fresh == [now |-> 0, steps |-> 0, _heap |-> {}, _seq |-> 0, fired |-> <<>>,
                     _group |-> [i \in Node |-> 0], crashed |-> {}, down_links |-> {},
                     lossy_links |-> {}, _fault_seq |-> 0, _suppressed |-> mask]
           tick == [kind |-> "fault_tick"]
           driven == IF c.chaos THEN schedule(fresh, FAULT_INTERVAL, tick) ELSE fresh
           all == injections(c.ops)
           r == Start(c.ops, c.chaos, mask)
           Put(inj) == [at |-> inj.at, seq |-> driven._seq + Place(inj, all),
                        fn |-> [kind |-> "inject", injection |-> inj]]
<1>1. c.chaos \in BOOLEAN
  BY ShrinkAssumption
<1>2. DOMAIN fresh = RunFields
  BY DEF RunFields
<1>3. /\ DOMAIN driven = RunFields /\ SameNet(driven, fresh)
      /\ driven.now = 0 /\ driven.steps = 0 /\ driven.fired = <<>> /\ driven._fault_seq = 0
      /\ driven._suppressed = mask /\ driven._seq \in Nat
      /\ \A e \in driven._heap : /\ e.at \in Nat /\ e.seq \in Nat /\ e.seq < driven._seq
                                 /\ e.fn.kind = "fault_tick"
      /\ \A e, f \in driven._heap : e = f
      /\ ~c.chaos => driven._heap = {}
  <2>1. CASE ~c.chaos
    BY <1>2, <2>1 DEF SameNet
  <2>2. CASE c.chaos
    <3> DEFINE s == schedule(fresh, FAULT_INTERVAL, tick)
               x == Event(fresh, FAULT_INTERVAL, tick)
    <3>1. Scheduled(fresh, s, FAULT_INTERVAL, tick)
      BY <1>2, ScheduleDoes
    <3>2. driven = s
      BY <2>2
    <3>3. x.at = 0 + FAULT_INTERVAL /\ x.seq = 0 /\ x.fn.kind = "fault_tick"
      BY EventFields
    <3>4. /\ fresh.now = 0 /\ fresh.steps = 0 /\ fresh.fired = <<>> /\ fresh._fault_seq = 0
          /\ fresh._suppressed = mask /\ fresh._seq = 0 /\ fresh._heap = {}
      OBVIOUS
    <3> HIDE DEF fresh, s, driven, tick
    <3>5. s._heap = fresh._heap \cup {x} /\ s._seq = fresh._seq + 1
      BY <3>1 DEF Scheduled
    <3>6. s._heap = {x} /\ s._seq = 1
      BY <3>4, <3>5
    <3> HIDE DEF x
    <3>7. FAULT_INTERVAL \in Nat
      BY FaultsAssumption
    <3> QED BY <1>2, <2>2, <3>1, <3>2, <3>3, <3>4, <3>6, <3>7 DEF Scheduled, SameClock
  <2> QED BY <1>1, <2>1, <2>2
<1>4. SameNet(driven, fresh) => /\ driven.crashed = {} /\ driven.down_links = {}
                               /\ driven.lossy_links = {} /\ driven._group = [i \in Node |-> 0]
  BY DEF SameNet
<1>5. r = [driven EXCEPT !._heap = @ \cup {Put(inj) : inj \in all}, !._seq = @ + Cardinality(all)]
  BY DEF Start
<1> HIDE DEF fresh, driven, r
<1>6. /\ r._heap = driven._heap \cup {Put(inj) : inj \in all}
      /\ r._seq = driven._seq + Cardinality(all)
      /\ DOMAIN r = RunFields /\ r.now = 0 /\ r.steps = 0 /\ r.fired = <<>> /\ r._fault_seq = 0
      /\ r._suppressed = mask /\ SameNet(r, driven)
  BY <1>3, <1>5 DEF RunFields, SameNet
<1>7. /\ IsFiniteSet(all) /\ Cardinality(all) \in Nat
      /\ \A x \in all : Planning(x)
      /\ \A x, y \in all : x.at = y.at /\ x.declared = y.declared => x = y
  BY ExpandedInjections, FS_CardinalityType
<1>8. all \subseteq AllInjections
  BY DEF AllInjections
<1> HIDE DEF all
<1>9. ASSUME NEW x \in all
      PROVE  /\ Place(x, all) \in Nat /\ Place(x, all) < Cardinality(all)
             /\ \A y \in all : FiresFirst(x, y) => Place(x, all) < Place(y, all)
  BY <1>7, Places DEF Planning
<1>10. ASSUME NEW e \in r._heap, e \notin driven._heap
       PROVE  \E x \in all : /\ e = Put(x) /\ e.at = x.at /\ e.seq = driven._seq + Place(x, all)
                             /\ e.fn.kind = "inject" /\ e.fn.injection = x
  BY <1>6, <1>10
<1> HIDE DEF Put
<1>11. ASSUME NEW e \in r._heap
       PROVE  /\ e.at \in Nat /\ e.seq \in Nat /\ e.seq < r._seq
              /\ e.fn.kind \in {"inject", "fault_tick"}
              /\ e.fn.kind = "inject" =>
                    /\ e.fn.injection \in all /\ e.at = e.fn.injection.at
                    /\ e.seq = driven._seq + Place(e.fn.injection, all)
              /\ e.fn.kind = "fault_tick" => e \in driven._heap
  <2>1. CASE e \in driven._heap
    BY <1>3, <1>6, <1>7, <2>1
  <2>2. CASE e \notin driven._heap
    <3>1. PICK x \in all : /\ e = Put(x) /\ e.at = x.at /\ e.seq = driven._seq + Place(x, all)
                           /\ e.fn.kind = "inject" /\ e.fn.injection = x
      BY <1>10, <2>2
    <3>2. Place(x, all) \in Nat /\ Place(x, all) < Cardinality(all) /\ x.at \in Nat
      BY <1>7, <1>9 DEF Planning
    <3> QED BY <1>3, <1>6, <1>7, <3>1, <3>2
  <2> QED BY <2>1, <2>2
<1>12. ASSUME NEW e \in r._heap, NEW f \in r._heap, e.seq = f.seq PROVE e = f
  <2>1. CASE e \in driven._heap /\ f \in driven._heap
    BY <1>3, <2>1
  <2>2. CASE e \in driven._heap /\ f \notin driven._heap
    <3>1. PICK y \in all : f.seq = driven._seq + Place(y, all)
      BY <1>10, <2>2
    <3>2. Place(y, all) \in Nat
      BY <1>9
    <3>3. e.seq \in Nat /\ e.seq < driven._seq /\ driven._seq \in Nat
      BY <1>3, <2>2
    <3> QED BY ONLY <1>12, <3>1, <3>2, <3>3
  <2>3. CASE e \notin driven._heap /\ f \in driven._heap
    <3>1. PICK y \in all : e.seq = driven._seq + Place(y, all)
      BY <1>10, <2>3
    <3>2. Place(y, all) \in Nat
      BY <1>9
    <3>3. f.seq \in Nat /\ f.seq < driven._seq /\ driven._seq \in Nat
      BY <1>3, <2>3
    <3> QED BY ONLY <1>12, <3>1, <3>2, <3>3
  <2>4. CASE e \notin driven._heap /\ f \notin driven._heap
    <3>1. PICK x \in all : e = Put(x) /\ e.seq = driven._seq + Place(x, all)
      BY <1>10, <2>4
    <3>2. PICK y \in all : f = Put(y) /\ f.seq = driven._seq + Place(y, all)
      BY <1>10, <2>4
    <3>3. Place(x, all) \in Nat /\ Place(y, all) \in Nat
      BY <1>9
    <3>4. Place(x, all) = Place(y, all)
      BY <1>3, <1>12, <3>1, <3>2, <3>3
    <3>5. ~FiresFirst(x, y) /\ ~FiresFirst(y, x)
      BY <1>9, <3>3, <3>4
    <3>6. x.at \in Nat /\ y.at \in Nat /\ x.declared \in Nat /\ y.declared \in Nat
      BY <1>7 DEF Planning
    <3>7. x.at = y.at /\ x.declared = y.declared
      BY <3>5, <3>6 DEF FiresFirst
    <3>8. x = y
      BY ONLY <1>7, <3>7
    <3> QED BY <3>1, <3>2, <3>8
  <2> QED BY <2>1, <2>2, <2>3, <2>4
<1>13. QueueInv(r)
  BY <1>3, <1>6, <1>7, <1>8, <1>11, <1>12 DEF QueueInv, Kinds
<1>14. OrderInv(r)
  <2>1. r.fired \in Seq(AllInjections) /\ DOMAIN r.fired = {}
    BY <1>6
  <2>2. InDeclaredOrder(r)
    BY <2>1 DEF InDeclaredOrder
  <2>3. ASSUME NEW e \in r._heap, NEW f \in r._heap, e.fn.kind = "inject", f.fn.kind = "inject",
               e.at = f.at, e.seq <= f.seq
        PROVE  e.fn.injection.declared <= f.fn.injection.declared
    <3> DEFINE x == e.fn.injection
               y == f.fn.injection
    <3>1. /\ x \in all /\ y \in all /\ e.at = x.at /\ f.at = y.at
          /\ e.seq = driven._seq + Place(x, all) /\ f.seq = driven._seq + Place(y, all)
      BY <1>11, <2>3
    <3> HIDE DEF x, y
    <3>2. Place(x, all) \in Nat /\ Place(y, all) \in Nat /\ x.declared \in Nat /\ y.declared \in Nat
      BY <1>7, <1>9, <3>1 DEF Planning
    <3>3. Place(x, all) <= Place(y, all)
      BY <1>3, <2>3, <3>1, <3>2
    <3>4. ~FiresFirst(y, x)
      BY <1>9, <3>1, <3>2, <3>3
    <3>5. x.at = y.at
      BY <2>3, <3>1
    <3>6. x.declared <= y.declared
      BY ONLY <3>2, <3>4, <3>5 DEF FiresFirst
    <3> QED BY <3>6 DEF x, y
  <2> QED BY <1>11, <2>1, <2>2, <2>3 DEF OrderInv
<1>15. /\ r.crashed = {} /\ r.down_links = {} /\ r.lossy_links = {}
       /\ ~is_partitioned(r)
  BY <1>3, <1>4, <1>6 DEF SameNet, is_partitioned
<1>16. CrashInv(r)
  BY <1>11, <1>15 DEF CrashInv, Pending
<1>17. LinkInv(r) /\ LossyInv(r) /\ PartitionInv(r)
  BY <1>15 DEF LinkInv, LossyInv, PartitionInv
<1>18. SuppressedLeaveNoTrace(r)
  BY <1>11, <1>15 DEF SuppressedLeaveNoTrace, Impaired
<1>19. ~c.chaos => NoTicks(r)
  BY <1>3, <1>11 DEF NoTicks
<1> QED BY <1>6, <1>13, <1>14, <1>16, <1>17, <1>18, <1>19 DEF RunInv, DrawingInv, r

---------------------------------------------------------------------------
(***************************************************************************)
(* A scheduled run is replayed exactly: which scenario, mask and budget    *)
(* decides its outcome, so that what one run showed holds of a later one.  *)
(***************************************************************************)

FailuresAfter(c, failures, r, were) ==
    [s \in Signature |->
        LET cause == c.fails[s]
        IN  IF /\ failures[s] = 0 /\ cause.strikes
               /\ cause.needs \subseteq Impairments(r)
               /\ cause.spoilt \cap were = {}
            THEN r.steps ELSE failures[s]]

\* A run with its impairments and failures so far.
Begin(c, mask) == <<Start(c.ops, c.chaos, mask), {}, [s \in Signature |-> 0]>>
Stuck(x) == x[1]._heap = {} \/ x[3]["invariant"] # 0
Advance(c, x, y) ==
    /\ ~Stuck(x)
    /\ \E r \in Stepped(x[1], c.leader) :
          LET were == x[2] \cup Impairments(r)
          IN  y = <<r, were, FailuresAfter(c, x[3], r, were)>>
Trace(c, mask, K, f) ==
    /\ f[0] = Begin(c, mask)
    /\ \A k \in 1..K : Advance(c, f[k - 1], f[k])

Verdict(failures) ==
    IF failures["invariant"] # 0 THEN "invariant"
    ELSE IF failures["nonlinearizable"] # 0 THEN "nonlinearizable" ELSE None

\* The run of c with this mask and this budget takes K steps, and its verdict.
Whole(c, mask, budget, K, f) ==
    /\ K \in 0..budget /\ Trace(c, mask, K, f)
    /\ K = budget \/ Stuck(f[K])
Gives(c, mask, budget, verdict) ==
    \E K, f : Whole(c, mask, budget, K, f) /\ verdict = Verdict(f[K][3])

GoodOutcome(x, k) ==
    /\ RunInv(x[1]) /\ x[1].steps = k /\ NoTicks(x[1])
    /\ \A s \in Signature : x[3][s] \in 0..k

LEMMA AdvanceGood ==
    ASSUME NEW c, NEW x, NEW y, NEW k \in Nat, GoodOutcome(x, k), Advance(c, x, y)
    PROVE  /\ GoodOutcome(y, k + 1) /\ y[1]._suppressed = x[1]._suppressed
           /\ \A s \in Signature : y[3][s] = x[3][s] \/ (x[3][s] = 0 /\ y[3][s] = k + 1)
<1>1. PICK r \in Stepped(x[1], c.leader) :
          y = <<r, x[2] \cup Impairments(r), FailuresAfter(c, x[3], r, x[2] \cup Impairments(r))>>
  BY DEF Advance
<1> DEFINE were == x[2] \cup Impairments(r)
<1>2. x[1]._heap # {} /\ RunInv(x[1]) /\ x[1].steps = k /\ NoTicks(x[1])
  BY DEF Advance, Stuck, GoodOutcome
<1>3. /\ RunInv(r) /\ r.steps = k + 1 /\ r._suppressed = x[1]._suppressed /\ NoTicks(r)
  BY <1>2, RunStep
<1>4. y[1] = r /\ y[3] = FailuresAfter(c, x[3], r, were)
  BY <1>1
<1> HIDE DEF were
<1>5. ASSUME NEW s \in Signature
      PROVE  y[3][s] = x[3][s] \/ (x[3][s] = 0 /\ y[3][s] = k + 1)
  BY <1>3, <1>4 DEF FailuresAfter
<1>6. \A s \in Signature : x[3][s] \in 0..k
  BY DEF GoodOutcome
<1>7. \A s \in Signature : y[3][s] \in 0..(k + 1)
  BY <1>5, <1>6
<1> QED BY <1>3, <1>4, <1>5, <1>7 DEF GoodOutcome

LEMMA BeginGood ==
    ASSUME NEW c \in Scenarios, ~c.chaos, NEW mask
    PROVE  GoodOutcome(Begin(c, mask), 0) /\ Begin(c, mask)[1]._suppressed = mask
<1> DEFINE r == Start(c.ops, c.chaos, mask)
<1>1. RunInv(r) /\ r.steps = 0 /\ r._suppressed = mask /\ NoTicks(r)
  BY StartGood
<1> HIDE DEF r
<1>2. Begin(c, mask) = <<r, {}, [s \in Signature |-> 0]>>
  BY DEF Begin, r
<1> QED BY <1>1, <1>2 DEF GoodOutcome

LEMMA TraceGood ==
    ASSUME NEW c \in Scenarios, ~c.chaos, NEW mask, NEW K \in Nat, NEW f, Trace(c, mask, K, f)
    PROVE  \A k \in 0..K : GoodOutcome(f[k], k)
<1> DEFINE S == {k \in 0..K : GoodOutcome(f[k], k)}
<1>1. 0 \in S
  BY BeginGood DEF Trace
<1>2. ASSUME NEW k \in 0..K, k < K, k \in S PROVE k + 1 \in S
  <2>1. k + 1 \in 1..K /\ (k + 1) - 1 = k /\ k \in Nat
    BY <1>2
  <2>2. Advance(c, f[k], f[k + 1])
    BY <2>1 DEF Trace
  <2>3. GoodOutcome(f[k + 1], k + 1)
    BY <1>2, <2>1, <2>2, AdvanceGood
  <2> QED BY <2>1, <2>3
<1> HIDE DEF S
<1>3. 0..K \subseteq S
  BY ONLY <1>1, <1>2, IntervalInduction
<1> QED BY <1>3 DEF S

LEMMA AdvanceUnique ==
    ASSUME NEW c, NEW x, NEW y, NEW z, NEW k \in Nat, GoodOutcome(x, k),
           Advance(c, x, y), Advance(c, x, z)
    PROVE  y = z
<1> DEFINE r == x[1]
           e == NextEvent(r._heap)
<1>1. RunInv(r) /\ NoTicks(r) /\ r._heap # {}
  BY DEF GoodOutcome, Advance, Stuck
<1>2. e \in r._heap
  BY <1>1, NextIsFirst DEF RunInv, DrawingInv
<1>3. e.fn.kind # "fault_tick"
  BY <1>1, <1>2 DEF NoTicks
<1>4. \A o, q \in Stepped(r, c.leader) : o = q
  BY <1>3 DEF Stepped
<1>5. PICK o \in Stepped(r, c.leader) :
          y = <<o, x[2] \cup Impairments(o), FailuresAfter(c, x[3], o, x[2] \cup Impairments(o))>>
  BY DEF Advance
<1>6. PICK q \in Stepped(r, c.leader) :
          z = <<q, x[2] \cup Impairments(q), FailuresAfter(c, x[3], q, x[2] \cup Impairments(q))>>
  BY DEF Advance
<1>7. o = q
  BY <1>4
<1> QED BY <1>5, <1>6, <1>7

LEMMA TracesAgree ==
    ASSUME NEW c \in Scenarios, ~c.chaos, NEW mask, NEW K \in Nat, NEW L \in Nat, K <= L,
           NEW f, Trace(c, mask, K, f), NEW g, Trace(c, mask, L, g)
    PROVE  \A k \in 0..K : f[k] = g[k]
<1> DEFINE S == {k \in 0..K : f[k] = g[k]}
<1>1. 0 \in S
  BY DEF Trace
<1>2. ASSUME NEW k \in 0..K, k < K, k \in S PROVE k + 1 \in S
  <2>1. k + 1 \in 1..K /\ k + 1 \in 1..L /\ (k + 1) - 1 = k /\ k \in Nat /\ k + 1 \in 0..K
    BY <1>2
  <2>2. Advance(c, f[k], f[k + 1]) /\ Advance(c, g[k], g[k + 1])
    BY <2>1 DEF Trace
  <2>3. f[k] = g[k] /\ GoodOutcome(f[k], k)
    BY <1>2, TraceGood
  <2>4. f[k + 1] = g[k + 1]
    BY <2>1, <2>2, <2>3, AdvanceUnique
  <2> QED BY <2>1, <2>4
<1> HIDE DEF S
<1>3. 0..K \subseteq S
  BY ONLY <1>1, <1>2, IntervalInduction
<1> QED BY <1>3 DEF S

\* Two runs of the same kind end alike.
LEMMA EndsAgree ==
    ASSUME NEW c \in Scenarios, ~c.chaos, NEW mask, NEW budget \in Nat,
           NEW K, NEW f, Whole(c, mask, budget, K, f),
           NEW L, NEW g, Whole(c, mask, budget, L, g)
    PROVE  K = L /\ f[K] = g[L]
<1>0. /\ K \in 0..budget /\ Trace(c, mask, K, f) /\ (K = budget \/ Stuck(f[K]))
      /\ L \in 0..budget /\ Trace(c, mask, L, g) /\ (L = budget \/ Stuck(g[L]))
  BY DEF Whole
<1>1. ASSUME K < L PROVE FALSE
  <2>1. f[K] = g[K]
    BY <1>0, <1>1, TracesAgree
  <2>2. Stuck(g[K])
    BY <1>0, <1>1, <2>1
  <2>3. K + 1 \in 1..L /\ (K + 1) - 1 = K
    BY <1>0, <1>1
  <2>4. Advance(c, g[K], g[K + 1])
    BY <1>0, <2>3 DEF Trace
  <2> QED BY <2>2, <2>4 DEF Advance
<1>2. ASSUME L < K PROVE FALSE
  <2>1. f[L] = g[L]
    BY <1>0, <1>2, TracesAgree
  <2>2. Stuck(f[L])
    BY <1>0, <1>2, <2>1
  <2>3. L + 1 \in 1..K /\ (L + 1) - 1 = L
    BY <1>0, <1>2
  <2>4. Advance(c, f[L], f[L + 1])
    BY <1>0, <2>3 DEF Trace
  <2> QED BY <2>2, <2>4 DEF Advance
<1>3. K = L /\ K \in Nat /\ L \in Nat /\ K <= L /\ K \in 0..K
  BY <1>0, <1>1, <1>2
<1>4. \A k \in 0..K : f[k] = g[k]
  BY <1>0, <1>3, TracesAgree
<1>5. f[K] = g[K]
  BY <1>3, <1>4
<1>6. K = L
  BY <1>3
<1> QED BY ONLY <1>5, <1>6, Zenon

LEMMA GivesOne ==
    ASSUME NEW c \in Scenarios, ~c.chaos, NEW mask, NEW budget \in Nat,
           NEW v, NEW w, Gives(c, mask, budget, v), Gives(c, mask, budget, w)
    PROVE  v = w
<1>1. PICK K, f : Whole(c, mask, budget, K, f) /\ v = Verdict(f[K][3])
  BY DEF Gives
<1>2. PICK L, g : Whole(c, mask, budget, L, g) /\ w = Verdict(g[L][3])
  BY DEF Gives
<1>3. K = L /\ f[K] = g[L]
  BY <1>1, <1>2, EndsAgree
<1> QED BY <1>1, <1>2, <1>3

\* A failure that has struck before the last step is there one step earlier.
LEMMA StruckBefore ==
    ASSUME NEW c \in Scenarios, ~c.chaos, NEW mask, NEW K \in Nat \ {0}, NEW f,
           Trace(c, mask, K, f), NEW s \in Signature, f[K][3][s] \in 1..(K - 1)
    PROVE  /\ f[K - 1][3][s] # 0 /\ f[K - 1][3]["invariant"] = 0
           /\ Gives(c, mask, K - 1, Verdict(f[K - 1][3]))
<1>1. K \in 1..K /\ K - 1 \in 0..K /\ K - 1 \in Nat /\ (K - 1) + 1 = K
  OBVIOUS
<1>2. Advance(c, f[K - 1], f[K])
  BY <1>1 DEF Trace
<1>3. GoodOutcome(f[K - 1], K - 1)
  BY <1>1, TraceGood
<1>4. f[K][3][s] = f[K - 1][3][s] \/ f[K][3][s] = K
  <2> DEFINE J == K - 1
  <2>1. J \in Nat /\ J + 1 = K /\ GoodOutcome(f[J], J) /\ Advance(c, f[J], f[K])
    BY <1>1, <1>2, <1>3
  <2> HIDE DEF J
  <2>2. f[K][3][s] = f[J][3][s] \/ f[K][3][s] = J + 1
    BY <2>1, AdvanceGood
  <2> QED BY <2>1, <2>2 DEF J
<1>5. f[K - 1][3][s] # 0
  BY <1>4
<1>6. f[K - 1][3]["invariant"] = 0
  BY <1>2 DEF Advance, Stuck
<1>7. Trace(c, mask, K - 1, f)
  BY <1>1 DEF Trace
<1>8. K - 1 \in 0..(K - 1)
  BY <1>1
<1>9. Whole(c, mask, K - 1, K - 1, f)
  BY <1>7, <1>8 DEF Whole
<1> QED BY <1>5, <1>6, <1>9 DEF Gives

---------------------------------------------------------------------------
(* The parts that ddmin leaves out. *)

LEMMA Divided ==
    ASSUME NEW a \in Nat, NEW b \in Nat \ {0}
    PROVE  a \div b \in Nat /\ b * (a \div b) <= a /\ a < b * (a \div b) + b
<1>1. a = (b * (a \div b)) + (a % b) /\ (a % b) \in 0..(b - 1)
  OBVIOUS
<1>2. (a \div b) \in Nat
  OBVIOUS
<1>3. (b * (a \div b)) \in Nat
  BY <1>2
<1> DEFINE p == b * (a \div b)
           m == a % b
<1>4. p \in Nat /\ m \in 0..(b - 1) /\ a = p + m
  BY <1>1, <1>3
<1> HIDE DEF p, m
<1>5. p <= a /\ a < p + b
  BY <1>4
<1> QED BY <1>2, <1>5 DEF p

LEMMA RankGrows ==
    ASSUME NEW S \in SUBSET Nat, IsFiniteSet(S), NEW e \in S
    PROVE  /\ Rank(e, S) \in Nat /\ Rank(e, S) < Cardinality(S)
           /\ \A f \in S : e < f => Rank(e, S) < Rank(f, S)
<1> DEFINE Below(x) == {f \in S : f < x}
<1>1. \A x \in S : x \notin Below(x)
  OBVIOUS
<1>2. \A x \in S : IsFiniteSet(Below(x)) /\ Cardinality(Below(x)) \in Nat
  <2> TAKE x \in S
  <2>1. IsFiniteSet(Below(x))
    BY FS_Subset
  <2> QED BY <2>1, FS_CardinalityType
<1>3. \A x : Rank(x, S) = Cardinality(Below(x))
  BY DEF Rank
<1>4. ASSUME NEW f \in S, e < f PROVE Below(e) \subseteq Below(f) /\ e \in Below(f)
  <2>1. e \in Nat /\ f \in Nat
    OBVIOUS
  <2>2. ASSUME NEW x \in S, x < e PROVE x < f
    <3>1. x \in Nat
      OBVIOUS
    <3> QED BY ONLY <1>4, <2>1, <2>2, <3>1
  <2> QED BY <1>4, <2>2
<1>5. Below(e) \subseteq S
  OBVIOUS
<1> HIDE DEF Below
<1>6. Cardinality(S) \in Nat /\ Cardinality(Below(e)) < Cardinality(S)
  <2>1. Cardinality(S) \in Nat
    BY FS_CardinalityType
  <2>2. Cardinality(Below(e)) <= Cardinality(S) /\ Cardinality(Below(e)) # Cardinality(S)
    BY <1>1, <1>5, FS_Subset
  <2> QED BY <1>2, <2>1, <2>2
<1>7. ASSUME NEW f \in S, e < f PROVE Cardinality(Below(e)) < Cardinality(Below(f))
  <2>1. Below(e) \subseteq Below(f) /\ Below(e) # Below(f)
    BY <1>1, <1>4, <1>7
  <2>2. Cardinality(Below(e)) <= Cardinality(Below(f)) /\ Cardinality(Below(e)) # Cardinality(Below(f))
    BY <1>2, <2>1, FS_Subset
  <2> QED BY <1>2, <2>2
<1> QED BY <1>2, <1>3, <1>6, <1>7

LEMMA ChunkFits ==
    ASSUME NEW size \in Nat, NEW parts \in 2..size
    PROVE  /\ Chunk(size, parts) \in Nat \ {0} /\ parts * Chunk(size, parts) <= size
           /\ Exhausted(parts, size) => Chunk(size, parts) = 1
<1> DEFINE q == size \div parts
<1>1. parts \in Nat \ {0}
  OBVIOUS
<1>2. q \in Nat /\ parts * q <= size /\ size < parts * q + parts
  BY <1>1, Divided
<1> HIDE DEF q
<1>3. q # 0
  BY <1>2
<1>4. Chunk(size, parts) = q
  BY <1>3 DEF Chunk, q
<1>5. ASSUME parts >= size PROVE q = 1
  <2>1. parts = size
    BY <1>5
  <2>2. size * q <= size /\ size < size * q + size /\ size \in Nat \ {0}
    BY <1>1, <1>2, <2>1
  <2>3. q < 2
    <3> SUFFICES ASSUME q >= 2 PROVE FALSE
      BY <1>2
    <3>1. size * q >= size * 2
      BY <1>2, <2>2
    <3>2. size * 2 = size + size /\ size * q \in Nat
      BY <1>2, <2>2
    <3> QED BY ONLY <2>2, <3>1, <3>2
  <2> QED BY <1>2, <1>3, <2>3
<1> QED BY <1>2, <1>3, <1>4, <1>5 DEF Exhausted

LEMMA SomeSubsets ==
    ASSUME NEW S, IsFiniteSet(S), NEW parts \in 2..Cardinality(S)
    PROVE  /\ Subsets(S, parts) \in Nat \ {0}
           /\ Exhausted(parts, Cardinality(S)) => Subsets(S, parts) = Cardinality(S)
<1> DEFINE size == Cardinality(S)
           chunk == Chunk(size, parts)
           a == size + chunk - 1
<1>1. size \in Nat /\ parts \in 2..size
  BY FS_CardinalityType
<1> HIDE DEF size
<1>2. chunk \in Nat \ {0} /\ parts * chunk <= size /\ (Exhausted(parts, size) => chunk = 1)
  BY <1>1, ChunkFits
<1>3. Subsets(S, parts) = a \div chunk
  BY DEF Subsets, size
<1> HIDE DEF chunk
<1>4. a \in Nat /\ a >= chunk
  BY <1>1, <1>2
<1>5. a \div chunk \in Nat /\ chunk * (a \div chunk) <= a /\ a < chunk * (a \div chunk) + chunk
  BY <1>2, <1>4, Divided
<1>6. a \div chunk # 0
  BY <1>2, <1>4, <1>5
<1>7. chunk = 1 => a \div chunk = size
  BY <1>1, <1>4, <1>5
<1> QED BY <1>2, <1>3, <1>5, <1>6, <1>7 DEF size

\* What is left is most of the elements, and all but one at the finest division.
LEMMA ComplementLeaves ==
    ASSUME NEW S \in SUBSET Nat, IsFiniteSet(S), NEW parts \in 2..Cardinality(S), NEW k \in Nat
    PROVE  /\ Complement(S, parts, k) \subseteq S
           /\ IsFiniteSet(Complement(S, parts, k)) /\ Cardinality(Complement(S, parts, k)) \in Nat
           /\ Cardinality(Complement(S, parts, k)) >= parts - 1
<1> DEFINE size == Cardinality(S)
           chunk == Chunk(size, parts)
           C == Complement(S, parts, k)
           R == {e \in S : Rank(e, S) \div chunk = k}
           I == (k * chunk)..(k * chunk + chunk - 1)
<1>1. size \in Nat /\ parts \in 2..size
  BY FS_CardinalityType
<1>2. C = S \ R
  BY DEF Complement
<1>3. R \subseteq S
  OBVIOUS
<1> HIDE DEF size
<1>4. chunk \in Nat \ {0} /\ parts * chunk <= size
  BY <1>1, ChunkFits
<1> HIDE DEF chunk, C
<1>5. ASSUME NEW e \in R PROVE Rank(e, S) \in I
  <2>1. Rank(e, S) \in Nat /\ Rank(e, S) \div chunk = k
    BY RankGrows
  <2>2. chunk * k <= Rank(e, S) /\ Rank(e, S) < chunk * k + chunk
    BY <1>4, <2>1, Divided
  <2>3. chunk * k = k * chunk /\ k * chunk \in Nat
    BY <1>4
  <2> QED BY <1>4, <2>1, <2>2, <2>3
<1> DEFINE g == [e \in R |-> Rank(e, S)]
<1>6. g \in Injection(R, I)
  <2>1. g \in [R -> I]
    BY <1>5
  <2>2. ASSUME NEW e \in R, NEW f \in R, g[e] = g[f] PROVE e = f
    <3>1. e \in Nat /\ f \in Nat /\ Rank(e, S) = Rank(f, S) /\ Rank(e, S) \in Nat
      BY <2>2, RankGrows
    <3>2. ~(e < f) /\ ~(f < e)
      BY <3>1, RankGrows
    <3> QED BY <3>1, <3>2
  <2> QED BY <2>1, <2>2 DEF Injection, IsInjective
<1> HIDE DEF R, I, g
<1>7. IsFiniteSet(I) /\ Cardinality(I) = chunk
  <2>1. k * chunk \in Nat
    BY <1>4
  <2>2. k * chunk \in Int /\ k * chunk + chunk - 1 \in Int
    BY <1>4, <2>1
  <2>3. /\ IsFiniteSet((k * chunk)..(k * chunk + chunk - 1))
        /\ Cardinality((k * chunk)..(k * chunk + chunk - 1)) =
              IF k * chunk > k * chunk + chunk - 1 THEN 0
              ELSE (k * chunk + chunk - 1) - k * chunk + 1
    BY ONLY <2>2, FS_Interval
  <2> QED BY <1>4, <2>1, <2>3 DEF I
<1>8. IsFiniteSet(R) /\ Cardinality(R) <= chunk /\ Cardinality(R) \in Nat
  <2>1. IsFiniteSet(R) /\ Cardinality(R) <= Cardinality(I)
    BY <1>6, <1>7, FS_Injection
  <2> QED BY <1>7, <2>1, FS_CardinalityType
<1>9. IsFiniteSet(C) /\ Cardinality(C) \in Nat /\ Cardinality(C) = size - Cardinality(R)
  <2>1. C \subseteq S /\ S \cap R = R
    BY <1>2, <1>3
  <2>2. IsFiniteSet(C) /\ Cardinality(C) \in Nat
    BY <2>1, FS_Subset, FS_CardinalityType
  <2>3. Cardinality(S \ R) = Cardinality(S) - Cardinality(S \cap R)
    BY FS_Difference
  <2> QED BY <1>2, <2>1, <2>2, <2>3 DEF size
<1>10. size - chunk >= parts - 1
  <2>1. (parts - 1) * chunk = parts * chunk - chunk
    BY <1>1, <1>4
  <2>2. (parts - 1) * chunk >= parts - 1
    BY <1>1, <1>4
  <2>3. parts * chunk \in Nat /\ (parts - 1) * chunk \in Nat
    BY <1>1, <1>4
  <2> QED BY <1>1, <1>4, <2>1, <2>2, <2>3
<1> QED BY <1>1, <1>2, <1>4, <1>8, <1>9, <1>10 DEF C

LEMMA ComplementOfOne ==
    ASSUME NEW S \in SUBSET Nat, IsFiniteSet(S), NEW parts \in 2..Cardinality(S),
           Exhausted(parts, Cardinality(S)), NEW e \in S
    PROVE  Rank(e, S) \in 0..(Cardinality(S) - 1) /\ Complement(S, parts, Rank(e, S)) = S \ {e}
<1>1. Cardinality(S) \in Nat
  BY FS_CardinalityType
<1>2. Chunk(Cardinality(S), parts) = 1
  BY <1>1, ChunkFits
<1>3. ASSUME NEW f \in S PROVE Rank(f, S) \in Nat /\ Rank(f, S) \div 1 = Rank(f, S)
  <2>1. Rank(f, S) \in Nat
    BY RankGrows
  <2> QED BY <2>1
<1>4. ASSUME NEW f \in S, Rank(f, S) = Rank(e, S) PROVE f = e
  <2>1. f \in Nat /\ e \in Nat /\ Rank(e, S) \in Nat
    BY RankGrows
  <2>2. ~(e < f) /\ ~(f < e)
    BY <1>4, <2>1, RankGrows
  <2> QED BY <2>1, <2>2
<1>5. Rank(e, S) \in 0..(Cardinality(S) - 1)
  BY <1>1, RankGrows
<1>6. Complement(S, parts, Rank(e, S)) = {f \in S : Rank(f, S) # Rank(e, S)}
  BY <1>2, <1>3 DEF Complement
<1> QED BY <1>4, <1>5, <1>6

LEMMA FewerThanTwo ==
    ASSUME NEW S, IsFiniteSet(S), Cardinality(S) < 2, NEW e \in S
    PROVE  S \ {e} = {}
<1>1. IsFiniteSet(S \ {e}) /\ Cardinality(S \ {e}) = Cardinality(S) - 1
  BY FS_RemoveElement
<1>2. Cardinality(S) \in Nat /\ Cardinality(S \ {e}) \in Nat
  BY <1>1, FS_CardinalityType
<1>3. Cardinality(S \ {e}) = 0
  BY <1>1, <1>2
<1> QED BY <1>1, <1>3, FS_EmptySet

---------------------------------------------------------------------------
(***************************************************************************)
(* The invariant of the shrinker.  What it knows of a set of faults, it    *)
(* knows from a run it made: the run in progress is a trace of the         *)
(* scenario, so that a later run of the same kind cannot end otherwise.    *)
(***************************************************************************)

\* A run with these faults of the universe and this budget fails as the original did.
Reproduces(ordinals, budget) == Gives(scenario, universe \ ordinals, budget, target)

RunningInv ==
    /\ scenario \in Scenarios /\ steps \in Nat
    /\ RunInv(run) /\ run.steps \in 0..steps
    /\ \A s \in Signature : failed_at[s] \in 0..run.steps
    /\ scenario.chaos => \A s \in Signature : failed_at[s] = 0
    /\ ~scenario.chaos =>
           \E f : /\ Trace(scenario, run._suppressed, run.steps, f)
                  /\ f[run.steps] = <<run, seen, failed_at>>

OriginalInv ==
    phase \in {"original", "none"} =>
        /\ universe = {} /\ kept = {} /\ rejected = {}
        /\ target = scenario.target /\ steps = scenario.steps
        /\ ~scenario.chaos => run._suppressed = {}

Searching ==
    /\ ~scenario.chaos /\ target \in Signature /\ scenario.steps \in Nat \ {0}
    /\ universe \subseteq Nat /\ IsFiniteSet(universe) /\ kept \subseteq universe
    /\ \A S \in rejected : ~Reproduces(S, scenario.steps)
SearchInv == phase \notin {"original", "none"} => Searching

NothingInv ==
    phase = "nothing" =>
        /\ kept = universe /\ run._suppressed = universe /\ steps = scenario.steps
        /\ Reproduces(kept, scenario.steps)

DdminInv ==
    phase = "ddmin" =>
        /\ n \in 2..Cardinality(kept) /\ sub \in 0..(Subsets(kept, n) - 1)
        /\ run._suppressed = universe \ Complement(kept, n, sub) /\ steps = scenario.steps
        /\ Reproduces(kept, scenario.steps)
        /\ {} \in rejected
        /\ \A k \in 0..(sub - 1) : Complement(kept, n, k) \in rejected

BudgetInv ==
    phase \in {"min_steps", "report", "done"} =>
        /\ lo \in Nat /\ hi \in Nat /\ 1 <= lo /\ lo <= hi /\ hi <= scenario.steps
        /\ run._suppressed = universe \ kept
        /\ Reproduces(kept, hi) /\ (lo = 1 \/ ~Reproduces(kept, lo - 1))
        /\ \A e \in kept : kept \ {e} \in rejected
        /\ phase = "min_steps" => lo < hi /\ steps = (lo + hi) \div 2
        /\ phase # "min_steps" => lo = hi /\ steps = lo
        /\ phase = "done" => Over

Phases == {"original", "none", "nothing", "ddmin", "min_steps", "report", "done"}
ShrinkInv ==
    /\ phase \in Phases
    /\ RunningInv /\ OriginalInv /\ SearchInv /\ NothingInv /\ DdminInv /\ BudgetInv

LEMMA FreshRuns ==
    ASSUME scenario \in Scenarios, scenario' = scenario, ~scenario.chaos,
           NEW mask, NEW b \in Nat, Fresh(mask, b)
    PROVE  RunningInv' /\ run'._suppressed = mask /\ steps' = b
<1> DEFINE r == Start(scenario.ops, scenario.chaos, mask)
           x == <<r, {}, [s \in Signature |-> 0]>>
           f == [k \in {0} |-> x]
<1>1. RunInv(r) /\ r.steps = 0 /\ r._suppressed = mask
  BY StartGood
<1>2. run' = r /\ seen' = {} /\ failed_at' = [s \in Signature |-> 0] /\ steps' = b
  BY DEF Fresh
<1>3. x = Begin(scenario, mask) /\ f[0] = x
  BY DEF Begin
<1> HIDE DEF r
<1>4. Trace(scenario, mask, 0, f)
  BY <1>3 DEF Trace
<1>5. <<run', seen', failed_at'>> = x
  BY <1>2
<1>6. \E g : Trace(scenario, mask, 0, g) /\ g[0] = <<run', seen', failed_at'>>
  BY <1>3, <1>4, <1>5
<1>7. /\ run'.steps = 0 /\ run'._suppressed = mask /\ RunInv(run') /\ steps' \in Nat
      /\ \A s \in Signature : failed_at'[s] = 0
  BY <1>1, <1>2
<1> QED BY <1>2, <1>6, <1>7 DEF RunningInv

LEMMA StepRuns ==
    ASSUME RunningInv, Step
    PROVE  RunningInv' /\ run'._suppressed = run._suppressed
<1> DEFINE K == run.steps
<1>1. /\ run._heap # {} /\ run.steps # steps /\ failed_at["invariant"] = 0
      /\ run' \in Stepped(run, scenario.leader)
      /\ scenario' = scenario /\ steps' = steps
      /\ seen' = seen \cup Impairments(run')
      /\ failed_at' = FailuresAfter(scenario, failed_at, run', seen')
  BY DEF Step, Over, FailuresAfter
<1>2. /\ scenario \in Scenarios /\ steps \in Nat /\ RunInv(run) /\ K \in 0..steps
      /\ \A s \in Signature : failed_at[s] \in 0..K
  BY DEF RunningInv
<1>3. RunInv(run') /\ run'.steps = K + 1 /\ run'._suppressed = run._suppressed
  BY <1>1, <1>2, RunStep
<1>4. K + 1 \in 0..steps /\ K \in Nat
  BY <1>1, <1>2
<1>5. ASSUME NEW s \in Signature
      PROVE  /\ failed_at'[s] \in 0..(K + 1)
             /\ scenario.chaos => failed_at'[s] = 0
  <2>1. failed_at'[s] = failed_at[s] \/ (failed_at'[s] = K + 1 /\ scenario.fails[s].strikes)
    BY <1>1, <1>3 DEF FailuresAfter
  <2>2. failed_at[s] \in 0..K /\ (scenario.chaos => failed_at[s] = 0)
    BY DEF RunningInv
  <2>3. scenario.chaos => ~scenario.fails[s].strikes
    BY <1>2, ShrinkAssumption
  <2> QED BY <1>4, <2>1, <2>2, <2>3
<1>6. ASSUME ~scenario.chaos
      PROVE  \E g : /\ Trace(scenario, run._suppressed, K + 1, g)
                    /\ g[K + 1] = <<run', seen', failed_at'>>
  <2>1. PICK f : Trace(scenario, run._suppressed, K, f) /\ f[K] = <<run, seen, failed_at>>
    BY <1>6 DEF RunningInv
  <2> DEFINE x == <<run, seen, failed_at>>
             y == <<run', seen', failed_at'>>
             g == [k \in 0..(K + 1) |-> IF k = K + 1 THEN y ELSE f[k]]
  <2>2. Advance(scenario, x, y)
    <3>1. x[1] = run /\ x[2] = seen /\ x[3] = failed_at
      OBVIOUS
    <3>2. ~Stuck(x)
      BY <1>1, <3>1 DEF Stuck
    <3>3. y = <<run', x[2] \cup Impairments(run'),
                FailuresAfter(scenario, x[3], run', x[2] \cup Impairments(run'))>>
      BY <1>1, <3>1
    <3> HIDE DEF x, y
    <3> QED BY <1>1, <3>1, <3>2, <3>3 DEF Advance
  <2> HIDE DEF y
  <2>3. g[0] = Begin(scenario, run._suppressed)
    BY <1>4, <2>1 DEF Trace
  <2>4. ASSUME NEW k \in 1..(K + 1) PROVE Advance(scenario, g[k - 1], g[k])
    <3>1. CASE k = K + 1
      <4>1. g[k] = y /\ g[k - 1] = f[K] /\ f[K] = x
        BY <1>4, <2>1, <3>1
      <4> HIDE DEF x, g
      <4> QED BY <2>2, <4>1
    <3>2. CASE k # K + 1
      <4>1. k \in 1..K /\ g[k] = f[k] /\ g[k - 1] = f[k - 1]
        BY <1>4, <3>2
      <4> HIDE DEF g
      <4> QED BY <2>1, <4>1 DEF Trace
    <3> QED BY <3>1, <3>2
  <2>5. g[K + 1] = y
    BY <1>4
  <2> HIDE DEF g
  <2>6. Trace(scenario, run._suppressed, K + 1, g)
    BY <2>3, <2>4 DEF Trace
  <2> QED BY <2>5, <2>6 DEF y
<1> HIDE DEF K
<1> QED BY <1>1, <1>2, <1>3, <1>4, <1>5, <1>6 DEF RunningInv

\* A run that is over has the verdict that every run of its kind has.
LEMMA OverGives ==
    ASSUME RunningInv, ~scenario.chaos, Over
    PROVE  /\ Gives(scenario, run._suppressed, steps, failure_signature)
           /\ \E f : /\ Whole(scenario, run._suppressed, steps, run.steps, f)
                     /\ f[run.steps] = <<run, seen, failed_at>>
<1> DEFINE x == <<run, seen, failed_at>>
<1>1. PICK f : Trace(scenario, run._suppressed, run.steps, f) /\ f[run.steps] = x
  BY DEF RunningInv
<1>2. x[1] = run /\ x[3] = failed_at
  OBVIOUS
<1>3. failure_signature = Verdict(x[3])
  BY <1>2 DEF failure_signature, Verdict
<1>4. run.steps = steps \/ Stuck(x)
  BY <1>2 DEF Over, Stuck
<1>5. run.steps \in 0..steps
  BY DEF RunningInv
<1> HIDE DEF x
<1>6. Whole(scenario, run._suppressed, steps, run.steps, f)
  BY <1>1, <1>4, <1>5 DEF Whole
<1>7. failure_signature = Verdict(f[run.steps][3])
  BY <1>1, <1>3
<1>8. Gives(scenario, run._suppressed, steps, failure_signature)
  BY <1>6, <1>7 DEF Gives
<1> QED BY <1>1, <1>6, <1>8 DEF x

LEMMA SameMeans ==
    ASSUME RunningInv, ~scenario.chaos, Over,
           NEW ordinals, run._suppressed = universe \ ordinals
    PROVE  Same <=> Reproduces(ordinals, steps)
<1>1. Gives(scenario, universe \ ordinals, steps, failure_signature)
  BY OverGives
<1>2. ASSUME Reproduces(ordinals, steps) PROVE failure_signature = target
  <2>1. scenario \in Scenarios /\ steps \in Nat
    BY DEF RunningInv
  <2>2. Gives(scenario, universe \ ordinals, steps, target)
    BY <1>2 DEF Reproduces
  <2> QED BY <1>1, <2>1, <2>2, GivesOne
<1> QED BY <1>1, <1>2 DEF Same, Reproduces

---------------------------------------------------------------------------
(* Every action keeps the invariant. *)

LEMMA BudgetKeeps ==
    ASSUME scenario \in Scenarios, scenario' = scenario, universe' = universe, Searching',
           NEW low \in Nat, NEW high \in Nat, 1 <= low, low <= high, high <= scenario.steps,
           NEW ordinals, kept' = ordinals, Budget(low, high, ordinals),
           Gives(scenario, universe \ ordinals, high, target'),
           low = 1 \/ ~Gives(scenario, universe \ ordinals, low - 1, target'),
           \A e \in ordinals : ordinals \ {e} \in rejected'
    PROVE  ShrinkInv'
<1> DEFINE b == IF low < high THEN (low + high) \div 2 ELSE low
<1>1. /\ lo' = low /\ hi' = high
      /\ phase' = IF low < high THEN "min_steps" ELSE "report"
      /\ Fresh(universe \ ordinals, b)
  BY DEF Budget, Suppressed
<1>2. b \in Nat
  OBVIOUS
<1>3. ~scenario.chaos /\ scenario.steps \in Nat
  BY DEF Searching
<1>4. b = IF low < high THEN (low + high) \div 2 ELSE low
  OBVIOUS
<1> HIDE DEF b
<1>5. RunningInv' /\ run'._suppressed = universe \ ordinals /\ steps' = b
  BY <1>1, <1>2, <1>3, FreshRuns
<1>6. BudgetInv'
  <2>1. /\ lo' \in Nat /\ hi' \in Nat /\ 1 <= lo' /\ lo' <= hi' /\ hi' <= scenario'.steps
        /\ run'._suppressed = universe' \ kept'
        /\ \A e \in kept' : kept' \ {e} \in rejected'
    BY <1>1, <1>3, <1>5
  <2>2. Reproduces(kept, hi)' /\ (lo' = 1 \/ ~Reproduces(kept, lo - 1)')
    BY <1>1 DEF Reproduces
  <2>3. CASE low < high
    BY <1>1, <1>4, <1>5, <2>1, <2>2, <2>3 DEF BudgetInv
  <2>4. CASE ~(low < high)
    BY <1>1, <1>4, <1>5, <2>1, <2>2, <2>4 DEF BudgetInv
  <2> QED BY <2>3, <2>4
<1>7. phase' \in {"min_steps", "report"}
  BY <1>1
<1> QED BY <1>5, <1>6, <1>7
        DEF ShrinkInv, Phases, OriginalInv, SearchInv, NothingInv, DdminInv

\* The first budget is the whole one.
LEMMA FullBudgetKeeps ==
    ASSUME scenario \in Scenarios, scenario' = scenario, universe' = universe, Searching',
           scenario.steps \in Nat \ {0},
           NEW ordinals, kept' = ordinals, Budget(1, scenario.steps, ordinals),
           Gives(scenario, universe \ ordinals, scenario.steps, target'),
           \A e \in ordinals : ordinals \ {e} \in rejected'
    PROVE  ShrinkInv'
<1>1. 1 \in Nat /\ scenario.steps \in Nat /\ 1 <= scenario.steps
  OBVIOUS
<1> QED BY <1>1, BudgetKeeps

LEMMA PartKeeps ==
    ASSUME scenario \in Scenarios, scenario' = scenario, universe' = universe, Searching',
           {} \in rejected', NEW elements, NEW parts, NEW k, TryComplement(elements, parts, k),
           parts \in 2..Cardinality(elements), k \in 0..(Subsets(elements, parts) - 1),
           Gives(scenario, universe \ elements, scenario.steps, target'),
           \A j \in 0..(k - 1) : Complement(elements, parts, j) \in rejected'
    PROVE  ShrinkInv'
<1>1. /\ kept' = elements /\ n' = parts /\ sub' = k /\ phase' = "ddmin"
      /\ Fresh(universe \ Complement(elements, parts, k), scenario.steps)
  BY DEF TryComplement, Suppressed
<1>2. ~scenario.chaos /\ scenario.steps \in Nat
  BY DEF Searching
<1>3. /\ RunningInv' /\ run'._suppressed = universe \ Complement(elements, parts, k)
      /\ steps' = scenario.steps
  BY <1>1, <1>2, FreshRuns
<1>4. Reproduces(kept, scenario.steps)'
  BY <1>1 DEF Reproduces
<1>5. DdminInv'
  BY <1>1, <1>3, <1>4 DEF DdminInv
<1> QED BY <1>1, <1>3, <1>5
        DEF ShrinkInv, Phases, OriginalInv, SearchInv, NothingInv, BudgetInv

LEMMA InitKeeps ==
    ASSUME Init
    PROVE  ShrinkInv
<1>1. PICK mask \in IF scenario.chaos THEN Masks ELSE {{}} :
          run = Start(scenario.ops, scenario.chaos, mask)
  BY DEF Init
<1>2. RunInv(run) /\ run.steps = 0 /\ run._suppressed = mask
  BY <1>1, StartGood DEF Init
<1>3. scenario \in Scenarios /\ scenario.steps \in Nat
  BY ShrinkAssumption DEF Init
<1>4. ASSUME ~scenario.chaos
      PROVE  \E f : /\ Trace(scenario, run._suppressed, run.steps, f)
                    /\ f[run.steps] = <<run, seen, failed_at>>
  <2> DEFINE x == Begin(scenario, mask)
             f == [k \in {0} |-> x]
  <2>1. x = <<run, seen, failed_at>>
    BY <1>1 DEF Begin, Init
  <2> HIDE DEF x
  <2>2. Trace(scenario, mask, 0, f) /\ f[0] = x
    BY DEF Trace, x
  <2> QED BY <1>2, <2>1, <2>2
<1>5. RunningInv
  BY <1>2, <1>3, <1>4 DEF RunningInv, Init
<1>6. OriginalInv
  BY <1>1, <1>2 DEF OriginalInv, Init
<1>7. phase = "original"
  BY DEF Init
<1> QED BY <1>5, <1>6, <1>7
        DEF ShrinkInv, Phases, SearchInv, NothingInv, DdminInv, BudgetInv

LEMMA StepKeeps ==
    ASSUME ShrinkInv, Step
    PROVE  ShrinkInv'
<1>1. RunningInv' /\ run'._suppressed = run._suppressed
  BY StepRuns DEF ShrinkInv
<1>2. /\ UNCHANGED <<scenario, steps, phase, target, universe, kept, n, sub, lo, hi, rejected>>
      /\ phase \notin {"done", "none"}
  BY DEF Step, ddminVars
<1>3. \A S, b : Reproduces(S, b)' <=> Reproduces(S, b)
  BY <1>2 DEF Reproduces
<1>4. OriginalInv' /\ phase' \in Phases
  BY <1>1, <1>2 DEF ShrinkInv, OriginalInv
<1>5. SearchInv'
  BY <1>2, <1>3 DEF ShrinkInv, SearchInv, Searching
<1>6. NothingInv'
  BY <1>1, <1>2, <1>3 DEF ShrinkInv, NothingInv
<1>7. DdminInv'
  BY <1>1, <1>2, <1>3 DEF ShrinkInv, DdminInv
<1>8. BudgetInv'
  BY <1>1, <1>2, <1>3 DEF ShrinkInv, BudgetInv
<1> QED BY <1>1, <1>4, <1>5, <1>6, <1>7, <1>8 DEF ShrinkInv

LEMMA OriginalKeeps ==
    ASSUME ShrinkInv, Original
    PROVE  ShrinkInv'
<1>1. /\ phase = "original" /\ Over /\ scenario' = scenario /\ rejected' = rejected
      /\ scenario \in Scenarios /\ RunningInv
      /\ universe = {} /\ kept = {} /\ rejected = {}
      /\ target = scenario.target /\ steps = scenario.steps
      /\ ~scenario.chaos => run._suppressed = {}
  BY DEF ShrinkInv, OriginalInv, RunningInv, Original
<1>2. CASE failure_signature = None \/ (target # None /\ ~Same)
  <2>1. /\ phase' = "none"
        /\ UNCHANGED <<scenario, run, seen, failed_at, steps, target, universe, kept, rejected>>
    BY <1>1, <1>2 DEF Original, ddminVars
  <2>2. RunningInv'
    BY <1>1, <2>1 DEF RunningInv
  <2>3. OriginalInv'
    BY <1>1, <2>1 DEF OriginalInv
  <2> QED BY <2>1, <2>2, <2>3
          DEF ShrinkInv, Phases, SearchInv, NothingInv, DdminInv, BudgetInv
<1>3. CASE ~(failure_signature = None \/ (target # None /\ ~Same))
  <2>1. /\ target' = failure_signature
        /\ universe' = 0..(run._fault_seq - 1)
        /\ IF universe' = {}
           THEN kept' = {} /\ Budget(FirstBudget, scenario.steps, {})
           ELSE kept' = universe' /\ phase' = "nothing" /\ Fresh(universe', scenario.steps)
    BY <1>3 DEF Original
  <2>2. failure_signature \in Signature /\ failed_at[failure_signature] # 0
    BY <1>3 DEF failure_signature, Signature
  <2>3. ~scenario.chaos
    BY <1>1, <2>2 DEF RunningInv
  <2>4. scenario.steps \in Nat \ {0}
    <3>1. /\ failed_at[failure_signature] \in 0..run.steps /\ run.steps \in 0..steps
          /\ steps \in Nat
      BY <1>1, <2>2 DEF RunningInv
    <3> QED BY <1>1, <2>2, <3>1
  <2>5. universe' \subseteq Nat /\ IsFiniteSet(universe')
    <3>1. run._fault_seq \in Nat
      BY <1>1 DEF RunningInv, RunInv, DrawingInv, QueueInv
    <3>2. 0 \in Int /\ run._fault_seq - 1 \in Int
      BY <3>1
    <3>3. IsFiniteSet(0..(run._fault_seq - 1))
      BY ONLY <3>2, FS_Interval
    <3> QED BY <2>1, <3>1, <3>3
  <2>6. Gives(scenario, {}, scenario.steps, target')
    BY <1>1, <2>1, <2>3, OverGives
  <2>7. Searching'
    <3>1. kept' \subseteq universe'
      BY <2>1
    <3> QED BY <1>1, <2>1, <2>2, <2>3, <2>4, <2>5, <3>1 DEF Searching
  <2>8. CASE universe' = {}
    <3>1. kept' = {} /\ universe' = universe /\ Budget(1, scenario.steps, {})
      BY <1>1, <2>1, <2>8 DEF FirstBudget
    <3>2. Gives(scenario, universe \ {}, scenario.steps, target')
      BY <1>1, <2>6
    <3>3. /\ scenario \in Scenarios /\ scenario' = scenario /\ universe' = universe
          /\ kept' = {} /\ \A e \in {} : {} \ {e} \in rejected'
      BY <1>1, <3>1
    <3> QED BY ONLY <2>4, <2>7, <3>1, <3>2, <3>3, FullBudgetKeeps
  <2>9. CASE universe' # {}
    <3>1. kept' = universe' /\ phase' = "nothing" /\ Fresh(universe', scenario.steps)
      BY <2>1, <2>9
    <3>2. RunningInv' /\ run'._suppressed = universe' /\ steps' = scenario.steps
      BY <1>1, <2>3, <2>4, <3>1, FreshRuns
    <3>3. Reproduces(kept, scenario.steps)'
      BY <1>1, <2>6, <3>1 DEF Reproduces
    <3>4. NothingInv'
      BY <1>1, <3>1, <3>2, <3>3 DEF NothingInv
    <3> QED BY <2>7, <3>1, <3>2, <3>4
            DEF ShrinkInv, Phases, OriginalInv, SearchInv, DdminInv, BudgetInv
  <2> QED BY <2>8, <2>9
<1> QED BY <1>2, <1>3

\* What was tried in a run that is over is rejected as long as the run did not reproduce.
LEMMA RejectedIsRight ==
    ASSUME RunningInv, Searching, Over, scenario' = scenario, universe' = universe,
           target' = target, steps = scenario.steps,
           NEW ordinals, run._suppressed = universe \ ordinals, Rejected(ordinals),
           kept' \subseteq universe
    PROVE  /\ Searching'
           /\ Same => Gives(scenario, universe \ ordinals, scenario.steps, target)
           /\ ~Same => ordinals \in rejected'
           /\ rejected \subseteq rejected'
<1>1. Same <=> Reproduces(ordinals, scenario.steps)
  BY SameMeans DEF Searching
<1>2. \A S, b : Reproduces(S, b)' <=> Reproduces(S, b)
  BY DEF Reproduces
<1>3. rejected' = IF Same THEN rejected ELSE rejected \cup {ordinals}
  BY DEF Rejected
<1>4. \A S \in rejected' : ~Reproduces(S, scenario.steps)
  BY <1>1, <1>3 DEF Searching
<1>5. Searching'
  BY <1>2, <1>4 DEF Searching
<1> QED BY <1>1, <1>3, <1>5 DEF Reproduces

LEMMA NothingKeeps ==
    ASSUME ShrinkInv, Nothing
    PROVE  ShrinkInv'
<1>1. /\ phase = "nothing" /\ Over /\ Rejected({})
      /\ scenario' = scenario /\ target' = target /\ universe' = universe
      /\ kept = universe /\ run._suppressed = universe \ {} /\ steps = scenario.steps
      /\ Gives(scenario, universe \ kept, scenario.steps, target)
      /\ RunningInv /\ Searching /\ scenario \in Scenarios
  BY DEF ShrinkInv, NothingInv, SearchInv, RunningInv, Nothing, Reproduces
<1>2. scenario.steps \in Nat \ {0} /\ IsFiniteSet(kept)
  BY <1>1 DEF Searching
<1>3. ASSUME kept' \subseteq universe
      PROVE  /\ Searching'
             /\ Same => Gives(scenario, universe \ {}, scenario.steps, target)
             /\ ~Same => {} \in rejected'
  BY <1>1, <1>3, RejectedIsRight
<1>4. CASE Same
  <2>1. kept' = {} /\ Budget(1, scenario.steps, {})
    BY <1>1, <1>4 DEF Nothing, MinimalFaults, FirstBudget
  <2>2. /\ scenario \in Scenarios /\ scenario' = scenario /\ universe' = universe
        /\ \A e \in {} : {} \ {e} \in rejected'
    BY <1>1
  <2>3. Searching' /\ Gives(scenario, universe \ {}, scenario.steps, target')
    BY <1>1, <1>3, <1>4, <2>1
  <2> QED BY ONLY <1>2, <2>1, <2>2, <2>3, FullBudgetKeeps
<1>5. CASE ~Same /\ Cardinality(kept) < 2
  <2>0. MinimalFaults(kept)
    <3>1. Cardinality(kept) \in Nat
      BY <1>2, FS_CardinalityType
    <3>2. Cardinality(kept) < 2 /\ ~(Cardinality(kept) >= 2)
      BY <1>5, <3>1
    <3> QED BY <1>5, <3>2 DEF Nothing
  <2>1. kept' = kept /\ Budget(1, scenario.steps, kept)
    BY <2>0 DEF MinimalFaults, FirstBudget
  <2>2. Searching' /\ {} \in rejected'
    BY <1>1, <1>3, <1>5, <2>1
  <2>3. ASSUME NEW e \in kept PROVE kept \ {e} \in rejected'
    <3>1. kept \ {e} = {}
      BY <1>2, <1>5, <2>3, FewerThanTwo
    <3> QED BY <2>2, <3>1
  <2>4. /\ scenario \in Scenarios /\ scenario' = scenario /\ universe' = universe
        /\ Gives(scenario, universe \ kept, scenario.steps, target')
    BY <1>1
  <2> QED BY ONLY <1>2, <2>1, <2>2, <2>3, <2>4, FullBudgetKeeps
<1>6. CASE ~Same /\ Cardinality(kept) >= 2
  <2>1. TryComplement(kept, 2, 0)
    BY <1>1, <1>6 DEF Nothing
  <2>2. kept' = kept
    BY <2>1 DEF TryComplement
  <2>3. Searching' /\ {} \in rejected'
    BY <1>1, <1>3, <1>6, <2>2
  <2>4. 2 \in 2..Cardinality(kept)
    BY <1>2, <1>6, FS_CardinalityType
  <2>5. 0 \in 0..(Subsets(kept, 2) - 1)
    <3>1. Subsets(kept, 2) \in Nat \ {0}
      BY <1>2, <2>4, SomeSubsets
    <3> QED BY <3>1
  <2>6. \A j \in 0..(0 - 1) : Complement(kept, 2, j) \in rejected'
    OBVIOUS
  <2>7. /\ scenario \in Scenarios /\ scenario' = scenario /\ universe' = universe
        /\ Gives(scenario, universe \ kept, scenario.steps, target')
    BY <1>1
  <2> QED BY ONLY <2>1, <2>3, <2>4, <2>5, <2>6, <2>7, PartKeeps
<1>7. Cardinality(kept) \in Nat
  BY <1>2, FS_CardinalityType
<1> QED BY <1>4, <1>5, <1>6, <1>7

LEMMA DdminKeeps ==
    ASSUME ShrinkInv, Ddmin
    PROVE  ShrinkInv'
<1> DEFINE C == Complement(kept, n, sub)
           size == Cardinality(kept)
           M == Subsets(kept, n)
<1>1. /\ phase = "ddmin" /\ Over /\ Rejected(C)
      /\ scenario' = scenario /\ target' = target /\ universe' = universe
      /\ n \in 2..size /\ sub \in 0..(M - 1)
      /\ run._suppressed = universe \ C /\ steps = scenario.steps
      /\ Gives(scenario, universe \ kept, scenario.steps, target)
      /\ {} \in rejected
      /\ \A j \in 0..(sub - 1) : Complement(kept, n, j) \in rejected
      /\ RunningInv /\ Searching /\ scenario \in Scenarios
  BY DEF ShrinkInv, DdminInv, SearchInv, RunningInv, Ddmin, Reproduces
<1>2. /\ scenario.steps \in Nat \ {0} /\ IsFiniteSet(kept) /\ kept \in SUBSET Nat
      /\ kept \subseteq universe
  <2>1. /\ scenario.steps \in Nat \ {0} /\ kept \subseteq universe
        /\ universe \subseteq Nat /\ IsFiniteSet(universe)
    BY <1>1 DEF Searching
  <2>2. IsFiniteSet(kept)
    BY <2>1, FS_Subset
  <2> QED BY <2>1, <2>2
<1>3. size \in Nat /\ M \in Nat \ {0} /\ (Exhausted(n, size) => M = size) /\ sub \in Nat
  BY <1>1, <1>2, FS_CardinalityType, SomeSubsets
<1>4. C \subseteq kept /\ IsFiniteSet(C) /\ Cardinality(C) \in Nat /\ Cardinality(C) >= n - 1
  BY <1>1, <1>2, <1>3, ComplementLeaves
<1>5. ASSUME kept' \subseteq kept
      PROVE  /\ Searching' /\ {} \in rejected'
             /\ \A j \in 0..(sub - 1) : Complement(kept, n, j) \in rejected'
             /\ Same => Gives(scenario, universe \ C, scenario.steps, target)
             /\ ~Same => C \in rejected'
  <2>1. kept' \subseteq universe
    BY <1>2, <1>5
  <2> HIDE DEF C
  <2>2. /\ Searching' /\ rejected \subseteq rejected'
        /\ Same => Gives(scenario, universe \ C, scenario.steps, target)
        /\ ~Same => C \in rejected'
    BY <1>1, <2>1, RejectedIsRight
  <2> QED BY <1>1, <2>2
<1>6. CASE Same /\ Cardinality(C) < 2
  <2>0. MinimalFaults(C)
    <3>1. Cardinality(C) < 2 /\ ~(Cardinality(C) >= 2)
      BY <1>4, <1>6
    <3> QED BY <1>6, <3>1 DEF Ddmin
  <2>1. kept' = C /\ Budget(1, scenario.steps, C)
    BY <2>0 DEF MinimalFaults, FirstBudget
  <2>2. ASSUME NEW e \in C PROVE C \ {e} = {}
    BY <1>4, <1>6, <2>2, FewerThanTwo
  <2>3. /\ scenario \in Scenarios /\ scenario' = scenario /\ universe' = universe
        /\ C \subseteq kept
    BY <1>1, <1>4
  <2> HIDE DEF C
  <2>4. Searching' /\ {} \in rejected' /\ Gives(scenario, universe \ C, scenario.steps, target')
    BY <1>1, <1>5, <1>6, <2>1, <2>3
  <2>5. \A e \in C : C \ {e} \in rejected'
    BY ONLY <2>2, <2>4
  <2> QED BY ONLY <1>2, <2>1, <2>3, <2>4, <2>5, FullBudgetKeeps
<1>7. CASE Same /\ Cardinality(C) >= 2
  <2>1. TryComplement(C, Coarser(n), 0)
    BY <1>1, <1>7 DEF Ddmin
  <2>2. kept' = C
    BY <2>1 DEF TryComplement
  <2>3. Coarser(n) \in 2..Cardinality(C)
    BY <1>1, <1>3, <1>4, <1>7 DEF Coarser
  <2> HIDE DEF C
  <2>4. 0 \in 0..(Subsets(C, Coarser(n)) - 1)
    <3>1. Subsets(C, Coarser(n)) \in Nat \ {0}
      BY <1>4, <2>3, SomeSubsets
    <3> QED BY <3>1
  <2>5. \A j \in 0..(0 - 1) : Complement(C, Coarser(n), j) \in rejected'
    OBVIOUS
  <2>6. /\ scenario \in Scenarios /\ scenario' = scenario /\ universe' = universe
    BY <1>1
  <2>7. Searching' /\ {} \in rejected' /\ Gives(scenario, universe \ C, scenario.steps, target')
    BY <1>1, <1>4, <1>5, <1>7, <2>2
  <2> QED BY ONLY <2>1, <2>3, <2>4, <2>5, <2>6, <2>7, PartKeeps
<1>8. CASE ~Same /\ sub + 1 < M
  <2>1. TryComplement(kept, n, sub + 1)
    <3>1. sub + 1 < M /\ sub + 1 # M
      BY <1>3, <1>8
    <3> HIDE DEF C
    <3> QED BY <1>8, <3>1 DEF Ddmin, C
  <2>2. kept' = kept
    BY <2>1 DEF TryComplement
  <2>3. sub + 1 \in 0..(M - 1)
    BY <1>1, <1>3, <1>8
  <2>4. \A j \in 0..((sub + 1) - 1) : Complement(kept, n, j) \in rejected'
    BY <1>1, <1>3, <1>5, <1>8, <2>2
  <2>5. /\ scenario \in Scenarios /\ scenario' = scenario /\ universe' = universe
        /\ Searching' /\ {} \in rejected' /\ n \in 2..size
        /\ Gives(scenario, universe \ kept, scenario.steps, target')
    BY <1>1, <1>5, <2>2
  <2> HIDE DEF C
  <2> QED BY ONLY <2>1, <2>3, <2>4, <2>5, PartKeeps DEF M, size
<1>9. CASE ~Same /\ sub + 1 = M /\ Exhausted(n, size)
  <2>1. kept' = kept /\ Budget(1, scenario.steps, kept)
    BY <1>1, <1>9 DEF Ddmin, MinimalFaults, FirstBudget
  <2>2. ASSUME NEW e \in kept PROVE kept \ {e} \in rejected'
    <3>1. /\ Rank(e, kept) \in 0..(size - 1)
          /\ Complement(kept, n, Rank(e, kept)) = kept \ {e}
      BY <1>1, <1>2, <1>3, <1>9, ComplementOfOne
    <3>2. Rank(e, kept) \in 0..(sub - 1) \/ Rank(e, kept) = sub
      BY <1>3, <1>9, <3>1
    <3> QED BY <1>5, <1>9, <2>1, <3>1, <3>2
  <2>3. /\ scenario \in Scenarios /\ scenario' = scenario /\ universe' = universe
        /\ Searching' /\ Gives(scenario, universe \ kept, scenario.steps, target')
    BY <1>1, <1>5, <2>1
  <2> HIDE DEF C, M
  <2> QED BY ONLY <1>2, <2>1, <2>2, <2>3, FullBudgetKeeps
<1>10. CASE ~Same /\ sub + 1 = M /\ ~Exhausted(n, size)
  <2>1. TryComplement(kept, Finer(n, size), 0)
    BY <1>1, <1>10 DEF Ddmin
  <2>2. kept' = kept
    BY <2>1 DEF TryComplement
  <2>3. Finer(n, size) \in 2..size
    BY <1>1, <1>3 DEF Finer
  <2>4. 0 \in 0..(Subsets(kept, Finer(n, size)) - 1)
    <3>1. Subsets(kept, Finer(n, size)) \in Nat \ {0}
      BY <1>2, <2>3, SomeSubsets
    <3> QED BY <3>1
  <2>5. \A j \in 0..(0 - 1) : Complement(kept, Finer(n, size), j) \in rejected'
    OBVIOUS
  <2>6. /\ scenario \in Scenarios /\ scenario' = scenario /\ universe' = universe
        /\ Searching' /\ {} \in rejected'
        /\ Gives(scenario, universe \ kept, scenario.steps, target')
    BY <1>1, <1>5, <2>2
  <2> HIDE DEF C, M
  <2> QED BY ONLY <2>1, <2>3, <2>4, <2>5, <2>6, PartKeeps DEF size
<1>11. sub + 1 < M \/ sub + 1 = M
  BY <1>1, <1>3
<1>12. Cardinality(C) < 2 \/ Cardinality(C) >= 2
  BY <1>4
<1> QED BY <1>6, <1>7, <1>8, <1>9, <1>10, <1>11, <1>12

LEMMA MinStepsKeeps ==
    ASSUME ShrinkInv, _min_steps
    PROVE  ShrinkInv'
<1> DEFINE mid == (lo + hi) \div 2
           low == IF Same THEN lo ELSE mid + 1
           high == IF Same THEN mid ELSE hi
<1>1. /\ phase = "min_steps" /\ Over
      /\ UNCHANGED <<scenario, target, universe, kept, n, sub, rejected>>
      /\ lo \in Nat /\ hi \in Nat /\ 1 <= lo /\ lo < hi /\ hi <= scenario.steps
      /\ run._suppressed = universe \ kept /\ steps = mid
      /\ Reproduces(kept, hi) /\ (lo = 1 \/ ~Reproduces(kept, lo - 1))
      /\ \A e \in kept : kept \ {e} \in rejected
      /\ RunningInv /\ Searching /\ scenario \in Scenarios
  BY DEF ShrinkInv, BudgetInv, SearchInv, RunningInv, _min_steps, ddminVars
<1>2. Budget(low, high, kept)
  BY DEF _min_steps, Narrowed
<1>3. Same <=> Reproduces(kept, mid)
  BY <1>1, SameMeans DEF Searching
<1>4. mid \in Nat /\ lo <= mid /\ mid < hi
  BY <1>1
<1>5. scenario.steps \in Nat
  BY <1>1 DEF Searching
<1> HIDE DEF mid
<1>6. /\ low \in Nat /\ high \in Nat /\ 1 <= low /\ low <= high /\ high <= scenario.steps
  BY <1>1, <1>4, <1>5
<1>7. Reproduces(kept, high) /\ (low = 1 \/ ~Reproduces(kept, low - 1))
  <2>1. CASE Same
    BY <1>1, <1>3, <2>1
  <2>2. CASE ~Same
    <3>1. low - 1 = mid /\ high = hi
      BY <1>4, <2>2
    <3> QED BY <1>1, <1>3, <2>2, <3>1
  <2> QED BY <2>1, <2>2
<1> HIDE DEF low, high
<1>8. \A S, b : Reproduces(S, b)' <=> Reproduces(S, b)
  BY <1>1 DEF Reproduces
<1>9. Searching'
  BY <1>1, <1>8 DEF Searching
<1>10. /\ Gives(scenario, universe \ kept, high, target')
       /\ low = 1 \/ ~Gives(scenario, universe \ kept, low - 1, target')
  BY <1>1, <1>7 DEF Reproduces
<1> QED BY <1>1, <1>2, <1>6, <1>9, <1>10, BudgetKeeps

LEMMA ReportKeeps ==
    ASSUME ShrinkInv, Report
    PROVE  ShrinkInv'
<1>1. /\ phase = "report" /\ Over /\ phase' = "done"
      /\ UNCHANGED <<scenario, run, seen, failed_at, steps, target, universe, kept, n, sub,
                     lo, hi, rejected>>
  BY DEF Report, ddminVars
<1>2. RunningInv'
  BY <1>1 DEF ShrinkInv, RunningInv
<1>3. \A S, b : Reproduces(S, b)' <=> Reproduces(S, b)
  BY <1>1 DEF Reproduces
<1>4. SearchInv'
  BY <1>1, <1>3 DEF ShrinkInv, SearchInv, Searching
<1>5. Over'
  BY <1>1 DEF Over
<1>6. BudgetInv'
  BY <1>1, <1>3, <1>5 DEF ShrinkInv, BudgetInv
<1> QED BY <1>1, <1>2, <1>4, <1>6
        DEF ShrinkInv, Phases, OriginalInv, NothingInv, DdminInv

LEMMA NextKeeps ==
    ASSUME ShrinkInv, [Next]_vars
    PROVE  ShrinkInv'
<1>1. CASE UNCHANGED vars
  <2>1. UNCHANGED <<scenario, run, seen, failed_at, steps, phase, target, universe, kept, n,
                    sub, lo, hi, rejected>>
    BY <1>1 DEF vars
  <2>2. RunningInv' /\ OriginalInv'
    BY <2>1 DEF ShrinkInv, RunningInv, OriginalInv
  <2>3. \A S, b : Reproduces(S, b)' <=> Reproduces(S, b)
    BY <2>1 DEF Reproduces
  <2>4. SearchInv' /\ NothingInv' /\ DdminInv'
    BY <2>1, <2>3 DEF ShrinkInv, SearchInv, Searching, NothingInv, DdminInv
  <2>5. Over' = Over
    BY <2>1 DEF Over
  <2>6. BudgetInv'
    BY <2>1, <2>3, <2>5 DEF ShrinkInv, BudgetInv
  <2> QED BY <2>1, <2>2, <2>4, <2>6 DEF ShrinkInv
<1> QED BY <1>1, StepKeeps, OriginalKeeps, NothingKeeps, DdminKeeps, MinStepsKeeps, ReportKeeps
        DEF Next

---------------------------------------------------------------------------
(* What the shrinker returns. *)

LEMMA DoneReproduces ==
    ASSUME ShrinkInv, phase = "done"
    PROVE  /\ Same /\ Over /\ RunningInv /\ Searching
           /\ lo \in Nat \ {0} /\ steps = lo /\ run._suppressed = universe \ kept
           /\ lo = 1 \/ ~Reproduces(kept, lo - 1)
<1>1. /\ Over /\ RunningInv /\ Searching /\ lo \in Nat \ {0} /\ lo = hi /\ steps = lo
      /\ run._suppressed = universe \ kept
      /\ Reproduces(kept, hi) /\ (lo = 1 \/ ~Reproduces(kept, lo - 1))
  BY DEF ShrinkInv, BudgetInv, SearchInv
<1>2. Same <=> Reproduces(kept, steps)
  BY <1>1, SameMeans DEF Searching
<1> QED BY <1>1, <1>2

LEMMA DoneEarliest ==
    ASSUME ShrinkInv, phase = "done"
    PROVE  failed_at[target] = lo
<1> DEFINE K == run.steps
           mask == universe \ kept
<1>1. /\ Same /\ Over /\ RunningInv /\ Searching
      /\ lo \in Nat \ {0} /\ steps = lo /\ run._suppressed = mask
      /\ lo = 1 \/ ~Reproduces(kept, lo - 1)
  BY DoneReproduces
<1>2. target \in Signature /\ ~scenario.chaos /\ scenario \in Scenarios
  BY <1>1 DEF Searching, RunningInv
<1>3. PICK f : /\ Whole(scenario, mask, lo, K, f)
               /\ f[K] = <<run, seen, failed_at>>
  BY <1>1, <1>2, OverGives
<1>4. failure_signature = target /\ failed_at[target] # 0
  BY <1>1, <1>2, ShrinkAssumption DEF Same, failure_signature, Signature
<1>5. f[K][3] = failed_at /\ failure_signature = Verdict(f[K][3])
  BY <1>3 DEF failure_signature, Verdict
<1>6. K \in 0..lo /\ failed_at[target] \in 1..K /\ K \in Nat \ {0}
  <2>1. K \in 0..steps /\ failed_at[target] \in 0..K
    BY <1>1, <1>2 DEF RunningInv
  <2> QED BY <1>1, <1>4, <2>1
<1>7. Trace(scenario, mask, K, f) /\ (K = lo \/ Stuck(f[K]))
  BY <1>3 DEF Whole
<1>8. lo = 1 \/ ~Gives(scenario, mask, lo - 1, target)
  BY <1>1 DEF Reproduces
<1> HIDE DEF K, mask
<1>9. SUFFICES ASSUME failed_at[target] < lo PROVE FALSE
  BY <1>1, <1>6
<1>10. lo # 1 /\ lo - 1 \in Nat
  BY <1>1, <1>6, <1>9
<1>11. CASE K < lo
  <2>1. K \in 0..(lo - 1) /\ Stuck(f[K])
    BY <1>1, <1>6, <1>7, <1>11
  <2>2. Whole(scenario, mask, lo - 1, K, f)
    BY <1>7, <2>1 DEF Whole
  <2>3. Gives(scenario, mask, lo - 1, target)
    BY <1>4, <1>5, <2>2 DEF Gives
  <2> QED BY <1>8, <1>10, <2>3
<1>12. CASE K = lo
  <2>1. f[K][3][target] \in 1..(K - 1)
    BY <1>5, <1>6, <1>9, <1>12
  <2>2. /\ f[K - 1][3][target] # 0 /\ f[K - 1][3]["invariant"] = 0
        /\ Gives(scenario, mask, K - 1, Verdict(f[K - 1][3]))
    BY <1>2, <1>6, <1>7, <2>1, StruckBefore
  <2>3. Verdict(f[K - 1][3]) = target
    BY <1>2, <2>2 DEF Verdict, Signature
  <2> QED BY <1>8, <1>10, <1>12, <2>2, <2>3
<1> QED BY <1>1, <1>6, <1>11, <1>12

(***************************************************************************)
(* Whatever the scenario, every step of the shrinker keeps what it knows   *)
(* of the runs it made (shrink, ddmin and _min_steps of shrink.py).        *)
(***************************************************************************)
THEOREM ShrinkInvariant == Spec => []ShrinkInv
<1>1. Init => ShrinkInv
  BY InitKeeps
<1>2. ShrinkInv /\ [Next]_vars => ShrinkInv'
  BY NextKeeps
<1> QED BY <1>1, <1>2, PTL DEF Spec

\* The type invariant of the shrinker (Shrink!TypeOK).
THEOREM ShrinkTypes == Spec => []TypeOK
<1>1. ASSUME ShrinkInv PROVE TypeOK
  <2>1. run._fault_seq \in Nat /\ run.steps \in 0..steps
    BY <1>1 DEF ShrinkInv, RunningInv, RunInv, DrawingInv, QueueInv
  <2>2. kept \subseteq universe
    BY <1>1 DEF ShrinkInv, OriginalInv, SearchInv, Searching
  <2> QED BY <1>1, <2>1, <2>2 DEF TypeOK, ShrinkInv, DdminInv, BudgetInv
<1> QED BY <1>1, ShrinkInvariant, PTL

(***************************************************************************)
(* In every run, with every mask and whatever the random driver draws,     *)
(* each outage has its end coming, and a server that is down exactly one   *)
(* restart (_nemesis_fire and _fault_tick of cluster.py).                  *)
(***************************************************************************)
THEOREM FaultsAlwaysEnd == Spec => []EveryFaultEnds
<1>1. ShrinkInv => EveryFaultEnds
  BY RunInvMeans DEF ShrinkInv, RunningInv, EveryFaultEnds
<1> QED BY <1>1, ShrinkInvariant, PTL

(***************************************************************************)
(* A fault that the mask suppresses leaves neither an impairment nor a     *)
(* recovery behind (_nemesis_fire, "leaves no orphan events").             *)
(***************************************************************************)
THEOREM NoOrphans == Spec => []NoOrphanRecovery
<1>1. ShrinkInv => NoOrphanRecovery
  BY RunInvMeans DEF ShrinkInv, RunningInv, NoOrphanRecovery
<1> QED BY <1>1, ShrinkInvariant, PTL

(***************************************************************************)
(* Injections fire in the order of their times, and those of one instant   *)
(* in the order the schedule declares them (NemesisSchedule.injections).   *)
(***************************************************************************)
THEOREM FiredInOrder == Spec => []DeclaredOrder
<1>1. ShrinkInv => DeclaredOrder
  BY RunInvMeans DEF ShrinkInv, RunningInv, DeclaredOrder
<1> QED BY <1>1, ShrinkInvariant, PTL

(***************************************************************************)
(* What shrink returns fails the way the original run did, for every       *)
(* schedule and every way in which faults cause failures: monotonicity is  *)
(* not assumed.                                                            *)
(***************************************************************************)
THEOREM ShrunkReproduces == Spec => []ResultReproduces
<1>1. ShrinkInv => ResultReproduces
  BY DoneReproduces DEF ResultReproduces
<1> QED BY <1>1, ShrinkInvariant, PTL

(***************************************************************************)
(* ddmin ends with a 1-minimal set: each run with one more fault           *)
(* suppressed was made, and did not fail this way.                         *)
(***************************************************************************)
THEOREM ShrunkIsMinimal == Spec => []OneMinimal
<1>1. ShrinkInv => OneMinimal
  BY DEF ShrinkInv, BudgetInv, OneMinimal
<1> QED BY <1>1, ShrinkInvariant, PTL

(***************************************************************************)
(* The reported budget is the step in which the failure strikes: the       *)
(* binary search of _min_steps misses nothing, though a run that fails in  *)
(* one way may later fail in another.                                      *)
(***************************************************************************)
THEOREM ShrunkIsEarliest == Spec => []EarliestStep
<1>1. ShrinkInv => EarliestStep
  BY DoneEarliest DEF EarliestStep
<1> QED BY <1>1, ShrinkInvariant, PTL

(***************************************************************************)
(* Beyond what the shrinker tried: no run whatever of the scenario, with   *)
(* one more fault suppressed and the whole budget, fails the way the       *)
(* original did ("suppressing any more makes the bug vanish", shrink.py,   *)
(* for one fault more).                                                    *)
(***************************************************************************)
NoneToSpare ==
    phase = "done" => \A e \in kept : ~Reproduces(kept \ {e}, scenario.steps)

THEOREM NoFaultToSpare == Spec => []NoneToSpare
<1>1. ShrinkInv => NoneToSpare
  BY DEF ShrinkInv, SearchInv, Searching, BudgetInv, NoneToSpare
<1> QED BY <1>1, ShrinkInvariant, PTL
=============================================================================
