---------------------------- MODULE OracleProofs ----------------------------
(***************************************************************************)
(* Theorems about Linearizability: the oracle is right, for every history, *)
(* every limit and every budget.  A linearization it reports is one; an    *)
(* accusation means that there is none, although the search prunes what it *)
(* has entered before; and the progress it reports then is the best.       *)
(***************************************************************************)
EXTENDS Linearizability, FiniteNats

---------------------------------------------------------------------------
(* The history, sorted. *)

LEMMA SortedNats ==
    ASSUME NEW S \in SUBSET Nat, IsFiniteSet(S)
    PROVE  /\ Sorted(S, <) \in [1..Cardinality(S) -> S]
           /\ \A x \in S : \E k \in 1..Cardinality(S) : Sorted(S, <)[k] = x
<1>1. \E s \in [1..Cardinality(S) -> S] :
        \A j, k \in 1..Cardinality(S) : j < k => s[j] < s[k]
  BY Sortable DEF Increasing
<1>2. /\ Sorted(S, <) \in [1..Cardinality(S) -> S]
      /\ \A j, k \in 1..Cardinality(S) : j < k => Sorted(S, <)[j] < Sorted(S, <)[k]
  BY <1>1 DEF Sorted
<1>3. \A s \in [1..Cardinality(S) -> S] : Increasing(s, Cardinality(S)) =>
         \A x \in S : \E k \in 1..Cardinality(S) : s[k] = x
  BY IncreasingIsOnto
<1> QED BY <1>2, <1>3 DEF Increasing

---------------------------------------------------------------------------
(* Replaying an order of operations. *)

\* The stores after each of the first L operations of an order, from start on.
IsRun(g, rows, start, order, L) ==
    /\ g[0] = start
    /\ \A k \in 1..L : g[k] = Effect(g[k - 1], rows[order[k]].command)

LEMMA RunsAgree ==
    ASSUME NEW rows, NEW start, NEW order, NEW L \in Nat, NEW g, NEW h,
           IsRun(g, rows, start, order, L), IsRun(h, rows, start, order, L)
    PROVE  \A k \in 0..L : g[k] = h[k]
<1> DEFINE S == {k \in 0..L : g[k] = h[k]}
<1>1. 0 \in S
  BY DEF IsRun
<1>2. \A k \in 0..L : k < L /\ k \in S => k + 1 \in S
  <2> SUFFICES ASSUME NEW k \in 0..L, k < L, k \in S PROVE k + 1 \in S
    OBVIOUS
  <2>1. k + 1 \in 1..L /\ (k + 1) - 1 = k /\ k + 1 \in 0..L
    OBVIOUS
  <2>2. g[k + 1] = Effect(g[k], rows[order[k + 1]].command)
    BY <2>1 DEF IsRun
  <2>3. h[k + 1] = Effect(h[k], rows[order[k + 1]].command)
    BY <2>1 DEF IsRun
  <2> QED BY <2>1, <2>2, <2>3
<1> HIDE DEF S
<1>3. 0..L \subseteq S
  BY <1>1, <1>2, IntervalInduction
<1> QED BY <1>3 DEF S

LEMMA RunExists ==
    ASSUME NEW rows, NEW start, NEW order, NEW K \in Nat
    PROVE  \E g : g = [k \in 0..K |-> IF k = 0 THEN start
                                      ELSE Effect(g[k - 1], rows[order[k]].command)]
<1> DEFINE Turn(g, k) == IF k = 0 THEN start ELSE Effect(g[k - 1], rows[order[k]].command)
           Runs(L, g) == g = [k \in 0..L |-> Turn(g, k)]
           Runnable == {L \in 0..K : \E g : Runs(L, g)}
<1>1. 0 \in Runnable
  <2>1. Runs(0, [k \in 0..0 |-> start])
    OBVIOUS
  <2> HIDE DEF Runs
  <2> QED BY <2>1
<1>2. \A L \in 0..K : L < K /\ L \in Runnable => L + 1 \in Runnable
  <2> SUFFICES ASSUME NEW L \in 0..K, L < K, L \in Runnable PROVE L + 1 \in Runnable
    OBVIOUS
  <2>1. PICK g : Runs(L, g)
    OBVIOUS
  <2> DEFINE h == [k \in 0..(L + 1) |->
                     IF k = L + 1 THEN Effect(g[L], rows[order[k]].command) ELSE g[k]]
  <2>2. /\ \A k \in 0..L : h[k] = g[k] /\ h[k] = Turn(g, k)
        /\ h[L + 1] = Effect(g[L], rows[order[L + 1]].command)
        /\ h = [k \in 0..(L + 1) |-> h[k]]
    BY <2>1
  <2> HIDE DEF h
  <2>3. \A k \in 0..(L + 1) : h[k] = Turn(h, k)
    <3> TAKE k \in 0..(L + 1)
    <3>1. CASE k = L + 1
      <4>1. L \in 0..L /\ k # 0 /\ k - 1 = L
        BY <3>1
      <4>2. h[L] = g[L]
        <5> HIDE DEF Turn
        <5> QED BY <2>2, <4>1
      <4> QED BY <2>2, <3>1, <4>1, <4>2
    <3>2. CASE k # L + 1 /\ k # 0
      <4>1. k \in 0..L /\ k - 1 \in 0..L
        BY <3>2
      <4>2. h[k] = Turn(g, k) /\ h[k - 1] = g[k - 1]
        <5> HIDE DEF Turn
        <5> QED BY <2>2, <4>1
      <4> QED BY <3>2, <4>2
    <3>3. CASE k = 0
      <4>1. 0 \in 0..L
        OBVIOUS
      <4>2. h[0] = Turn(g, 0)
        <5> HIDE DEF Turn
        <5> QED BY <2>2, <4>1
      <4> QED BY <3>3, <4>2
    <3> QED BY <3>1, <3>2, <3>3
  <2> HIDE DEF Turn
  <2>4. Runs(L + 1, h)
    BY <2>2, <2>3
  <2>5. L + 1 \in 0..K
    OBVIOUS
  <2> HIDE DEF Runs
  <2> QED BY <2>4, <2>5
<1> HIDE DEF Runnable
<1>3. K \in Runnable
  <2>1. 0..K \subseteq Runnable
    BY <1>1, <1>2, IntervalInduction
  <2> QED BY <2>1
<1> QED BY <1>3 DEF Runnable

LEMMA ReplayedIsRun ==
    ASSUME NEW rows, NEW start, NEW order, Len(order) \in Nat
    PROVE  IsRun(Replayed(rows, start, order), rows, start, order, Len(order))
<1> DEFINE f == Replayed(rows, start, order)
<1>1. f = [k \in 0..Len(order) |-> IF k = 0 THEN start
                                   ELSE Effect(f[k - 1], rows[order[k]].command)]
  BY RunExists DEF Replayed
<1> HIDE DEF f
<1>2. IsRun(f, rows, start, order, Len(order))
  <2>1. f[0] = start
    BY <1>1
  <2>2. \A k \in 1..Len(order) : f[k] = Effect(f[k - 1], rows[order[k]].command)
    <3> TAKE k \in 1..Len(order)
    <3>1. k \in 0..Len(order) /\ k # 0
      OBVIOUS
    <3> QED BY <1>1, <3>1
  <2> QED BY <2>1, <2>2 DEF IsRun
<1> QED BY <1>2 DEF f

\* One operation more.
LongerBy(path, i, more) ==
    /\ Len(path) \in Nat
    /\ Len(more) = Len(path) + 1
    /\ more[Len(path) + 1] = i
    /\ \A k \in 1..Len(path) : more[k] = path[k]

LEMMA ReplayedAppended ==
    ASSUME NEW rows, NEW start, NEW path, NEW i, NEW more, LongerBy(path, i, more)
    PROVE  /\ \A k \in 0..Len(path) :
                 Replayed(rows, start, more)[k] = Replayed(rows, start, path)[k]
           /\ Replayed(rows, start, more)[Len(path) + 1]
                = Effect(Replayed(rows, start, path)[Len(path)], rows[i].command)
<1> DEFINE L == Len(path)
           f == Replayed(rows, start, path)
           g == Replayed(rows, start, more)
<1>1. /\ L \in Nat /\ Len(more) = L + 1 /\ more[L + 1] = i
      /\ \A k \in 1..L : more[k] = path[k]
  BY DEF LongerBy
<1> HIDE DEF f, g, L
<1>2. IsRun(f, rows, start, path, L)
  BY <1>1, ReplayedIsRun DEF f, L
<1>3. IsRun(g, rows, start, more, L + 1)
  <2>1. Len(more) \in Nat
    BY <1>1
  <2>2. IsRun(g, rows, start, more, Len(more))
    BY <2>1, ReplayedIsRun DEF g
  <2> QED BY <1>1, <2>2
<1>4. IsRun(g, rows, start, path, L)
  <2>1. \A k \in 1..L : k \in 1..(L + 1) /\ more[k] = path[k]
    BY <1>1
  <2> QED BY <1>3, <2>1 DEF IsRun
<1>5. \A k \in 0..L : f[k] = g[k]
  <2>1. L \in Nat
    BY <1>1
  <2> QED BY ONLY <1>2, <1>4, <2>1, RunsAgree
<1>6. g[L + 1] = Effect(g[L], rows[i].command)
  <2>1. L + 1 \in 1..(L + 1) /\ (L + 1) - 1 = L
    BY <1>1
  <2> QED BY <1>1, <1>3, <2>1 DEF IsRun
<1>7. L \in 0..L
  BY <1>1
<1> QED BY <1>5, <1>6, <1>7 DEF f, g, L

\* One operation fewer: the rest of an order, from the store the first one leaves.
RestOf(rows, start, order, first, rest) ==
    /\ Len(rest) \in Nat
    /\ Len(order) = Len(rest) + 1
    /\ \A k \in 1..Len(rest) : rest[k] = order[k + 1]
    /\ first = Effect(start, rows[order[1]].command)

LEMMA ReplayedRest ==
    ASSUME NEW rows, NEW start, NEW order, NEW first, NEW rest,
           RestOf(rows, start, order, first, rest)
    PROVE  \A k \in 0..Len(rest) :
              Replayed(rows, first, rest)[k] = Replayed(rows, start, order)[k + 1]
<1> DEFINE f == Replayed(rows, start, order)
           g == Replayed(rows, first, rest)
           m == Len(rest)
           h == [k \in 0..m |-> f[k + 1]]
<1>0. /\ m \in Nat /\ Len(rest) \in Nat /\ Len(order) = m + 1
      /\ \A k \in 1..m : rest[k] = order[k + 1]
      /\ first = Effect(start, rows[order[1]].command)
  BY DEF RestOf
<1> HIDE DEF f, g, h
<1>1. IsRun(f, rows, start, order, m + 1)
  <2>1. Len(order) \in Nat
    BY <1>0
  <2> QED BY <1>0, <2>1, ReplayedIsRun DEF f
<1>2. IsRun(g, rows, first, rest, m)
  BY <1>0, ReplayedIsRun DEF g
<1>3. IsRun(h, rows, first, rest, m)
  <2>1. h[0] = first
    <3>1. 1 \in 1..(m + 1) /\ 1 - 1 = 0 /\ 0 \in 0..m /\ 0 + 1 = 1
      BY <1>0
    <3>2. f[1] = Effect(f[0], rows[order[1]].command) /\ f[0] = start
      BY <1>1, <3>1 DEF IsRun
    <3> QED BY <1>0, <3>1, <3>2 DEF h
  <2>2. \A k \in 1..m : h[k] = Effect(h[k - 1], rows[rest[k]].command)
    <3> TAKE k \in 1..m
    <3>1. k + 1 \in 1..(m + 1) /\ (k + 1) - 1 = k /\ (k - 1) + 1 = k /\ k - 1 \in 0..m /\ k \in 0..m
      BY <1>0
    <3>2. f[k + 1] = Effect(f[k], rows[order[k + 1]].command)
      BY <1>1, <3>1 DEF IsRun
    <3> QED BY <1>0, <3>1, <3>2 DEF h
  <2> QED BY <2>1, <2>2 DEF IsRun
<1>4. \A k \in 0..m : g[k] = h[k]
  <2>1. m \in Nat
    BY <1>0
  <2> QED BY ONLY <1>2, <1>3, <2>1, RunsAgree
<1> QED BY <1>4 DEF f, g, h

---------------------------------------------------------------------------
(* The invariant of the search. *)

Value == {Absent} \cup {c.value : c \in Workload}
Observable == {Absent} \cup UNION {Answers(c) : c \in Workload}

Row == [command : Workload, invoke_step : Nat, return_step : Nat, observed : Observable]

\* Rows are recorded in the order of their invocation, and return later.
HistoryInv ==
    /\ steps \in Nat
    /\ history \in Seq(Row)
    /\ \A i \in 1..Len(history) :
          /\ history[i].invoke_step <= steps
          /\ Completed(history[i]) => history[i].invoke_step <= history[i].return_step
    /\ \A i, j \in 1..Len(history) : i < j => history[i].invoke_step < history[j].invoke_step

\* Rows return no earlier than they were invoked.
GoodRows(rows) ==
    /\ rows \in Seq(Row)
    /\ \A i \in 1..Len(rows) : rows[i].invoke_step <= rows[i].return_step

Store == [Key -> Value]
FrameOf(rows) ==
    [store : Store, pending : SUBSET (1..Len(rows)), next : Nat, path : Seq(1..Len(rows))]

\* From a store, the pending operations can be placed in the order rest, as far as it goes.
Continues(rows, store, pending, rest) ==
    /\ IsInjective(rest)
    /\ \A i \in DOMAIN rest :
          /\ \A later \in pending \ {rest[j] : j \in 1..i} :
                rows[later].return_step >= rows[rest[i]].invoke_step
          /\ Result(Replayed(rows, store, rest)[i - 1], rows[rest[i]].command)
                = rows[rest[i]].observed

\* No order that continues from here places more than best operations in all.
Exhausted(rows, best, store, pending) ==
    \A m \in 0..Cardinality(pending) : \A rest \in [1..m -> pending] :
        Continues(rows, store, pending, rest) => Len(rows) - Cardinality(pending) + m <= best

\* The search is done with a state, or it is on the way from there.
Visited(rows, best, frames, store, pending) ==
    \/ Exhausted(rows, best, store, pending)
    \/ \E d \in 1..Len(frames) : frames[d].store = store /\ frames[d].pending = pending

Tried(rows, best, frames, f, i) ==
    \/ Result(f.store, rows[i].command) # rows[i].observed
    \/ Visited(rows, best, frames, Effect(f.store, rows[i].command), f.pending \ {i})

\* A frame is what its path leads to, and its path is a linear order.
GoodFrame(rows, f) ==
    /\ IsInjective(f.path)
    /\ {f.path[k] : k \in 1..Len(f.path)} = (1..Len(rows)) \ f.pending
    /\ IsLinear(rows, f.path)
    /\ f.store = Replayed(rows, EmptyStore, f.path)[Len(f.path)]

\* The operations that can be placed next, and the order in which they are tried.
Candidates(rows, pending) ==
    {p \in pending : \A q \in pending \ {p} : rows[p].invoke_step <= rows[q].return_step}

Order(rows, pending) == Sorted(Candidates(rows, pending), <)

\* The candidates before the next one have been tried.
Searched(rows, best, frames, f) ==
    /\ f.next \in 1..(Len(Order(rows, f.pending)) + 1)
    /\ f.next > 1 => Len(f.path) <= best
    /\ \A k \in 1..(f.next - 1) : Tried(rows, best, frames, f, Order(rows, f.pending)[k])

DeepestInv ==
    /\ deepest \in Seq(1..Len(ops))
    /\ Len(deepest) < Len(ops)
    /\ IsLinear(ops, deepest)

(***************************************************************************)
(* Whatever the search has entered is on the stack, or every order that    *)
(* continues from there has been found no longer than the longest path.    *)
(***************************************************************************)
SearchInv ==
    /\ ops # <<>>
    /\ stack \in Seq(FrameOf(ops))
    /\ \A d \in 1..Len(stack) : GoodFrame(ops, stack[d]) /\ Searched(ops, Len(deepest), stack, stack[d])
    /\ \A d, e \in 1..Len(stack) :
          d < e => stack[e].pending \subseteq stack[d].pending /\ stack[e].pending # stack[d].pending
    /\ Visited(ops, Len(deepest), stack, EmptyStore, 1..Len(ops))
    /\ memo \subseteq Store \X SUBSET (1..Len(ops))
    /\ \A key \in memo : Visited(ops, Len(deepest), stack, key[1], key[2])
    /\ DeepestInv

OracleInv ==
    /\ HistoryInv
    /\ GoodRows(ops)
    /\ verdict = "recording" => stack = <<>> /\ memo = {} /\ deepest = <<>>
    /\ verdict = "searching" => SearchInv
    /\ WitnessIsLinearization
    /\ AccusationIsRight
    /\ DeepestIsLongest

---------------------------------------------------------------------------
(* Sequences, and what the search does with its stack. *)

LEMMA LastAndFront ==
    ASSUME NEW S, NEW s \in Seq(S), s # <<>>
    PROVE  /\ Len(s) \in Nat \ {0} /\ Last(s) = s[Len(s)] /\ Last(s) \in S
           /\ Front(s) \in Seq(S) /\ Len(Front(s)) = Len(s) - 1
           /\ \A d \in 1..(Len(s) - 1) : Front(s)[d] = s[d]
<1>1. Len(s) \in Nat \ {0}
  BY EmptySeq
<1>2. Front(s) = SubSeq(s, 1, Len(s) - 1)
  BY DEF Front
<1>3. \A d \in 1..(Len(s) - 1) : s[d] \in S
  BY <1>1
<1>4. /\ SubSeq(s, 1, Len(s) - 1) \in Seq(S)
      /\ Len(SubSeq(s, 1, Len(s) - 1)) = Len(s) - 1
      /\ \A d \in 1..(Len(s) - 1) : SubSeq(s, 1, Len(s) - 1)[d] = s[d]
  <2> DEFINE L == Len(s) - 1
  <2>1. L \in Nat
    BY <1>1
  <2>2. \A d \in 1..L : s[d] \in S
    BY <1>3
  <2> HIDE DEF L
  <2>3. /\ SubSeq(s, 1, L) \in Seq(S)
        /\ Len(SubSeq(s, 1, L)) = IF 1 <= L THEN L - 1 + 1 ELSE 0
        /\ \A d \in 1..(L - 1 + 1) : SubSeq(s, 1, L)[d] = s[1 + d - 1]
    BY <2>1, <2>2, SubSeqProperties
  <2>4. \A d \in 1..L : d \in 1..(L - 1 + 1) /\ 1 + d - 1 = d
    BY <2>1
  <2>5. (IF 1 <= L THEN L - 1 + 1 ELSE 0) = L
    BY <2>1
  <2> QED BY <2>3, <2>4, <2>5 DEF L
<1> QED BY <1>1, <1>2, <1>4 DEF Last

LEMMA EffectType ==
    ASSUME Workload \subseteq Command, NEW store \in Store, NEW o \in Workload
    PROVE  Effect(store, o) \in Store
<1>1. o.key \in Key /\ o.value \in Value
  BY DEF Command, Value
<1> QED BY <1>1 DEF Store, Effect

---------------------------------------------------------------------------
(* The candidates of a frame. *)

LEMMA PendingFinite ==
    ASSUME NEW n \in Nat, NEW pending \in SUBSET (1..n)
    PROVE  /\ IsFiniteSet(pending) /\ Cardinality(pending) \in Nat /\ pending \in SUBSET Nat
           /\ Cardinality(pending) <= n
<1>1. IsFiniteSet(1..n) /\ Cardinality(1..n) = n
  BY FS_Interval
<1>2. IsFiniteSet(pending) /\ Cardinality(pending) <= n
  BY <1>1, FS_Subset
<1> QED BY <1>2, FS_CardinalityType

LEMMA MinimalIsOrder ==
    ASSUME NEW pending
    PROVE  minimal(pending) = Order(ops, pending)
BY DEF minimal, Order, Candidates

LEMMA OrderEnumerates ==
    ASSUME NEW rows, Len(rows) \in Nat, NEW pending, pending \in SUBSET (1..Len(rows))
    PROVE  /\ Len(Order(rows, pending)) \in Nat
           /\ \A k \in 1..Len(Order(rows, pending)) :
                 Order(rows, pending)[k] \in Candidates(rows, pending)
           /\ \A p \in Candidates(rows, pending) :
                 \E k \in 1..Len(Order(rows, pending)) : Order(rows, pending)[k] = p
<1> DEFINE C == Candidates(rows, pending)
           s == Sorted(C, <)
<1>1. Order(rows, pending) = s
  BY DEF Order
<1>2. C \subseteq pending
  BY DEF Candidates
<1> HIDE DEF C
<1>3. IsFiniteSet(C) /\ Cardinality(C) \in Nat /\ C \in SUBSET Nat
  BY <1>2, PendingFinite
<1>4. /\ s \in [1..Cardinality(C) -> C]
      /\ \A x \in C : \E k \in 1..Cardinality(C) : s[k] = x
  BY <1>3, SortedNats
<1> HIDE DEF s
<1>5. s \in Seq(C) /\ Len(s) = Cardinality(C)
  BY <1>3, <1>4, FunctionIsSeq
<1> QED BY <1>1, <1>3, <1>4, <1>5 DEF C

LEMMA RowTimes ==
    ASSUME NEW rows, GoodRows(rows)
    PROVE  /\ Len(rows) \in Nat
           /\ \A p \in 1..Len(rows) :
                 /\ rows[p].invoke_step \in Nat /\ rows[p].return_step \in Nat
                 /\ rows[p].invoke_step <= rows[p].return_step
<1>1. Len(rows) \in Nat /\ \A p \in 1..Len(rows) : rows[p] \in Row
  BY DEF GoodRows
<1> QED BY <1>1 DEF GoodRows, Row

\* Something can always be tried: the operation that was invoked first.
LEMMA SomeCandidate ==
    ASSUME NEW rows, GoodRows(rows), NEW pending \in SUBSET (1..Len(rows)), pending # {}
    PROVE  Candidates(rows, pending) # {}
<1> DEFINE Times == {rows[p].invoke_step : p \in pending}
<1>1. \A p \in pending : /\ rows[p].invoke_step \in Nat /\ rows[p].return_step \in Nat
                         /\ rows[p].invoke_step <= rows[p].return_step
  BY RowTimes
<1>2. Times \in SUBSET Nat /\ Times # {}
  BY <1>1
<1>3. PICK t \in Times : \A u \in Times : t <= u
  BY <1>2, LeastNat
<1>4. PICK p \in pending : rows[p].invoke_step = t
  BY <1>3
<1>5. \A q \in pending : rows[p].invoke_step <= rows[q].return_step
  <2> TAKE q \in pending
  <2>1. t <= rows[q].invoke_step
    BY <1>3
  <2> QED BY <1>1, <1>4, <2>1
<1> QED BY <1>4, <1>5 DEF Candidates

---------------------------------------------------------------------------
(* One frame. *)

LEMMA PathCounts ==
    ASSUME NEW rows, Len(rows) \in Nat, NEW f \in FrameOf(rows), GoodFrame(rows, f)
    PROVE  /\ Len(f.path) \in Nat
           /\ Len(f.path) = Len(rows) - Cardinality(f.pending)
<1> DEFINE n == Len(rows)
           P == f.pending
           R == (1..n) \ P
           K == Len(f.path)
<1>1. P \in SUBSET (1..n) /\ f.path \in Seq(1..n) /\ K \in Nat /\ DOMAIN f.path = 1..K
  BY DEF FrameOf
<1>2. f.path \in [1..K -> R]
  BY <1>1 DEF GoodFrame
<1>3. f.path \in Bijection(1..K, R)
  <2>1. \A t \in R : \E k \in 1..K : f.path[k] = t
    BY DEF GoodFrame
  <2> QED BY <1>2, <2>1 DEF GoodFrame, Bijection, Injection, Surjection
<1> HIDE DEF K, R, P
<1>4. IsFiniteSet(1..K) /\ Cardinality(1..K) = K
  BY <1>1, FS_Interval
<1>5. IsFiniteSet(R) /\ Cardinality(R) = K
  BY <1>3, <1>4, FS_Bijection DEF ExistsBijection
<1>6. IsFiniteSet(P) /\ Cardinality(P) \in Nat
  BY <1>1, PendingFinite
<1>7. Cardinality(1..n) = n
  <2>1. n \in Int /\ 1 \in Int /\ n >= 0
    OBVIOUS
  <2> HIDE DEF n
  <2>2. Cardinality(1..n) = IF 1 > n THEN 0 ELSE n - 1 + 1
    BY ONLY <2>1, FS_Interval
  <2> QED BY ONLY <2>1, <2>2
<1>8. Cardinality(R \cup P) = K + Cardinality(P) - Cardinality(R \cap P)
  BY <1>5, <1>6, FS_Union
<1>9. R \cup P = 1..n /\ R \cap P = {}
  BY <1>1 DEF R
<1>10. n = K + Cardinality(P)
  <2>1. Cardinality({}) = 0
    BY FS_EmptySet
  <2>2. n = K + Cardinality(P) - 0
    BY <1>7, <1>8, <1>9, <2>1
  <2> QED BY <1>1, <1>6, <2>2
<1> QED BY <1>1, <1>6, <1>10 DEF K, P

\* What has been tried in vain is exhausted: an order that continues must
\* begin with a candidate, and go on from there.
LEMMA DeadEnd ==
    ASSUME NEW rows, Len(rows) \in Nat,
           \A p \in 1..Len(rows) : rows[p].invoke_step \in Nat /\ rows[p].return_step \in Nat,
           NEW best \in Nat, NEW store, NEW pending \in SUBSET (1..Len(rows)),
           Len(rows) - Cardinality(pending) <= best,
           \A i \in pending :
              /\ \A q \in pending \ {i} : rows[i].invoke_step <= rows[q].return_step
              /\ Result(store, rows[i].command) = rows[i].observed
              => Exhausted(rows, best, Effect(store, rows[i].command), pending \ {i})
    PROVE  Exhausted(rows, best, store, pending)
<1>1. Cardinality(pending) \in Nat /\ IsFiniteSet(pending)
  BY PendingFinite
<1> SUFFICES ASSUME NEW m \in 0..Cardinality(pending), NEW rest \in [1..m -> pending],
                    Continues(rows, store, pending, rest)
             PROVE  Len(rows) - Cardinality(pending) + m <= best
  BY DEF Exhausted
<1>2. m \in Nat
  BY <1>1
<1>3. CASE m = 0
  BY <1>1, <1>3
<1>4. CASE m # 0
  <2> DEFINE i == rest[1]
             after == Effect(store, rows[i].command)
             left == pending \ {i}
             tail == [k \in 1..(m - 1) |-> rest[k + 1]]
  <2>1. 1 \in 1..m /\ i \in pending /\ m - 1 \in Nat /\ DOMAIN rest = 1..m
    BY <1>2, <1>4
  <2>2. \A q \in left : rows[i].invoke_step <= rows[q].return_step
    <3> TAKE q \in left
    <3>1. {rest[j] : j \in 1..1} = {i}
      OBVIOUS
    <3>2. q \in pending \ {rest[j] : j \in 1..1}
      BY <3>1
    <3>3. rows[q].return_step >= rows[i].invoke_step
      BY <2>1, <3>2 DEF Continues
    <3> QED BY <2>1, <3>3
  <2>3. Len(rest) = m
    BY <1>2, FunctionIsSeq
  <2>4. Replayed(rows, store, rest)[0] = store
    BY <1>2, <2>3, ReplayedIsRun DEF IsRun
  <2>5. Result(store, rows[i].command) = rows[i].observed
    <3>1. Result(Replayed(rows, store, rest)[1 - 1], rows[rest[1]].command)
             = rows[rest[1]].observed
      BY <2>1 DEF Continues
    <3>2. 1 - 1 = 0
      OBVIOUS
    <3> QED BY <2>4, <3>1, <3>2
  <2>6. Exhausted(rows, best, after, left)
    BY <2>1, <2>2, <2>5
  <2>7. \A j, k \in 1..m : rest[j] = rest[k] => j = k
    BY <2>1 DEF Continues, IsInjective
  <2>8. /\ \A k \in 1..(m - 1) : k + 1 \in 1..m /\ tail[k] = rest[k + 1] /\ tail[k] \in left
        /\ DOMAIN tail = 1..(m - 1) /\ tail \in [1..(m - 1) -> left]
    <3>1. \A k \in 1..(m - 1) : k + 1 \in 1..m /\ k + 1 # 1
      BY <1>2
    <3>2. \A k \in 1..(m - 1) : rest[k + 1] \in pending /\ rest[k + 1] # i
      BY <2>1, <2>7, <3>1
    <3> QED BY <3>1, <3>2
  <2> HIDE DEF tail, left, after
  <2>9. Len(tail) = m - 1
    BY <2>1, <2>8, FunctionIsSeq
  <2>10. \A k \in 0..(m - 1) :
            Replayed(rows, after, tail)[k] = Replayed(rows, store, rest)[k + 1]
    <3>1. Len(rest) = Len(tail) + 1 /\ Len(tail) \in Nat
      BY <1>2, <2>1, <2>3, <2>9
    <3>2. \A k \in 1..Len(tail) : tail[k] = rest[k + 1]
      BY <2>8, <2>9
    <3>3. after = Effect(store, rows[rest[1]].command)
      BY DEF after
    <3>4. \A k \in 0..Len(tail) :
              Replayed(rows, after, tail)[k] = Replayed(rows, store, rest)[k + 1]
      <4>1. RestOf(rows, store, rest, after, tail)
        BY <3>1, <3>2, <3>3 DEF RestOf
      <4> QED BY ONLY <4>1, ReplayedRest
    <3> QED BY <2>9, <3>4
  <2>11. Continues(rows, after, left, tail)
    <3>1. IsInjective(tail)
      <4> SUFFICES ASSUME NEW j \in 1..(m - 1), NEW k \in 1..(m - 1), tail[j] = tail[k]
                   PROVE  j = k
        BY <2>8 DEF IsInjective
      <4>1. j + 1 = k + 1
        BY <2>7, <2>8
      <4> QED BY <4>1
    <3>2. ASSUME NEW k \in 1..(m - 1), NEW later \in left \ {tail[j] : j \in 1..k}
          PROVE  rows[later].return_step >= rows[tail[k]].invoke_step
      <4>1. later \notin {rest[j] : j \in 1..(k + 1)}
        <5> SUFFICES ASSUME NEW j \in 1..(k + 1), rest[j] = later PROVE FALSE
          OBVIOUS
        <5>1. CASE j = 1
          BY <5>1 DEF left
        <5>2. CASE j # 1
          <6>1. j - 1 \in 1..k /\ j - 1 \in 1..(m - 1) /\ (j - 1) + 1 = j
            BY <1>2, <5>2
          <6>2. tail[j - 1] = later
            BY <2>8, <6>1
          <6> QED BY <6>1, <6>2
        <5> QED BY <5>1, <5>2
      <4>2. later \in pending \ {rest[j] : j \in 1..(k + 1)}
        BY <4>1 DEF left
      <4>3. k + 1 \in DOMAIN rest /\ tail[k] = rest[k + 1]
        BY <2>1, <2>8
      <4> QED BY <4>2, <4>3 DEF Continues
    <3>3. ASSUME NEW k \in 1..(m - 1)
          PROVE  Result(Replayed(rows, after, tail)[k - 1], rows[tail[k]].command)
                    = rows[tail[k]].observed
      <4>1. k + 1 \in DOMAIN rest /\ tail[k] = rest[k + 1]
        BY <2>1, <2>8
      <4>2. k - 1 \in 0..(m - 1) /\ (k - 1) + 1 = k /\ (k + 1) - 1 = k
        OBVIOUS
      <4>3. Replayed(rows, after, tail)[k - 1] = Replayed(rows, store, rest)[k]
        BY <2>10, <4>2
      <4>4. Result(Replayed(rows, store, rest)[(k + 1) - 1], rows[rest[k + 1]].command)
               = rows[rest[k + 1]].observed
        BY <4>1 DEF Continues
      <4> QED BY <4>1, <4>2, <4>3, <4>4
    <3> QED BY <2>8, <3>1, <3>2, <3>3 DEF Continues
  <2>12. Cardinality(left) = Cardinality(pending) - 1
    BY <1>1, <2>1, FS_RemoveElement DEF left
  <2>13. m - 1 \in 0..Cardinality(left)
    BY <1>1, <1>2, <1>4, <2>12
  <2>14. Len(rows) - Cardinality(left) + (m - 1) <= best
    BY <2>6, <2>8, <2>11, <2>13 DEF Exhausted
  <2> QED BY <1>1, <1>2, <2>12, <2>14
<1> QED BY <1>3, <1>4

\* A candidate whose result is the one observed makes a longer linear order.
LEMMA GoodFrameExtends ==
    ASSUME NEW rows \in Seq(Row), NEW f \in FrameOf(rows), GoodFrame(rows, f),
           NEW i \in f.pending,
           \A q \in f.pending \ {i} : rows[i].invoke_step <= rows[q].return_step,
           Result(f.store, rows[i].command) = rows[i].observed,
           Workload \subseteq Command,
           NEW g, g = Frame(Effect(f.store, rows[i].command), f.pending \ {i}, Append(f.path, i))
    PROVE  g \in FrameOf(rows) /\ GoodFrame(rows, g)
<1> DEFINE n == Len(rows)
           L == Len(f.path)
           path == Append(f.path, i)
           left == f.pending \ {i}
           after == Effect(f.store, rows[i].command)
           runs == Replayed(rows, EmptyStore, path)
<1>1. /\ n \in Nat /\ DOMAIN rows = 1..n /\ i \in 1..n /\ rows[i] \in Row
      /\ f.path \in Seq(1..n) /\ L \in Nat /\ f.store \in Store /\ f.pending \in SUBSET (1..n)
  BY DEF FrameOf
<1>2. /\ path \in Seq(1..n) /\ Len(path) = L + 1 /\ DOMAIN path = 1..(L + 1)
      /\ path[L + 1] = i /\ \A k \in 1..L : path[k] = f.path[k]
  BY <1>1
<1>3. after \in Store
  <2>1. rows[i].command \in Workload
    BY <1>1 DEF Row
  <2> QED BY <1>1, <2>1, EffectType
<1>4. /\ \A k \in 0..L : runs[k] = Replayed(rows, EmptyStore, f.path)[k]
      /\ runs[L + 1] = Effect(Replayed(rows, EmptyStore, f.path)[L], rows[i].command)
  <2> HIDE DEF path
  <2>1. LongerBy(f.path, i, path)
    BY <1>1, <1>2 DEF LongerBy
  <2>2. /\ \A k \in 0..Len(f.path) : Replayed(rows, EmptyStore, path)[k]
                                       = Replayed(rows, EmptyStore, f.path)[k]
        /\ Replayed(rows, EmptyStore, path)[Len(f.path) + 1]
              = Effect(Replayed(rows, EmptyStore, f.path)[Len(f.path)], rows[i].command)
    BY ONLY <2>1, ReplayedAppended
  <2> QED BY <2>2
<1>5. runs[L] = f.store /\ runs[L + 1] = after
  <2>1. L \in 0..L
    BY <1>1
  <2> QED BY <1>4, <2>1 DEF GoodFrame, L
<1> HIDE DEF path, runs, after, left, L
<1>0. /\ L \in Nat
      /\ \A k \in 1..(L + 1) : k \in 1..L \/ k = L + 1
  <2>1. L \in Nat
    BY <1>1
  <2> QED BY <2>1
<1>6. /\ g.store = after /\ g.pending = left /\ g.path = path /\ g.next = 1
      /\ g \in FrameOf(rows)
  BY <1>1, <1>2, <1>3 DEF Frame, FrameOf, path, after, left
<1>7. \A k \in 1..L : f.path[k] \in 1..n /\ f.path[k] \notin f.pending
  BY <1>1 DEF GoodFrame, L
<1>8. IsInjective(path)
  <2> SUFFICES ASSUME NEW j \in 1..(L + 1), NEW k \in 1..(L + 1), path[j] = path[k]
               PROVE  j = k
    BY <1>2 DEF IsInjective
  <2>1. CASE j \in 1..L /\ k \in 1..L
    <3>1. DOMAIN f.path = 1..L
      BY <1>1 DEF L
    <3>2. f.path[j] = f.path[k]
      BY <1>2, <2>1
    <3> QED BY <2>1, <3>1, <3>2 DEF GoodFrame, IsInjective
  <2>2. CASE j = L + 1 /\ k \in 1..L
    BY <1>2, <1>7, <2>2
  <2>3. CASE k = L + 1 /\ j \in 1..L
    BY <1>2, <1>7, <2>3
  <2> QED BY <1>0, <2>1, <2>2, <2>3
<1>9. {path[k] : k \in 1..(L + 1)} = (1..n) \ left
  <2>1. {f.path[k] : k \in 1..L} = (1..n) \ f.pending
    BY DEF GoodFrame, L
  <2>2. \A x \in 1..n : x \notin f.pending => \E k \in 1..(L + 1) : path[k] = x
    <3> SUFFICES ASSUME NEW x \in 1..n, x \notin f.pending
                 PROVE  \E k \in 1..(L + 1) : path[k] = x
      OBVIOUS
    <3>1. PICK k \in 1..L : f.path[k] = x
      BY <2>1
    <3> QED BY <1>1, <1>2, <3>1
  <2>3. L + 1 \in 1..(L + 1)
    BY <1>1
  <2>4. \A x \in (1..n) \ left : \E k \in 1..(L + 1) : path[k] = x
    BY <1>2, <2>2, <2>3 DEF left
  <2>5. \A k \in 1..(L + 1) : path[k] \in (1..n) \ left
    <3> TAKE k \in 1..(L + 1)
    <3>1. CASE k = L + 1
      BY <1>1, <1>2, <3>1 DEF left
    <3>2. CASE k \in 1..L
      BY <1>2, <1>7, <3>2 DEF left
    <3> QED BY <1>1, <3>1, <3>2
  <2> QED BY <2>4, <2>5
<1>10. RespectsRealTime(rows, path)
  <2> SUFFICES ASSUME NEW k \in 1..(L + 1),
                      NEW later \in (1..n) \ {path[j] : j \in 1..k}
               PROVE  rows[later].return_step >= rows[path[k]].invoke_step
    BY <1>1, <1>2 DEF RespectsRealTime
  <2>1. CASE k \in 1..L
    <3>1. \A j \in 1..k : path[j] = f.path[j]
      BY <1>1, <1>2, <2>1
    <3>2. later \in DOMAIN rows \ {f.path[j] : j \in 1..k}
      BY <1>1, <3>1
    <3>3. k \in DOMAIN f.path
      BY <1>1, <2>1 DEF L
    <3> QED BY <1>2, <2>1, <3>2, <3>3 DEF GoodFrame, IsLinear, RespectsRealTime
  <2>2. CASE k = L + 1
    <3>1. later \in left
      BY <1>9, <2>2
    <3>2. rows[i].invoke_step <= rows[later].return_step
      BY <3>1 DEF left
    <3>3. rows[i].invoke_step \in Nat /\ rows[later].return_step \in Nat
      <4>1. rows[later] \in Row
        BY <1>1
      <4> QED BY <1>1, <4>1 DEF Row
    <3> QED BY <1>2, <2>2, <3>2, <3>3
  <2> QED BY <1>0, <2>1, <2>2
<1>11. ExplainsResults(rows, path)
  <2> SUFFICES ASSUME NEW k \in 1..(L + 1)
               PROVE  Result(runs[k - 1], rows[path[k]].command) = rows[path[k]].observed
    BY <1>2 DEF ExplainsResults, runs
  <2>1. CASE k \in 1..L
    <3>1. k - 1 \in 0..L /\ k \in DOMAIN f.path
      BY <1>0, <1>1, <2>1 DEF L
    <3>2. Result(Replayed(rows, EmptyStore, f.path)[k - 1], rows[f.path[k]].command)
             = rows[f.path[k]].observed
      BY <3>1 DEF GoodFrame, IsLinear, ExplainsResults
    <3> QED BY <1>2, <1>4, <2>1, <3>1, <3>2
  <2>2. CASE k = L + 1
    <3>1. k - 1 = L
      BY <1>1, <2>2
    <3> QED BY <1>2, <1>5, <2>2, <3>1
  <2> QED BY <1>0, <2>1, <2>2
<1>12. GoodFrame(rows, g)
  <2>1. after = Replayed(rows, EmptyStore, path)[Len(path)]
    BY <1>2, <1>5 DEF runs
  <2>2. {path[k] : k \in 1..Len(path)} = (1..Len(rows)) \ left
    BY <1>2, <1>9
  <2>3. IsLinear(rows, path)
    BY <1>10, <1>11 DEF IsLinear
  <2> QED BY <1>6, <1>8, <2>1, <2>2, <2>3 DEF GoodFrame
<1> QED BY <1>6, <1>12

---------------------------------------------------------------------------
(* The history. *)

LEMMA CompletedOpsType ==
    ASSUME HistoryInv
    PROVE  /\ CompletedOps \in Seq(Row) /\ Len(CompletedOps) \in Nat
           /\ \A i \in 1..Len(CompletedOps) :
                 CompletedOps[i].invoke_step <= CompletedOps[i].return_step
<1> DEFINE done == {i \in DOMAIN history : Completed(history[i])}
           K == Cardinality(done)
           order == Sorted(done, LAMBDA i, j : InvokedFirst(history[i], history[j]))
<1>1. DOMAIN history = 1..Len(history) /\ Len(history) \in Nat
  BY DEF HistoryInv
<1>2. done \in SUBSET (1..Len(history))
  BY <1>1
<1>3. CompletedOps = [k \in DOMAIN order |-> history[order[k]]]
  BY DEF CompletedOps
<1>4. \A i \in done : /\ history[i] \in Row
                      /\ history[i].invoke_step <= history[i].return_step
  BY <1>1 DEF HistoryInv
<1>5. order = CHOOSE s \in [1..K -> done] : \A j, k \in 1..K :
                 j < k => InvokedFirst(history[s[j]], history[s[k]])
  BY DEF Sorted
<1> HIDE DEF done, order
<1>6. K \in Nat /\ IsFiniteSet(done) /\ done \in SUBSET Nat
  BY <1>1, <1>2, PendingFinite
<1>7. PICK s \in [1..K -> done] : Increasing(s, K)
  BY <1>6, Sortable
<1>8. \A j, k \in 1..K : j < k => InvokedFirst(history[s[j]], history[s[k]])
  <2> TAKE j, k \in 1..K
  <2> HAVE j < k
  <2>1. s[j] \in 1..Len(history) /\ s[k] \in 1..Len(history) /\ s[j] < s[k]
    BY <1>2, <1>7 DEF Increasing
  <2> QED BY <2>1 DEF HistoryInv, InvokedFirst
<1>9. order \in [1..K -> done]
  BY <1>5, <1>7, <1>8
<1> HIDE DEF K
<1>10. CompletedOps \in [1..K -> Row]
  BY <1>3, <1>4, <1>9
<1>11. \A i \in 1..K : CompletedOps[i].invoke_step <= CompletedOps[i].return_step
  BY <1>3, <1>4, <1>9
<1>12. CompletedOps \in Seq(Row) /\ Len(CompletedOps) = K
  BY <1>6, <1>10, FunctionIsSeq DEF K
<1> QED BY <1>6, <1>11, <1>12 DEF K

---------------------------------------------------------------------------
(* Orders of all operations. *)

\* What is exhausted from the empty store admits no longer linear order.
LEMMA ExhaustedRoot ==
    ASSUME NEW rows \in Seq(Row), NEW best \in Nat,
           Exhausted(rows, best, EmptyStore, 1..Len(rows)),
           NEW m \in 0..Len(rows), NEW order \in [1..m -> 1..Len(rows)],
           IsInjective(order), IsLinear(rows, order)
    PROVE  m <= best
<1>1. Len(rows) \in Nat /\ DOMAIN rows = 1..Len(rows)
  OBVIOUS
<1>2. Cardinality(1..Len(rows)) = Len(rows)
  <2> DEFINE n == Len(rows)
  <2>1. n \in Nat
    OBVIOUS
  <2> HIDE DEF n
  <2>2. Cardinality(1..n) = n
    BY <2>1, FS_Interval
  <2> QED BY <2>2 DEF n
<1>3. Continues(rows, EmptyStore, 1..Len(rows), order)
  BY <1>1 DEF Continues, IsLinear, RespectsRealTime, ExplainsResults
<1>4. Len(rows) - Len(rows) + m <= best
  BY <1>2, <1>3 DEF Exhausted
<1> QED BY <1>1, <1>4

---------------------------------------------------------------------------
(* What one iteration of the search leaves as it was. *)

LEMMA VisitedStays ==
    ASSUME NEW rows, Len(rows) \in Nat, NEW best \in Nat, NEW best2 \in Nat, best <= best2,
           NEW frames, NEW frames2,
           \A d \in 1..Len(frames) :
              \/ Exhausted(rows, best2, frames[d].store, frames[d].pending)
              \/ \E e \in 1..Len(frames2) : /\ frames2[e].store = frames[d].store
                                            /\ frames2[e].pending = frames[d].pending
    PROVE  \A store : \A pending \in SUBSET (1..Len(rows)) :
              Visited(rows, best, frames, store, pending)
              => Visited(rows, best2, frames2, store, pending)
<1> SUFFICES ASSUME NEW store, NEW pending \in SUBSET (1..Len(rows)),
                    Visited(rows, best, frames, store, pending)
             PROVE  Visited(rows, best2, frames2, store, pending)
  OBVIOUS
<1>1. CASE Exhausted(rows, best, store, pending)
  <2>1. Cardinality(pending) \in Nat
    BY PendingFinite
  <2>2. Exhausted(rows, best2, store, pending)
    <3> SUFFICES ASSUME NEW m \in 0..Cardinality(pending), NEW rest \in [1..m -> pending],
                        Continues(rows, store, pending, rest)
                 PROVE  Len(rows) - Cardinality(pending) + m <= best2
      BY DEF Exhausted
    <3>1. Len(rows) - Cardinality(pending) + m <= best
      BY <1>1 DEF Exhausted
    <3> QED BY <2>1, <3>1
  <2> QED BY <2>2 DEF Visited
<1>2. CASE \E d \in 1..Len(frames) : frames[d].store = store /\ frames[d].pending = pending
  BY <1>2 DEF Visited
<1> QED BY <1>1, <1>2 DEF Visited

\* All that was visited still is.
Stays(rows, best, frames, best2, frames2) ==
    \A store : \A pending \in SUBSET (1..Len(rows)) :
        Visited(rows, best, frames, store, pending)
        => Visited(rows, best2, frames2, store, pending)

LEMMA SearchedStays ==
    ASSUME NEW rows, Len(rows) \in Nat, NEW best \in Nat, NEW best2 \in Nat, best <= best2,
           NEW frames, NEW frames2, Stays(rows, best, frames, best2, frames2),
           NEW f \in FrameOf(rows), Searched(rows, best, frames, f)
    PROVE  Searched(rows, best2, frames2, f)
<1>1. f.pending \in SUBSET (1..Len(rows)) /\ f.path \in Seq(1..Len(rows)) /\ Len(f.path) \in Nat
  BY DEF FrameOf
<1>2. \A i : f.pending \ {i} \in SUBSET (1..Len(rows))
  BY <1>1
<1>3. ASSUME NEW i, Tried(rows, best, frames, f, i) PROVE Tried(rows, best2, frames2, f, i)
  BY <1>2, <1>3 DEF Tried, Stays
<1>4. f.next > 1 => Len(f.path) <= best2
  BY <1>1 DEF Searched
<1> QED BY <1>3, <1>4 DEF Searched

\* A frame whose candidates are all tried is exhausted: none of them leads
\* back to a frame of the stack.
LEMMA FrameExhausted ==
    ASSUME NEW rows, GoodRows(rows), NEW best \in Nat, NEW frames,
           NEW f \in FrameOf(rows), GoodFrame(rows, f), f.pending # {},
           Searched(rows, best, frames, f), ~(f.next <= Len(Order(rows, f.pending))),
           \A d \in 1..Len(frames) : f.pending \subseteq frames[d].pending
    PROVE  Exhausted(rows, best, f.store, f.pending)
<1> DEFINE P == f.pending
           n == Len(Order(rows, P))
<1>1. P \in SUBSET (1..Len(rows)) /\ Len(rows) \in Nat /\ f.next \in Nat
  BY RowTimes DEF FrameOf
<1>2. /\ n \in Nat
      /\ \A k \in 1..n : Order(rows, P)[k] \in Candidates(rows, P)
      /\ \A p \in Candidates(rows, P) : \E k \in 1..n : Order(rows, P)[k] = p
  BY <1>1, OrderEnumerates
<1>3. Candidates(rows, P) # {}
  BY <1>1, SomeCandidate
<1>4. n # 0
  BY <1>2, <1>3
<1>5. f.next = n + 1
  BY <1>1, <1>2 DEF Searched
<1> HIDE DEF n, P
<1>6. Len(f.path) <= best
  <2>1. n + 1 > 1
    BY <1>2, <1>4
  <2> QED BY <1>5, <2>1 DEF Searched
<1>7. Len(rows) - Cardinality(P) <= best
  BY <1>1, <1>6, PathCounts DEF P
<1>8. ASSUME NEW i \in P,
             /\ \A q \in P \ {i} : rows[i].invoke_step <= rows[q].return_step
             /\ Result(f.store, rows[i].command) = rows[i].observed
      PROVE  Exhausted(rows, best, Effect(f.store, rows[i].command), P \ {i})
  <2>1. i \in Candidates(rows, P)
    BY <1>8 DEF Candidates
  <2>2. PICK k \in 1..n : Order(rows, P)[k] = i
    BY <1>2, <2>1
  <2>3. k \in 1..(f.next - 1)
    BY <1>2, <1>5, <2>2
  <2>4. Tried(rows, best, frames, f, i)
    BY <2>2, <2>3 DEF Searched, P
  <2>5. Visited(rows, best, frames, Effect(f.store, rows[i].command), P \ {i})
    BY <1>8, <2>4 DEF Tried, P
  <2>6. \A d \in 1..Len(frames) : frames[d].pending # P \ {i}
    BY DEF P
  <2> QED BY <2>5, <2>6 DEF Visited
<1>9. \A p \in 1..Len(rows) : rows[p].invoke_step \in Nat /\ rows[p].return_step \in Nat
  BY RowTimes
<1>10. Exhausted(rows, best, f.store, P)
  BY <1>1, <1>7, <1>8, <1>9, DeadEnd
<1> QED BY <1>10 DEF P

---------------------------------------------------------------------------
(* Recording. *)

LEMMA OracleInit == Init => OracleInv
<1> SUFFICES ASSUME Init PROVE OracleInv
  OBVIOUS
<1>1. history \in Seq(Row) /\ Len(history) = 0 /\ ops \in Seq(Row) /\ Len(ops) = 0
  BY DEF Init
<1>2. HistoryInv /\ GoodRows(ops)
  BY <1>1 DEF Init, HistoryInv, GoodRows
<1> QED BY <1>2 DEF Init, OracleInv, WitnessIsLinearization, AccusationIsRight, DeepestIsLongest

\* While the history is recorded the search has not begun.
LEMMA RecordingKeeps ==
    ASSUME OracleInv, Recording, UNCHANGED search, HistoryInv'
    PROVE  OracleInv'
BY DEF OracleInv, Recording, search, GoodRows,
       WitnessIsLinearization, AccusationIsRight, DeepestIsLongest

LEMMA InvokeKeeps ==
    ASSUME OracleInv, _invoke
    PROVE  OracleInv'
<1>1. HistoryInv
  BY DEF OracleInv
<1>2. PICK command \in Workload : history' = Append(history, HistoryEntry(command))
  BY DEF _invoke
<1> DEFINE entry == HistoryEntry(command)
           n == Len(history)
<1>3. steps \in Nat /\ steps' = steps + 1 /\ history \in Seq(Row) /\ n \in Nat
  BY <1>1 DEF HistoryInv, _invoke
<1>4. entry \in Row /\ entry.invoke_step = steps + 1 /\ ~Completed(entry)
  BY <1>3 DEF HistoryEntry, Row, Completed, NotYet, Observable
<1> HIDE DEF entry
<1>5. /\ history' \in Seq(Row) /\ Len(history') = n + 1 /\ history'[n + 1] = entry
      /\ \A i \in 1..n : history'[i] = history[i]
  BY <1>2, <1>3, <1>4 DEF entry
<1>6. \A i \in 1..n : history[i].invoke_step \in Nat /\ history[i].invoke_step <= steps
  <2> TAKE i \in 1..n
  <2>1. history[i] \in Row
    BY <1>3
  <2> QED BY <1>1, <2>1 DEF HistoryInv, Row
<1> HIDE DEF n
<1>7. \A i \in 1..(n + 1) : i \in 1..n \/ i = n + 1
  BY <1>3
<1>8. \A i \in 1..(n + 1) :
        /\ history'[i].invoke_step <= steps'
        /\ Completed(history'[i]) => history'[i].invoke_step <= history'[i].return_step
  <2> TAKE i \in 1..(n + 1)
  <2>1. CASE i \in 1..n
    BY <1>1, <1>3, <1>5, <1>6, <2>1 DEF HistoryInv, n
  <2>2. CASE i = n + 1
    BY <1>3, <1>4, <1>5, <2>2
  <2> QED BY <1>7, <2>1, <2>2
<1>9. \A i, j \in 1..(n + 1) : i < j => history'[i].invoke_step < history'[j].invoke_step
  <2> SUFFICES ASSUME NEW i \in 1..(n + 1), NEW j \in 1..(n + 1), i < j
               PROVE  history'[i].invoke_step < history'[j].invoke_step
    OBVIOUS
  <2>1. i \in 1..n
    BY <1>3
  <2>2. CASE j \in 1..n
    BY <1>1, <1>5, <2>1, <2>2 DEF HistoryInv, n
  <2>3. CASE j = n + 1
    BY <1>3, <1>4, <1>5, <1>6, <2>1, <2>3
  <2> QED BY <1>7, <2>2, <2>3
<1>10. HistoryInv'
  BY <1>3, <1>5, <1>8, <1>9 DEF HistoryInv, Completed
<1> QED BY <1>10, RecordingKeeps DEF _invoke

LEMMA ApplyKeeps ==
    ASSUME OracleInv, NEW returned \in SUBSET Open, _on_apply(returned)
    PROVE  OracleInv'
<1>1. HistoryInv /\ steps \in Nat /\ steps' = steps + 1
  BY DEF OracleInv, HistoryInv, _on_apply
<1>2. PICK observed :
        /\ \A i \in returned : observed[i] \in Answers(history[i].command)
        /\ history' = [i \in DOMAIN history |->
              IF i \in returned
              THEN [history[i] EXCEPT !.return_step = steps + 1, !.observed = observed[i]]
              ELSE history[i]]
  BY DEF _on_apply
<1> DEFINE n == Len(history)
<1>3. n \in Nat /\ DOMAIN history = 1..n /\ history \in [1..n -> Row]
  BY <1>1 DEF HistoryInv
<1> HIDE DEF n
<1>4. \A i \in 1..n :
        /\ history'[i] \in Row
        /\ history'[i].invoke_step = history[i].invoke_step
        /\ \/ history'[i] = history[i]
           \/ history'[i].return_step = steps + 1
  <2> TAKE i \in 1..n
  <2>1. CASE i \in returned
    <3>1. history'[i] = [history[i] EXCEPT !.return_step = steps + 1, !.observed = observed[i]]
      BY <1>2, <1>3, <2>1
    <3>2. observed[i] \in Observable
      <4>1. history[i].command \in Workload
        BY <1>3 DEF Row
      <4> QED BY <1>2, <2>1, <4>1 DEF Observable
    <3>3. history[i] \in Row /\ steps + 1 \in Nat
      BY <1>1, <1>3
    <3> QED BY <3>1, <3>2, <3>3 DEF Row
  <2>2. CASE i \notin returned
    BY <1>2, <1>3, <2>2
  <2> QED BY <2>1, <2>2
<1>5. history' \in Seq(Row) /\ Len(history') = n
  <2>1. history' \in [1..n -> Row]
    BY <1>2, <1>3, <1>4
  <2> QED BY <1>3, <2>1, FunctionIsSeq
<1>6. \A i \in 1..n : history[i].invoke_step \in Nat /\ history[i].invoke_step <= steps
  BY <1>1, <1>3 DEF HistoryInv, Row, n
<1>7. \A i \in 1..n :
        /\ history'[i].invoke_step <= steps'
        /\ Completed(history'[i]) => history'[i].invoke_step <= history'[i].return_step
  <2> TAKE i \in 1..n
  <2>1. CASE history'[i] = history[i]
    BY <1>1, <1>6, <2>1 DEF HistoryInv, n
  <2>2. CASE history'[i].return_step = steps + 1
    BY <1>1, <1>4, <1>6, <2>2
  <2> QED BY <1>4, <2>1, <2>2
<1>8. \A i, j \in 1..n : i < j => history'[i].invoke_step < history'[j].invoke_step
  BY <1>1, <1>4 DEF HistoryInv, n
<1>9. HistoryInv'
  BY <1>1, <1>5, <1>7, <1>8 DEF HistoryInv, Completed
<1> QED BY <1>9, RecordingKeeps DEF _on_apply

---------------------------------------------------------------------------
(* The search. *)

\* No operation at all.
LEMMA NoOperation ==
    ASSUME NEW rows \in Seq(Row)
    PROVE  /\ IsLinear(rows, <<>>) /\ IsInjective(<<>>)
           /\ Replayed(rows, EmptyStore, <<>>)[0] = EmptyStore
<1>1. Len(<<>>) = 0 /\ DOMAIN <<>> = {}
  OBVIOUS
<1>2. IsLinear(rows, <<>>)
  BY <1>1 DEF IsLinear, RespectsRealTime, ExplainsResults
<1>3. Replayed(rows, EmptyStore, <<>>)[0] = EmptyStore
  BY <1>1, ReplayedIsRun DEF IsRun
<1> QED BY <1>1, <1>2, <1>3 DEF IsInjective

LEMMA EmptyStoreType == EmptyStore \in Store
BY DEF EmptyStore, Store, Value

LEMMA CheckKeeps ==
    ASSUME OracleInv, NEW max_ops \in Nat, NEW b, check(max_ops, b)
    PROVE  OracleInv'
<1> DEFINE n == IF Len(CompletedOps) < max_ops THEN Len(CompletedOps) ELSE max_ops
           root == Frame(EmptyStore, 1..n, <<>>)
<1>1. HistoryInv /\ memo = {} /\ deepest = <<>>
  BY DEF OracleInv, check, Recording
<1>2. /\ CompletedOps \in Seq(Row) /\ Len(CompletedOps) \in Nat
      /\ \A i \in 1..Len(CompletedOps) :
            CompletedOps[i].invoke_step <= CompletedOps[i].return_step
  BY <1>1, CompletedOpsType
<1>3. /\ n \in Nat /\ n <= Len(CompletedOps)
      /\ ops' = SubSeq(CompletedOps, 1, n) /\ stack' = <<root>>
      /\ verdict' = (IF n = 0 THEN "linearizable" ELSE "searching")
      /\ history' = history /\ steps' = steps /\ memo' = {} /\ deepest' = <<>>
  BY <1>1, <1>2 DEF check
<1> HIDE DEF n
<1>4. /\ ops' \in Seq(Row) /\ Len(ops') = n
      /\ \A i \in 1..n : ops'[i] = CompletedOps[i]
  BY <1>2, <1>3
<1>5. GoodRows(ops') /\ HistoryInv'
  BY <1>1, <1>2, <1>3, <1>4 DEF GoodRows, HistoryInv, Completed
<1>6. IsLinear(ops', <<>>) /\ IsInjective(<<>>) /\ Replayed(ops', EmptyStore, <<>>)[0] = EmptyStore
  BY <1>4, NoOperation
<1>7. CASE n = 0
  <2>1. ops' = <<>> /\ witness' = <<>> /\ DOMAIN ops' = {}
    BY <1>4, <1>7, EmptySeq DEF witness
  <2>2. <<>> \in SetToSeqs({})
    <3>1. Cardinality({}) = 0 /\ 1..0 = {}
      BY FS_EmptySet
    <3>2. <<>> \in [{} -> {}]
      OBVIOUS
    <3> QED BY <3>1, <3>2 DEF SetToSeqs
  <2> QED BY <1>3, <1>5, <1>6, <1>7, <2>1, <2>2
          DEF OracleInv, WitnessIsLinearization, AccusationIsRight, DeepestIsLongest
<1>8. CASE n # 0
  <2>1. /\ root.store = EmptyStore /\ root.pending = 1..n /\ root.path = <<>> /\ root.next = 1
        /\ root \in FrameOf(ops')
    BY <1>4, EmptyStoreType DEF Frame, FrameOf
  <2> HIDE DEF root
  <2>2. GoodFrame(ops', root)
    BY <1>4, <1>6, <2>1 DEF GoodFrame
  <2>3. Searched(ops', 0, <<root>>, root)
    <3>1. Len(Order(ops', 1..n)) \in Nat
      BY <1>3, <1>4, OrderEnumerates
    <3> QED BY <2>1, <3>1 DEF Searched
  <2>4. stack' \in Seq(FrameOf(ops')) /\ Len(stack') = 1 /\ stack'[1] = root
    BY <1>3, <2>1
  <2>5. Visited(ops', 0, stack', EmptyStore, 1..Len(ops'))
    BY <1>4, <2>1, <2>4 DEF Visited
  <2>6. deepest' \in Seq(1..Len(ops')) /\ Len(deepest') = 0 /\ ops' # <<>>
    BY <1>3, <1>4, <1>8
  <2>7. SearchInv'
    <3>1. DeepestInv'
      BY <1>3, <1>4, <1>6, <1>8, <2>6 DEF DeepestInv
    <3>2. \A d \in 1..Len(stack') :
             GoodFrame(ops', stack'[d]) /\ Searched(ops', Len(deepest'), stack', stack'[d])
      BY <1>3, <2>2, <2>3, <2>4, <2>6
    <3> QED BY <1>3, <2>4, <2>5, <2>6, <3>1, <3>2 DEF SearchInv
  <2>8. verdict' = "searching"
    BY <1>3, <1>8
  <2> QED BY <1>5, <2>7, <2>8
          DEF OracleInv, WitnessIsLinearization, AccusationIsRight, DeepestIsLongest
<1> QED BY <1>7, <1>8

\* What is known of the frame on top.
LEMMA TopFrame ==
    ASSUME SearchInv, stack # <<>>
    PROVE  /\ Len(stack) \in Nat \ {0} /\ Last(stack) = stack[Len(stack)]
           /\ Last(stack) \in FrameOf(ops) /\ GoodFrame(ops, Last(stack))
           /\ Searched(ops, Len(deepest), stack, Last(stack))
<1>1. stack \in Seq(FrameOf(ops))
  BY DEF SearchInv
<1>2. Len(stack) \in Nat \ {0} /\ Last(stack) = stack[Len(stack)] /\ Last(stack) \in FrameOf(ops)
  BY <1>1, LastAndFront
<1>3. Len(stack) \in 1..Len(stack)
  BY <1>2
<1> QED BY <1>2, <1>3 DEF SearchInv

LEMMA FoundKeeps ==
    ASSUME OracleInv, Found
    PROVE  OracleInv'
<1> DEFINE f == Last(stack)
           n == Len(ops)
<1>1. SearchInv /\ GoodRows(ops) /\ f.pending = {} /\ stack # <<>>
  BY DEF OracleInv, Found
<1>2. f \in FrameOf(ops) /\ GoodFrame(ops, f)
  BY <1>1, TopFrame
<1>3. n \in Nat /\ DOMAIN ops = 1..n
  BY <1>1 DEF GoodRows
<1> HIDE DEF f
<1>4. Len(f.path) = n
  <2>1. Len(f.path) = n - Cardinality(f.pending)
    BY <1>2, <1>3, PathCounts
  <2>2. Cardinality(f.pending) = 0
    BY <1>1, FS_EmptySet
  <2> QED BY <1>3, <2>1, <2>2
<1>5. Cardinality(1..n) = n
  <2>1. n \in Nat
    BY <1>3
  <2> HIDE DEF n
  <2> QED BY <2>1, FS_Interval
<1>6. f.path \in [1..n -> 1..n]
  BY <1>2, <1>3, <1>4 DEF FrameOf
<1>7. f.path \in SetToSeqs(DOMAIN ops)
  BY <1>2, <1>3, <1>5, <1>6 DEF SetToSeqs, GoodFrame, IsInjective
<1>8. witness' = f.path
  BY <1>1 DEF Found, witness, SearchInv, f
<1> QED BY <1>1, <1>2, <1>7, <1>8
        DEF OracleInv, HistoryInv, Completed, Found, GoodFrame, WitnessIsLinearization,
            AccusationIsRight, DeepestIsLongest

LEMMA StuckKeeps ==
    ASSUME OracleInv, Stuck
    PROVE  OracleInv'
<1> DEFINE n == Len(ops)
           best == Len(deepest)
<1>1. SearchInv /\ GoodRows(ops) /\ stack = <<>>
  BY DEF OracleInv, Stuck
<1>2. n \in Nat /\ DOMAIN ops = 1..n /\ ops \in Seq(Row)
  BY <1>1 DEF GoodRows
<1>3. DeepestInv /\ best \in Nat /\ best < n
  BY <1>1 DEF SearchInv, DeepestInv
<1>4. Exhausted(ops, best, EmptyStore, 1..n)
  BY <1>1 DEF SearchInv, Visited
<1> HIDE DEF n, best
<1>5. \A m \in 0..n : \A order \in [1..m -> 1..n] :
         IsInjective(order) /\ IsLinear(ops, order) => m <= best
  BY <1>2, <1>3, <1>4, ExhaustedRoot DEF n
<1>6. IsFiniteSet(1..n) /\ Cardinality(1..n) = n
  BY <1>2, FS_Interval
<1>7. ~Linearizable(ops)
  <2> SUFFICES ASSUME NEW order \in SetToSeqs(1..n), IsLinear(ops, order) PROVE FALSE
    BY <1>2 DEF Linearizable
  <2>1. order \in [1..n -> 1..n] /\ IsInjective(order)
    BY <1>6 DEF SetToSeqs, IsInjective
  <2>2. n \in 0..n
    BY <1>2
  <2>3. n <= best
    BY <1>5, <2>1, <2>2
  <2> QED BY <1>2, <1>3, <2>3
<1>8. \A order \in SetToAllKPermutations(1..n) :
         IsLinear(ops, order) => Len(order) <= best
  <2> SUFFICES ASSUME NEW S \in SUBSET (1..n), NEW order \in SetToSeqs(S), IsLinear(ops, order)
               PROVE  Len(order) <= best
    BY DEF SetToAllKPermutations
  <2> DEFINE m == Cardinality(S)
  <2>1. m \in Nat /\ m <= n
    BY <1>2, PendingFinite
  <2>2. order \in [1..m -> S] /\ IsInjective(order)
    BY DEF SetToSeqs, IsInjective
  <2> HIDE DEF m
  <2>3. order \in [1..m -> 1..n] /\ m \in 0..n
    <3>1. order \in [1..m -> 1..n]
      BY <2>2
    <3>2. m \in 0..n
      BY <1>2, <2>1
    <3> QED BY <3>1, <3>2
  <2>4. Len(order) = m
    BY <2>1, <2>3, FunctionIsSeq
  <2> QED BY <1>5, <2>2, <2>3, <2>4
<1>9. /\ ops' = ops /\ deepest' = deepest /\ verdict' = "not linearizable"
      /\ HistoryInv' /\ GoodRows(ops')
  BY <1>1 DEF OracleInv, HistoryInv, Completed, Stuck
<1>10. AccusationIsRight'
  BY <1>7, <1>9 DEF AccusationIsRight
<1>11. DeepestIsLongest'
  BY <1>2, <1>3, <1>8, <1>9 DEF DeepestIsLongest, DeepestInv, best
<1> QED BY <1>9, <1>10, <1>11 DEF OracleInv, WitnessIsLinearization

LEMMA BacktrackKeeps ==
    ASSUME OracleInv, Backtrack
    PROVE  OracleInv'
<1> DEFINE f == Last(stack)
           N == Len(stack)
           best == Len(deepest)
<1>1. SearchInv /\ GoodRows(ops) /\ stack # <<>> /\ f.pending # {} /\ ~Trying(f)
  BY DEF OracleInv, Backtrack
<1>2. /\ ops' = ops /\ memo' = memo /\ deepest' = deepest /\ verdict' = "searching"
      /\ stack' = Front(stack) /\ HistoryInv' /\ GoodRows(ops')
  BY <1>1 DEF OracleInv, HistoryInv, Completed, Backtrack
<1>3. /\ N \in Nat \ {0} /\ f = stack[N] /\ f \in FrameOf(ops) /\ GoodFrame(ops, f)
      /\ Searched(ops, best, stack, f)
  BY <1>1, TopFrame
<1>4. /\ stack' \in Seq(FrameOf(ops)) /\ Len(stack') = N - 1
      /\ \A d \in 1..(N - 1) : stack'[d] = stack[d]
  <2>1. stack \in Seq(FrameOf(ops))
    BY <1>1 DEF SearchInv
  <2> QED BY <1>1, <1>2, <2>1, LastAndFront
<1>5. Len(ops) \in Nat /\ best \in Nat /\ DeepestInv
  BY <1>1 DEF GoodRows, SearchInv, DeepestInv
<1>6. \A d \in 1..N : f.pending \subseteq stack[d].pending
  <2> TAKE d \in 1..N
  <2>1. CASE d = N
    BY <1>3, <2>1
  <2>2. CASE d < N
    BY <1>1, <1>3, <2>2 DEF SearchInv
  <2> QED BY <1>3, <2>1, <2>2
<1> HIDE DEF f
<1>7. Exhausted(ops, best, f.store, f.pending)
  <2>1. ~(f.next <= Len(Order(ops, f.pending)))
    BY <1>1, MinimalIsOrder DEF Trying
  <2>2. /\ GoodRows(ops) /\ best \in Nat /\ f \in FrameOf(ops) /\ GoodFrame(ops, f)
        /\ f.pending # {} /\ Searched(ops, best, stack, f)
        /\ \A d \in 1..Len(stack) : f.pending \subseteq stack[d].pending
    BY <1>1, <1>3, <1>5, <1>6
  <2> HIDE DEF best, N
  <2> QED BY ONLY <2>1, <2>2, FrameExhausted
<1> HIDE DEF N, best
<1>8. Stays(ops, best, stack, best, stack')
  <2>1. ASSUME NEW d \in 1..Len(stack)
        PROVE  \/ Exhausted(ops, best, stack[d].store, stack[d].pending)
               \/ \E e \in 1..Len(stack') : /\ stack'[e].store = stack[d].store
                                            /\ stack'[e].pending = stack[d].pending
    <3>1. CASE d = N
      BY <1>3, <1>7, <3>1
    <3>2. CASE d # N
      <4>1. d \in 1..(N - 1)
        BY <1>3, <3>2 DEF N
      <4> QED BY <1>4, <4>1
    <3> QED BY <3>1, <3>2
  <2>2. best <= best
    BY <1>5
  <2> QED BY <1>5, <2>1, <2>2, VisitedStays DEF Stays
<1>9. \A d \in 1..(N - 1) : d \in 1..N /\ stack[d] \in FrameOf(ops)
                            /\ GoodFrame(ops, stack[d]) /\ Searched(ops, best, stack, stack[d])
  <2> TAKE d \in 1..(N - 1)
  <2>1. d \in 1..N
    BY <1>3
  <2> QED BY <1>1, <2>1 DEF SearchInv, N, best
<1>10. \A d \in 1..Len(stack') :
          GoodFrame(ops', stack'[d]) /\ Searched(ops', Len(deepest'), stack', stack'[d])
  <2> SUFFICES ASSUME NEW d \in 1..(N - 1)
               PROVE  GoodFrame(ops, stack[d]) /\ Searched(ops, best, stack', stack[d])
    BY <1>2, <1>4 DEF best
  <2>1. stack[d] \in FrameOf(ops) /\ Searched(ops, best, stack, stack[d])
    BY <1>9
  <2>2. Searched(ops, best, stack', stack[d])
    <3>1. best <= best
      BY <1>5
    <3> QED BY ONLY <1>5, <1>8, <2>1, <3>1, SearchedStays
  <2> QED BY <1>9, <2>2
<1>11. \A d, e \in 1..Len(stack') : d < e =>
          /\ stack'[e].pending \subseteq stack'[d].pending
          /\ stack'[e].pending # stack'[d].pending
  BY <1>1, <1>4, <1>9 DEF SearchInv, N
<1>12. /\ Visited(ops', Len(deepest'), stack', EmptyStore, 1..Len(ops'))
       /\ memo' \subseteq Store \X SUBSET (1..Len(ops'))
       /\ \A key \in memo' : Visited(ops', Len(deepest'), stack', key[1], key[2])
  BY <1>1, <1>2, <1>8 DEF SearchInv, Stays, best
<1>13. SearchInv'
  BY <1>1, <1>2, <1>4, <1>5, <1>10, <1>11, <1>12 DEF SearchInv, DeepestInv
<1> QED BY <1>2, <1>13 DEF OracleInv, WitnessIsLinearization, AccusationIsRight, DeepestIsLongest

\* The frame f of the stack tries its candidate i: what is done when frames
\* and best are the stack and the longest path afterwards.
Advanced(f, i, frames, best) ==
    /\ frames \in Seq(FrameOf(ops)) /\ Len(frames) \in Nat /\ Len(frames) >= Len(stack)
    /\ \A d \in 1..(Len(stack) - 1) : frames[d] = stack[d]
    /\ frames[Len(stack)] = NextCandidate(f)
    /\ best \in Nat /\ Len(deepest) <= best /\ Len(f.path) <= best
    /\ f.next \in 1..Len(Order(ops, f.pending)) /\ i = Order(ops, f.pending)[f.next]

LEMMA NextCandidateIs ==
    ASSUME NEW rows, Len(rows) \in Nat, NEW f \in FrameOf(rows), NEW g, g = NextCandidate(f)
    PROVE  /\ g \in FrameOf(rows)
           /\ g.store = f.store /\ g.pending = f.pending /\ g.path = f.path
           /\ g.next = f.next + 1
BY DEF NextCandidate, FrameOf

LEMMA AdvancedStays ==
    ASSUME SearchInv, GoodRows(ops), stack # <<>>,
           NEW f, f = Last(stack), NEW i, NEW frames, NEW best, Advanced(f, i, frames, best)
    PROVE  Stays(ops, Len(deepest), stack, best, frames)
<1> DEFINE N == Len(stack)
           old == Len(deepest)
<1>1. N \in Nat \ {0} /\ f = stack[N] /\ f \in FrameOf(ops)
  BY TopFrame
<1>2. Len(ops) \in Nat /\ old \in Nat /\ best \in Nat /\ old <= best
  BY DEF GoodRows, SearchInv, DeepestInv, Advanced
<1>3. frames[N].store = f.store /\ frames[N].pending = f.pending
  BY <1>1, <1>2, NextCandidateIs DEF Advanced
<1>4. ASSUME NEW d \in 1..Len(stack)
      PROVE  \/ Exhausted(ops, best, stack[d].store, stack[d].pending)
             \/ \E e \in 1..Len(frames) : /\ frames[e].store = stack[d].store
                                          /\ frames[e].pending = stack[d].pending
  <2>1. d \in 1..Len(frames)
    BY <1>1 DEF Advanced
  <2>2. CASE d = N
    BY <1>1, <1>3, <2>1, <2>2
  <2>3. CASE d # N
    <3>1. d \in 1..(N - 1)
      BY <1>1, <2>3
    <3> QED BY <2>1, <3>1 DEF Advanced
  <2> QED BY <2>2, <2>3
<1> HIDE DEF old, N
<1> QED BY <1>2, <1>4, VisitedStays DEF Stays, old

LEMMA AdvancedFrames ==
    ASSUME SearchInv, GoodRows(ops), stack # <<>>,
           NEW f, f = Last(stack), NEW i, NEW frames, NEW best, Advanced(f, i, frames, best),
           Tried(ops, best, frames, f, i)
    PROVE  /\ \A d \in 1..Len(stack) :
                 /\ GoodFrame(ops, frames[d]) /\ Searched(ops, best, frames, frames[d])
                 /\ f.pending \subseteq frames[d].pending
           /\ \A d, e \in 1..Len(stack) : d < e =>
                 /\ frames[e].pending \subseteq frames[d].pending
                 /\ frames[e].pending # frames[d].pending
<1> DEFINE N == Len(stack)
           old == Len(deepest)
           g == frames[N]
           n == Len(Order(ops, f.pending))
<1>1. /\ N \in Nat \ {0} /\ f = stack[N] /\ f \in FrameOf(ops) /\ GoodFrame(ops, f)
      /\ Searched(ops, old, stack, f)
  BY TopFrame
<1>2. Len(ops) \in Nat /\ old \in Nat /\ best \in Nat /\ old <= best
  BY DEF GoodRows, SearchInv, DeepestInv, Advanced
<1>3. g.store = f.store /\ g.pending = f.pending /\ g.path = f.path /\ g.next = f.next + 1
  BY <1>1, <1>2, NextCandidateIs DEF Advanced
<1>4. Stays(ops, old, stack, best, frames)
  BY AdvancedStays
<1>5. f.next \in 1..n /\ n \in Nat /\ i = Order(ops, f.pending)[f.next] /\ Len(f.path) <= best
  <2>1. f.pending \in SUBSET (1..Len(ops))
    BY <1>1 DEF FrameOf
  <2> QED BY <1>2, <2>1, OrderEnumerates DEF Advanced
<1>6. \A d \in 1..(N - 1) : frames[d] = stack[d]
  BY DEF Advanced
<1>7. \A d \in 1..N : d = N \/ d \in 1..(N - 1)
  BY <1>1
<1>8. \A d \in 1..N : frames[d].pending = stack[d].pending
  BY <1>1, <1>3, <1>6, <1>7
<1> HIDE DEF n, g
<1>9. GoodFrame(ops, g)
  BY <1>1, <1>3 DEF GoodFrame
<1>10. Searched(ops, best, frames, g)
  <2>1. Searched(ops, best, frames, f)
    BY <1>1, <1>2, <1>4, SearchedStays
  <2>2. \A k : Tried(ops, best, frames, g, k) <=> Tried(ops, best, frames, f, k)
    BY <1>3 DEF Tried
  <2>3. \A k \in 1..(f.next - 1) : Tried(ops, best, frames, f, Order(ops, f.pending)[k])
    BY <2>1 DEF Searched
  <2>4. \A k \in 1..(g.next - 1) : k \in 1..(f.next - 1) \/ k = f.next
    BY <1>3, <1>5
  <2>5. \A k \in 1..(g.next - 1) : Tried(ops, best, frames, g, Order(ops, g.pending)[k])
    BY <1>3, <1>5, <2>2, <2>3, <2>4
  <2>6. g.next \in 1..(n + 1) /\ n = Len(Order(ops, g.pending))
    BY <1>3, <1>5 DEF n
  <2> QED BY <1>3, <1>5, <2>5, <2>6 DEF Searched
<1> HIDE DEF N, old
<1>11. \A d \in 1..(N - 1) : GoodFrame(ops, stack[d]) /\ Searched(ops, best, frames, stack[d])
  <2> SUFFICES ASSUME NEW d \in 1..(N - 1)
               PROVE  GoodFrame(ops, stack[d]) /\ Searched(ops, best, frames, stack[d])
    OBVIOUS
  <2>1. d \in 1..N
    BY <1>1
  <2>2. /\ stack[d] \in FrameOf(ops) /\ GoodFrame(ops, stack[d])
        /\ Searched(ops, old, stack, stack[d])
    BY <2>1 DEF SearchInv, N, old
  <2>3. Searched(ops, best, frames, stack[d])
    BY ONLY <1>2, <1>4, <2>2, SearchedStays
  <2> QED BY <2>2, <2>3
<1>12. \A d, e \in 1..N : d < e =>
          stack[e].pending \subseteq stack[d].pending /\ stack[e].pending # stack[d].pending
  BY DEF SearchInv, N
<1>13. \A d \in 1..N : f.pending \subseteq stack[d].pending
  <2> TAKE d \in 1..N
  <2>1. N \in 1..N /\ (d = N \/ d < N)
    BY <1>1
  <2> QED BY <1>1, <1>12, <2>1
<1>14. \A d \in 1..N : GoodFrame(ops, frames[d]) /\ Searched(ops, best, frames, frames[d])
  <2> TAKE d \in 1..N
  <2>1. CASE d = N
    BY <1>9, <1>10, <2>1 DEF g
  <2>2. CASE d \in 1..(N - 1)
    BY <1>6, <1>11, <2>2
  <2> QED BY <1>7, <2>1, <2>2
<1> QED BY <1>8, <1>12, <1>13, <1>14 DEF N

LEMMA TryKeeps ==
    ASSUME OracleAssumption, OracleInv, Try
    PROVE  OracleInv'
<1> DEFINE f == Last(stack)
           N == Len(stack)
           i == Order(ops, f.pending)[f.next]
           store == Effect(f.store, ops[i].command)
           left == f.pending \ {i}
           key == <<store, left>>
           here == Append(Front(stack), NextCandidate(f))
           below == Frame(store, left, Append(f.path, i))
           best == Len(deepest')
<1>1. /\ SearchInv /\ GoodRows(ops) /\ stack # <<>> /\ verdict = "searching"
      /\ f.pending # {} /\ f.next <= Len(Order(ops, f.pending))
  BY MinimalIsOrder DEF OracleInv, Try, Trying
<1>2. ops' = ops /\ HistoryInv' /\ GoodRows(ops') /\ deepest' = Deeper(f)
  BY <1>1 DEF OracleInv, HistoryInv, Completed, Try
<1>3. \/ /\ Result(f.store, ops[i].command) # ops[i].observed \/ key \in memo
         /\ stack' = here /\ memo' = memo /\ verdict' = "searching"
      \/ verdict' = "undetermined"
      \/ /\ Result(f.store, ops[i].command) = ops[i].observed
         /\ stack' = Append(here, below) /\ memo' = memo \cup {key} /\ verdict' = "searching"
  BY <1>1, MinimalIsOrder DEF Try, MemoKey
<1> HIDE DEF here, below, key
<1>4. /\ N \in Nat \ {0} /\ f = stack[N] /\ f \in FrameOf(ops) /\ GoodFrame(ops, f)
      /\ Searched(ops, Len(deepest), stack, f)
  BY <1>1, TopFrame
<1>5. Len(ops) \in Nat /\ Len(deepest) \in Nat /\ DeepestInv /\ ops \in Seq(Row)
  BY <1>1 DEF GoodRows, SearchInv, DeepestInv
<1>6. /\ here \in Seq(FrameOf(ops)) /\ Len(here) = N /\ here[N] = NextCandidate(f)
      /\ \A d \in 1..(N - 1) : here[d] = stack[d]
  <2>1. NextCandidate(f) \in FrameOf(ops)
    BY <1>4, <1>5, NextCandidateIs
  <2>2. stack \in Seq(FrameOf(ops))
    BY <1>1 DEF SearchInv
  <2>3. here = Append(Front(stack), NextCandidate(f))
    BY DEF here
  <2>4. stack # <<>>
    BY <1>1
  <2> HIDE DEF f
  <2>5. /\ here \in Seq(FrameOf(ops)) /\ Len(here) = Len(stack)
        /\ here[Len(stack)] = NextCandidate(f)
        /\ \A d \in 1..(Len(stack) - 1) : here[d] = stack[d]
    <3> DEFINE front == Front(stack)
    <3>1. /\ front \in Seq(FrameOf(ops)) /\ Len(front) = Len(stack) - 1
          /\ Len(stack) \in Nat /\ \A d \in 1..(Len(stack) - 1) : front[d] = stack[d]
      BY <2>2, <2>4, LastAndFront
    <3>2. here = Append(front, NextCandidate(f))
      BY <2>3
    <3> HIDE DEF front
    <3> QED BY <2>1, <3>1, <3>2
  <2> QED BY <2>5
<1>7. f.next \in 1..Len(Order(ops, f.pending)) /\ i \in Candidates(ops, f.pending) /\ i \in f.pending
  <2>1. f.pending \in SUBSET (1..Len(ops))
    BY <1>4 DEF FrameOf
  <2>2. f.next \in Nat /\ f.next >= 1
    BY <1>4 DEF FrameOf, Searched
  <2>3. /\ Len(Order(ops, f.pending)) \in Nat
        /\ \A k \in 1..Len(Order(ops, f.pending)) :
              Order(ops, f.pending)[k] \in Candidates(ops, f.pending)
    BY <1>5, <2>1, OrderEnumerates
  <2>4. f.next \in 1..Len(Order(ops, f.pending))
    BY <1>1, <2>2, <2>3
  <2>5. i \in Candidates(ops, f.pending)
    BY <2>3, <2>4
  <2> QED BY <2>4, <2>5 DEF Candidates
<1>8. /\ Len(f.path) \in Nat /\ Len(f.path) < Len(ops)
      /\ f.path \in Seq(1..Len(ops)) /\ IsLinear(ops, f.path)
  <2>1. f.pending \in SUBSET (1..Len(ops))
    BY <1>4 DEF FrameOf
  <2>2. IsFiniteSet(f.pending) /\ Cardinality(f.pending) \in Nat
    BY <1>5, <2>1, PendingFinite
  <2>3. Cardinality(f.pending) # 0
    BY <1>1, <2>2, FS_EmptySet
  <2>4. Len(f.path) = Len(ops) - Cardinality(f.pending)
    BY <1>4, <1>5, PathCounts
  <2>5. f.path \in Seq(1..Len(ops)) /\ IsLinear(ops, f.path)
    BY <1>4 DEF FrameOf, GoodFrame
  <2> QED BY <1>5, <2>2, <2>3, <2>4, <2>5
<1>9. DeepestInv' /\ best \in Nat /\ Len(deepest) <= best /\ Len(f.path) <= best
  BY <1>2, <1>5, <1>8 DEF DeepestInv, Deeper
<1> HIDE DEF f, N, i, best, left, store
<1>10. ASSUME verdict' = "searching",
              /\ stack' \in Seq(FrameOf(ops)) /\ Len(stack') >= N /\ Len(stack') \in Nat
              /\ \A d \in 1..N : stack'[d] = here[d],
              Stays(ops, Len(deepest), stack, best, stack')
              => Tried(ops, best, stack', f, i),
              \A d \in (N + 1)..Len(stack') :
                 /\ d = N + 1 /\ stack'[d].pending = f.pending \ {i}
                 /\ GoodFrame(ops, stack'[d])
                 /\ Searched(ops, best, stack', stack'[d]),
              memo' \subseteq memo \cup {key},
              key \in memo' =>
                 \/ key \in memo
                 \/ Visited(ops, best, stack', store, left)
       PROVE  SearchInv'
  <2>1. Advanced(f, i, stack', best)
    BY <1>4, <1>6, <1>7, <1>9, <1>10 DEF Advanced, N, i
  <2>2. Stays(ops, Len(deepest), stack, best, stack')
    <3>1. f = Last(stack)
      BY DEF f
    <3> QED BY ONLY <1>1, <2>1, <3>1, AdvancedStays
  <2>3. /\ \A d \in 1..N :
              /\ GoodFrame(ops, stack'[d]) /\ Searched(ops, best, stack', stack'[d])
              /\ f.pending \subseteq stack'[d].pending
        /\ \A d, e \in 1..N : d < e =>
              /\ stack'[e].pending \subseteq stack'[d].pending
              /\ stack'[e].pending # stack'[d].pending
    <3>1. f = Last(stack)
      BY DEF f
    <3>2. Tried(ops, best, stack', f, i)
      BY <1>10, <2>2
    <3> QED BY <1>1, <2>1, <3>1, <3>2, AdvancedFrames DEF N
  <2>4. \A d \in 1..Len(stack') : d \in 1..N \/ d \in (N + 1)..Len(stack')
    BY <1>4, <1>10
  <2>5. \A d \in 1..Len(stack') :
           GoodFrame(ops', stack'[d]) /\ Searched(ops', best, stack', stack'[d])
    BY <1>2, <1>10, <2>3, <2>4
  <2>6. \A d, e \in 1..Len(stack') : d < e =>
           /\ stack'[e].pending \subseteq stack'[d].pending
           /\ stack'[e].pending # stack'[d].pending
    <3> SUFFICES ASSUME NEW d \in 1..Len(stack'), NEW e \in 1..Len(stack'), d < e
                 PROVE  /\ stack'[e].pending \subseteq stack'[d].pending
                        /\ stack'[e].pending # stack'[d].pending
      OBVIOUS
    <3>1. CASE e \in 1..N
      <4>1. d \in 1..N
        BY <1>4, <3>1
      <4> QED BY <2>3, <3>1, <4>1
    <3>2. CASE e \in (N + 1)..Len(stack')
      <4>1. e = N + 1 /\ stack'[e].pending = f.pending \ {i}
        BY <1>10, <3>2
      <4>2. d \in 1..N
        BY <1>4, <4>1
      <4> QED BY <1>7, <2>3, <4>1, <4>2
    <3> QED BY <2>4, <3>1, <3>2
  <2>7. /\ Visited(ops, best, stack', EmptyStore, 1..Len(ops))
        /\ \A k \in memo : Visited(ops, best, stack', k[1], k[2])
    BY <1>1, <2>2 DEF SearchInv, Stays
  <2>8. key \in Store \X SUBSET (1..Len(ops)) /\ key[1] = store /\ key[2] = left
    <3>1. i \in 1..Len(ops) /\ f.store \in Store /\ left \in SUBSET (1..Len(ops))
      BY <1>4, <1>7 DEF FrameOf, left
    <3>2. ops[i].command \in Workload
      <4>1. ops[i] \in Row
        BY <1>5, <3>1
      <4> QED BY <4>1 DEF Row
    <3>3. store \in Store
      BY <3>1, <3>2, EffectType DEF OracleAssumption, store
    <3> QED BY <3>1, <3>3 DEF key
  <2>9. /\ memo' \subseteq Store \X SUBSET (1..Len(ops))
        /\ \A k \in memo' : Visited(ops, best, stack', k[1], k[2])
    <3>1. memo \subseteq Store \X SUBSET (1..Len(ops))
      BY <1>1 DEF SearchInv
    <3>2. ASSUME NEW k \in memo' PROVE Visited(ops, best, stack', k[1], k[2])
      <4>1. CASE k \in memo
        BY <2>7, <4>1
      <4>2. CASE k \notin memo
        <5>1. k = key
          BY <1>10, <4>2
        <5>2. Visited(ops, best, stack', store, left)
          BY <1>10, <3>2, <4>2, <5>1
        <5> QED BY <2>8, <5>1, <5>2
      <4> QED BY <4>1, <4>2
    <3> QED BY <1>10, <2>8, <3>1, <3>2
  <2> QED BY <1>1, <1>2, <1>9, <1>10, <2>5, <2>6, <2>7, <2>9 DEF SearchInv, best
<1>11. ASSUME stack' = here, memo' = memo, verdict' = "searching",
              Result(f.store, ops[i].command) # ops[i].observed \/ key \in memo
       PROVE  SearchInv'
  <2>1. /\ stack' \in Seq(FrameOf(ops)) /\ Len(stack') = N
        /\ \A d \in 1..N : stack'[d] = here[d]
    BY <1>6, <1>11
  <2>2. ASSUME Stays(ops, Len(deepest), stack, best, stack')
        PROVE  Tried(ops, best, stack', f, i)
    <3>1. CASE key \in memo
      <4>1. key = <<store, left>> /\ left \in SUBSET (1..Len(ops))
        BY <1>4 DEF key, left, FrameOf
      <4>2. Visited(ops, Len(deepest), stack, store, left)
        <5>1. Visited(ops, Len(deepest), stack, key[1], key[2])
          BY <1>1, <3>1 DEF SearchInv
        <5> QED BY <4>1, <5>1
      <4>3. Visited(ops, best, stack', store, left)
        BY <2>2, <4>1, <4>2 DEF Stays
      <4> QED BY <4>3 DEF Tried, store, left
    <3>2. CASE Result(f.store, ops[i].command) # ops[i].observed
      BY <3>2 DEF Tried
    <3> QED BY <1>11, <3>1, <3>2
  <2>3. (N + 1)..Len(stack') = {} /\ Len(stack') >= N /\ Len(stack') \in Nat
    BY <1>4, <2>1
  <2> QED BY <1>10, <1>11, <2>1, <2>2, <2>3
<1>12. ASSUME stack' = Append(here, below), memo' = memo \cup {key}, verdict' = "searching",
              Result(f.store, ops[i].command) = ops[i].observed
       PROVE  SearchInv'
  <2>1. below \in FrameOf(ops) /\ GoodFrame(ops, below)
    <3>1. below = Frame(Effect(f.store, ops[i].command), f.pending \ {i}, Append(f.path, i))
      BY DEF below, store, left
    <3>2. \A q \in f.pending \ {i} : ops[i].invoke_step <= ops[q].return_step
      BY <1>7 DEF Candidates
    <3>3. Workload \subseteq Command
      BY DEF OracleAssumption
    <3> QED BY ONLY <1>4, <1>5, <1>7, <1>12, <3>1, <3>2, <3>3, GoodFrameExtends
  <2>2. below.store = store /\ below.pending = left /\ below.next = 1
    BY DEF below, Frame
  <2>3. /\ stack' \in Seq(FrameOf(ops)) /\ Len(stack') = N + 1 /\ stack'[N + 1] = below
        /\ \A d \in 1..N : stack'[d] = here[d]
    BY <1>4, <1>6, <1>12, <2>1
  <2>4. Visited(ops, best, stack', store, left)
    <3>1. N + 1 \in 1..Len(stack')
      BY <1>4, <2>3
    <3> QED BY <2>2, <2>3, <3>1 DEF Visited
  <2>5. Tried(ops, best, stack', f, i)
    BY <2>4 DEF Tried, store, left
  <2>6. Searched(ops, best, stack', below)
    <3>1. Len(Order(ops, below.pending)) \in Nat
      <4>1. below.pending \in SUBSET (1..Len(ops))
        BY <2>1 DEF FrameOf
      <4> QED BY <1>5, <4>1, OrderEnumerates
    <3>2. 1..(below.next - 1) = {}
      BY <2>2
    <3> QED BY <2>2, <3>1, <3>2 DEF Searched
  <2>7. \A d \in (N + 1)..Len(stack') :
           /\ d = N + 1 /\ stack'[d].pending = f.pending \ {i}
           /\ GoodFrame(ops, stack'[d]) /\ Searched(ops, best, stack', stack'[d])
    <3>1. \A d \in (N + 1)..Len(stack') : d = N + 1
      BY <1>4, <2>3
    <3>2. stack'[N + 1].pending = f.pending \ {i}
      BY <2>2, <2>3 DEF left
    <3> QED BY <2>1, <2>3, <2>6, <3>1, <3>2
  <2>8. Len(stack') >= N /\ Len(stack') \in Nat
    BY <1>4, <2>3
  <2> QED BY <1>10, <1>12, <2>3, <2>4, <2>5, <2>7, <2>8
<1>13. verdict' = "undetermined" \/ (verdict' = "searching" /\ SearchInv')
  BY <1>3, <1>11, <1>12
<1> QED BY <1>2, <1>13 DEF OracleInv, WitnessIsLinearization, AccusationIsRight, DeepestIsLongest

---------------------------------------------------------------------------
(* The theorems. *)

LEMMA OracleStep ==
    ASSUME OracleAssumption, OracleInv, [Next]_vars
    PROVE  OracleInv'
<1>1. CASE _invoke
  BY <1>1, InvokeKeeps
<1>2. ASSUME NEW returned \in SUBSET Open \ {{}}, _on_apply(returned)
      PROVE  OracleInv'
  BY <1>2, ApplyKeeps
<1>3. ASSUME NEW max_ops \in Limits, NEW b \in Budgets, check(max_ops, b)
      PROVE  OracleInv'
  BY <1>3, CheckKeeps DEF OracleAssumption
<1>4. CASE Found
  BY <1>4, FoundKeeps
<1>5. CASE Backtrack
  BY <1>5, BacktrackKeeps
<1>6. CASE Try
  BY <1>6, TryKeeps
<1>7. CASE Stuck
  BY <1>7, StuckKeeps
<1>8. CASE UNCHANGED vars
  BY <1>8 DEF OracleInv, HistoryInv, Completed, GoodRows, SearchInv, DeepestInv, vars,
              WitnessIsLinearization, AccusationIsRight, DeepestIsLongest, witness
<1> QED BY <1>1, <1>2, <1>3, <1>4, <1>5, <1>6, <1>7, <1>8 DEF Next, SearchLoop

LEMMA OracleInvariant == Spec => []OracleInv
<1> USE OracleAssumption
<1>1. Init => OracleInv
  BY OracleInit
<1>2. OracleInv /\ [Next]_vars => OracleInv'
  BY OracleStep
<1> QED BY <1>1, <1>2, PTL DEF Spec

(***************************************************************************)
(* A positive verdict is right (linearizability.py, lines 118-124): the    *)
(* linearization that check reports places every operation examined, keeps *)
(* real time and explains every result.                                    *)
(***************************************************************************)
THEOREM PositiveVerdictIsRight == Spec => []WitnessIsLinearization
<1>1. OracleInv => WitnessIsLinearization
  BY DEF OracleInv
<1> QED BY <1>1, OracleInvariant, PTL

(***************************************************************************)
(* No history is accused wrongly (linearizability.py, lines 126-155): when *)
(* the stack runs empty no order of the operations is a linearization,     *)
(* although the search enters no pair of store and pending twice and       *)
(* considers the candidates of minimal only.                               *)
(***************************************************************************)
THEOREM NegativeVerdictIsRight == Spec => []AccusationIsRight
<1>1. OracleInv => AccusationIsRight
  BY DEF OracleInv
<1> QED BY <1>1, OracleInvariant, PTL

(***************************************************************************)
(* The progress in an accusation (linearizability.py, lines 151-155) is a  *)
(* linear order of some operations, and none places more.                  *)
(***************************************************************************)
THEOREM ProgressIsBest == Spec => []DeepestIsLongest
<1>1. OracleInv => DeepestIsLongest
  BY DEF OracleInv
<1> QED BY <1>1, OracleInvariant, PTL
=============================================================================
