-------------------------- MODULE Linearizability --------------------------
(***************************************************************************)
(* The linearizability oracle.  The first part of a behaviour records a    *)
(* history, as cluster.py does while clients invoke operations and see     *)
(* them return; the second part is the loop of linearizability.check over  *)
(* that history, one iteration of its depth-first search to a step.        *)
(*                                                                         *)
(* A recorded result is arbitrary: the oracle exists to judge clusters     *)
(* that are wrong.                                                         *)
(***************************************************************************)
EXTENDS Integers, FiniteSets, SequencesExt, SequentialStore

CONSTANTS
    Clients,    \* how many clients there are
    Workload,   \* the commands a client may invoke
    MaxHistory, \* bound: rows of the history
    Limits,     \* the values of max_ops a caller may pass
    Budgets     \* the values of budget a caller may pass

VARIABLES
    steps,   \* simulator steps so far
    history, \* the rows recorded, in order of invocation
    ops,     \* the completed rows under examination, sorted
    budget,  \* how many states the search may explore
    stack,   \* the frames of the search, the deepest last
    memo,    \* the pairs (store, pending) the search has entered
    deepest, \* the longest path entered
    verdict

vars == <<steps, history, ops, budget, stack, memo, deepest, verdict>>
search == <<ops, budget, stack, memo, deepest, verdict>>

NotYet == 0

ASSUME OracleAssumption ==
    /\ Clients \in Nat
    /\ Workload \subseteq Command
    /\ MaxHistory \in Nat
    /\ Limits \subseteq Nat
    /\ Budgets \subseteq Nat

-----------------------------------------------------------------------------
(* What a cluster, right or wrong, may answer. *)
Answers(o) ==
    CASE o.op = "put" -> {"ok"}
      [] o.op = "get" -> {Absent} \cup {c.value : c \in {w \in Workload : w.op # "get"}}
      [] o.op = "cas" -> {"ok", "fail"}

-----------------------------------------------------------------------------
(* Recording: one simulator event is one step, so that no two rows are     *)
(* invoked in one step and none is invoked in a step in which another      *)
(* returns; one event may apply several commands.                          *)

HistoryEntry(command) ==
    [command |-> command, invoke_step |-> steps + 1,
     return_step |-> NotYet, observed |-> Absent]

Completed(row) == row.return_step # NotYet

Open == {i \in DOMAIN history : ~Completed(history[i])}

Recording == verdict = "recording"

Init ==
    /\ steps = 0
    /\ history = <<>>
    /\ ops = <<>>
    /\ budget = 0
    /\ stack = <<>>
    /\ memo = {}
    /\ deepest = <<>>
    /\ verdict = "recording"

(* An idle client's turn: it invokes its next operation.  A client has one *)
(* operation under way at most; which client it is matters to nobody.      *)
_invoke ==
    /\ Recording
    /\ Len(history) < MaxHistory
    /\ Cardinality(Open) < Clients
    /\ \E command \in Workload : history' = Append(history, HistoryEntry(command))
    /\ steps' = steps + 1
    /\ UNCHANGED search

(* One event in which a server is the first to apply the commands of the   *)
(* rows in returned, with the results observed.                            *)
_on_apply(returned) ==
    /\ Recording
    /\ \E observed \in [returned -> UNION {Answers(history[i].command) : i \in returned}] :
          /\ \A i \in returned : observed[i] \in Answers(history[i].command)
          /\ history' = [i \in DOMAIN history |->
                IF i \in returned
                THEN [history[i] EXCEPT !.return_step = steps + 1, !.observed = observed[i]]
                ELSE history[i]]
    /\ steps' = steps + 1
    /\ UNCHANGED search

-----------------------------------------------------------------------------
(* check *)

InvokedFirst(r, s) == r.invoke_step < s.invoke_step

(* The members of a set in an order that leaves no ties.                   *)
Sorted(S, before(_, _)) ==
    CHOOSE s \in [1..Cardinality(S) -> S] :
        \A j, k \in 1..Cardinality(S) : j < k => before(s[j], s[k])

(* Rows that never returned are dropped.  Steps of invocation differ, so   *)
(* the rest of the sort key never decides.                                 *)
CompletedOps ==
    LET done == {i \in DOMAIN history : Completed(history[i])}
        order == Sorted(done, LAMBDA i, j : InvokedFirst(history[i], history[j]))
    IN  [k \in DOMAIN order |-> history[order[k]]]

Frame(store, pending, path) ==
    [store |-> store, pending |-> pending, next |-> 1, path |-> path]

(* The preamble of check: what it examines, and the root of the search. *)
check(max_ops, b) ==
    LET n == IF Len(CompletedOps) < max_ops THEN Len(CompletedOps) ELSE max_ops
    IN  /\ Recording
        /\ ops' = SubSeq(CompletedOps, 1, n)
        /\ budget' = b
        /\ stack' = <<Frame(EmptyStore, 1..n, <<>>)>>
        /\ verdict' = IF n = 0 THEN "linearizable" ELSE "searching"
        /\ UNCHANGED <<steps, history, memo, deepest>>

(* A plausible bug: real time is forgotten. *)
AnyPending(pending) == Sorted(pending, <)

(* The pending operations that no other pending one must precede, in the   *)
(* order in which they are tried.                                          *)
minimal(pending) ==
    Sorted({p \in pending :
               \A q \in pending \ {p} : ops[p].invoke_step <= ops[q].return_step}, <)

(* A plausible bug: what was placed is remembered, its effect forgotten. *)
PendingOnlyKey(store, pending) == <<pending>>

MemoKey(store, pending) == <<store, pending>>

(* The loop is at a frame with an operation to try. *)
Trying(frame) == frame.pending # {} /\ frame.next <= Len(minimal(frame.pending))

(* A plausible bug: the latest path is kept instead of the longest. *)
LatestPath(frame) == frame.path

(* The first visit to a frame keeps the path that leads to it if it is     *)
(* longer than any before.                                                 *)
Deeper(frame) == IF Len(frame.path) > Len(deepest) THEN frame.path ELSE deepest

(* A plausible bug: the frame forgets that it tried its candidate. *)
SameCandidate(frame) == frame

NextCandidate(frame) == [frame EXCEPT !.next = @ + 1]

(* Every operation is placed. *)
Found ==
    /\ verdict = "searching"
    /\ stack # <<>>
    /\ Last(stack).pending = {}
    /\ verdict' = "linearizable"
    /\ UNCHANGED <<steps, history, ops, budget, stack, memo, deepest>>

(* No candidate of the frame is left. *)
Backtrack ==
    /\ verdict = "searching"
    /\ stack # <<>>
    /\ Last(stack).pending # {}
    /\ ~Trying(Last(stack))
    /\ stack' = Front(stack)
    /\ UNCHANGED <<steps, history, ops, budget, memo, deepest, verdict>>

(* The next candidate is tried: it is passed over if its result is not     *)
(* the one observed or if what remains was searched before; otherwise the  *)
(* search goes on from there, as long as the budget lasts.                 *)
Try ==
    /\ verdict = "searching"
    /\ stack # <<>>
    /\ Trying(Last(stack))
    /\ LET frame == Last(stack)
           i == minimal(frame.pending)[frame.next]
           store == Effect(frame.store, ops[i].command)
           pending == frame.pending \ {i}
           key == MemoKey(store, pending)
           here == Append(Front(stack), NextCandidate(frame))
       IN  /\ deepest' = Deeper(frame)
           /\ IF \/ Result(frame.store, ops[i].command) # ops[i].observed
                 \/ key \in memo
              THEN stack' = here /\ UNCHANGED <<memo, verdict>>
              ELSE /\ memo' = memo \cup {key}
                   /\ IF Cardinality(memo') > budget
                      THEN stack' = here /\ verdict' = "undetermined"
                      ELSE /\ stack' = Append(here,
                                  Frame(store, pending, Append(frame.path, i)))
                           /\ UNCHANGED verdict
    /\ UNCHANGED <<steps, history, ops, budget>>

(* Every branch is exhausted. *)
Stuck ==
    /\ verdict = "searching"
    /\ stack = <<>>
    /\ verdict' = "not linearizable"
    /\ UNCHANGED <<steps, history, ops, budget, stack, memo, deepest>>

SearchLoop == Found \/ Backtrack \/ Try \/ Stuck

Next ==
    \/ _invoke
    \/ \E returned \in SUBSET Open \ {{}} : _on_apply(returned)
    \/ \E max_ops \in Limits, b \in Budgets : check(max_ops, b)
    \/ SearchLoop

(* check is a plain loop in one thread: once called it runs on. *)
Spec == Init /\ [][Next]_vars /\ WF_vars(SearchLoop)

(* The linearization that check reports with a positive verdict.           *)
witness == IF ops = <<>> THEN <<>> ELSE Last(stack).path

-----------------------------------------------------------------------------
(***************************************************************************)
(* Linearizability by definition (the module comment of the oracle, (a)    *)
(* and (b)): an order of the operations of rows, of which order holds the  *)
(* first ones, is linear if nothing precedes an operation that returned    *)
(* before it was invoked and replaying it gives every result observed.     *)
(***************************************************************************)
RespectsRealTime(rows, order) ==
    \A i \in DOMAIN order :
        \A later \in DOMAIN rows \ {order[j] : j \in 1..i} :
            rows[later].return_step >= rows[order[i]].invoke_step

(* The stores that the operations leave one after the other, from start on. *)
Replayed(rows, start, order) ==
    LET store[k \in 0..Len(order)] ==
            IF k = 0 THEN start ELSE Effect(store[k - 1], rows[order[k]].command)
    IN  store

ExplainsResults(rows, order) ==
    \A i \in DOMAIN order :
        Result(Replayed(rows, EmptyStore, order)[i - 1], rows[order[i]].command)
            = rows[order[i]].observed

IsLinear(rows, order) == RespectsRealTime(rows, order) /\ ExplainsResults(rows, order)

Linearizable(rows) == \E order \in SetToSeqs(DOMAIN rows) : IsLinear(rows, order)

(* What check says is so: a linearization it reports places every          *)
(* operation, respects real time and explains every result (lines 121-124). *)
WitnessIsLinearization ==
    verdict = "linearizable" =>
        /\ witness \in SetToSeqs(DOMAIN ops)
        /\ IsLinear(ops, witness)

(* And no history is accused wrongly: dead ends and what the memo prunes   *)
(* hide no linearization of the operations examined (lines 138-155).       *)
AccusationIsRight ==
    verdict = "not linearizable" => ~Linearizable(ops)

(* The progress that an accusation reports (line 154) is the best there    *)
(* is: no attempt can place more operations.                               *)
DeepestIsLongest ==
    verdict = "not linearizable" =>
        /\ IsLinear(ops, deepest)
        /\ \A order \in SetToAllKPermutations(DOMAIN ops) :
              IsLinear(ops, order) => Len(order) <= Len(deepest)

(* The loop ends for every history, limit and budget (lines 118-147).      *)
CheckTerminates == verdict = "searching" ~> verdict \notin {"recording", "searching"}

=============================================================================
