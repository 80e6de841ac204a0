------------------------------- MODULE Shrink -------------------------------
(***************************************************************************)
(* The schedule shrinker of raftverified/shrink.py, over the simulated     *)
(* runs of Faults.  Each candidate is a fresh run with some fault ordinals *)
(* suppressed: the shrinker waits until the run is over, classifies it,    *)
(* and decides which run to start next.                                    *)
(*                                                                         *)
(* What makes a run fail is part of the scenario: for each of the two      *)
(* kinds of failure, the impairments that must be there at once for it to  *)
(* strike, and those that prevent it once they have been there.  So more   *)
(* faults may well mean no failure, or another one.                        *)
(***************************************************************************)
EXTENDS Faults

CONSTANTS
    Scenarios,      \* fault schedules with what makes them fail, and step budgets
    Masks           \* the suppression masks with which runs are started by hand

\* failure_signature: an invariant stops the run, the history is judged at its end.
Signature == {"invariant", "nonlinearizable"}

\* What a nemesis pattern accepts (_check_window and __post_init__, nemesis.py).
IsPattern(op) ==
    /\ op.at \in Nat /\ op.duration \in Nat \ {0}
    /\ op.pattern \in {"partition_halves", "isolate_leader", "flapping_link", "lossy_link",
                       "crash_node"}
    /\ op.pattern = "flapping_link" => op.cycles \in Nat \ {0}

Never == [needs |-> {}, spoilt |-> {}, strikes |-> FALSE]
Strikes(needs, spoilt) == [needs |-> needs, spoilt |-> spoilt, strikes |-> TRUE]

(***************************************************************************)
(* A run of the random driver is there for its faults: what it draws is    *)
(* open here, not replayed from a seed, and so it is not shrunk.           *)
(***************************************************************************)
ASSUME ShrinkAssumption ==
    /\ None \notin Signature
    /\ \A c \in Scenarios :
          /\ DOMAIN c.ops = 1..Len(c.ops) /\ Len(c.ops) \in Nat
          /\ \A k \in DOMAIN c.ops : IsPattern(c.ops[k])
          /\ c.chaos \in BOOLEAN /\ c.steps \in Nat /\ c.target \in Signature \cup {None}
          /\ \A s \in Signature : c.fails[s].strikes \in BOOLEAN
          /\ c.chaos => \A s \in Signature : ~c.fails[s].strikes

Impairment(kind, who) == [kind |-> kind, who |-> who]
Impairments(run) ==
    {Impairment("crash", {i}) : i \in run.crashed}
        \cup {Impairment("linkdown", link) : link \in run.down_links}
        \cup {Impairment("lossy", link) : link \in run.lossy_links}
        \cup (IF is_partitioned(run)
              THEN {Impairment("partition", {i \in Node : run._group[i] = 0})} ELSE {})

VARIABLES
    scenario,       \* what is being shrunk
    run,            \* the run in progress
    seen,           \* the impairments that were there at some step of it
    failed_at,      \* the step at which each failure struck, 0 if it did not
    steps,          \* its step budget
    phase,          \* what the run is for, and "done" or "none" when shrink returned
    target, universe, kept, n, sub,     \* ddmin
    lo, hi,                             \* _min_steps
    rejected        \* the sets of ordinals that were found not to reproduce

vars == <<scenario, run, seen, failed_at, steps, phase, target, universe, kept, n, sub,
          lo, hi, rejected>>
ddminVars == <<universe, kept, n, sub>>

---------------------------------------------------------------------------
(* One run, and its verdict. *)

Fresh(suppressed, budget) ==
    /\ run' = Start(scenario.ops, scenario.chaos, suppressed)
    /\ seen' = {}
    /\ failed_at' = [s \in Signature |-> 0]
    /\ steps' = budget

Over == run._heap = {} \/ run.steps = steps \/ failed_at["invariant"] # 0

failure_signature ==
    IF failed_at["invariant"] # 0 THEN "invariant"
    ELSE IF failed_at["nonlinearizable"] # 0 THEN "nonlinearizable" ELSE None
Same == failure_signature = target

\* Cluster.run: one more event, and the checker's verdict on the state it leaves.
Step ==
    /\ ~Over /\ phase \notin {"done", "none"}
    /\ run' \in Stepped(run, scenario.leader)
    /\ seen' = seen \cup Impairments(run')
    /\ failed_at' = [s \in Signature |->
           LET cause == scenario.fails[s]
           IN  IF /\ failed_at[s] = 0 /\ cause.strikes
                  /\ cause.needs \subseteq Impairments(run')
                  /\ cause.spoilt \cap seen' = {}
               THEN run'.steps ELSE failed_at[s]]
    /\ UNCHANGED <<scenario, steps, phase, target, ddminVars, lo, hi, rejected>>

---------------------------------------------------------------------------
(* shrink, ddmin and _min_steps: from one verdict to the next run. *)

FirstBudgetBug == 2                 \* bug: never tries a single step
FirstBudget == 1

Suppressed(ordinals) == universe \ ordinals

\* The budget that is searched next, with the faults that are kept, or the final run.
Budget(low, high, ordinals) ==
    /\ lo' = low /\ hi' = high
    /\ phase' = IF low < high THEN "min_steps" ELSE "report"
    /\ Fresh(Suppressed(ordinals), IF low < high THEN (low + high) \div 2 ELSE low)

MinimalFaults(ordinals) ==
    /\ kept' = ordinals
    /\ Budget(FirstBudget, scenario.steps, ordinals)
    /\ UNCHANGED <<n, sub>>

\* `kept' is always in ascending order, so that an element's position is its rank.
Rank(e, elements) == Cardinality({f \in elements : f < e})
Chunk(size, parts) == IF size \div parts = 0 THEN 1 ELSE size \div parts
Complement(elements, parts, k) ==
    {e \in elements : Rank(e, elements) \div Chunk(Cardinality(elements), parts) # k}
Subsets(elements, parts) ==
    LET size == Cardinality(elements)
        chunk == Chunk(size, parts)
    IN  (size + chunk - 1) \div chunk

\* ddmin goes on with these elements in this many parts.
TryComplement(elements, parts, k) ==
    /\ kept' = elements /\ n' = parts /\ sub' = k
    /\ phase' = "ddmin"
    /\ Fresh(Suppressed(Complement(elements, parts, k)), scenario.steps)
    /\ UNCHANGED <<lo, hi>>

ExhaustedBug(parts, size) == 2 * parts >= size        \* bug: one division too few
Exhausted(parts, size) == parts >= size
FinerBug(parts, size) == IF parts < size THEN parts ELSE size      \* bug: divides no further
Finer(parts, size) == IF 2 * parts < size THEN 2 * parts ELSE size
CoarserBug(parts) == parts - 1          \* bug: a division into one part
Coarser(parts) == IF parts > 2 THEN parts - 1 ELSE 2

Rejected(ordinals) == rejected' = IF Same THEN rejected ELSE rejected \cup {ordinals}

\* The original run: nothing to shrink, or the faults it reached are the universe.
Original ==
    /\ phase = "original" /\ Over
    /\ IF failure_signature = None \/ (target # None /\ ~Same)
       THEN /\ phase' = "none"
            /\ UNCHANGED <<run, seen, failed_at, steps, target, ddminVars, lo, hi>>
       ELSE /\ target' = failure_signature
            /\ universe' = 0..(run._fault_seq - 1)
            /\ IF universe' = {}
               THEN /\ kept' = {}
                    /\ Budget(FirstBudget, scenario.steps, {})
               ELSE /\ kept' = universe'
                    /\ phase' = "nothing"
                    /\ Fresh(universe', scenario.steps)
                    /\ UNCHANGED <<lo, hi>>
            /\ UNCHANGED <<n, sub>>
    /\ UNCHANGED <<scenario, rejected>>

\* ddmin first asks whether any fault is needed at all.
Nothing ==
    /\ phase = "nothing" /\ Over
    /\ Rejected({})
    /\ CASE Same                            -> MinimalFaults({})
         [] ~Same /\ Cardinality(kept) < 2  -> MinimalFaults(kept)
         [] ~Same /\ Cardinality(kept) >= 2 -> TryComplement(kept, 2, 0)
    /\ UNCHANGED <<scenario, target, universe>>

Ddmin ==
    /\ phase = "ddmin" /\ Over
    /\ LET complement == Complement(kept, n, sub)
       IN  /\ Rejected(complement)
           /\ CASE Same /\ Cardinality(complement) < 2  -> MinimalFaults(complement)
                [] Same /\ Cardinality(complement) >= 2 -> TryComplement(complement, Coarser(n), 0)
                [] ~Same /\ sub + 1 < Subsets(kept, n)  -> TryComplement(kept, n, sub + 1)
                [] ~Same /\ sub + 1 = Subsets(kept, n)  ->
                      IF Exhausted(n, Cardinality(kept)) THEN MinimalFaults(kept)
                      ELSE TryComplement(kept, Finer(n, Cardinality(kept)), 0)
    /\ UNCHANGED <<scenario, target, universe>>

NarrowedBug(reproduces) ==          \* bug: gives up the budget that reproduced
    IF reproduces THEN <<lo, (lo + hi) \div 2 - 1>> ELSE <<(lo + hi) \div 2 + 1, hi>>
Narrowed(reproduces) ==
    IF reproduces THEN <<lo, (lo + hi) \div 2>> ELSE <<(lo + hi) \div 2 + 1, hi>>

_min_steps ==
    /\ phase = "min_steps" /\ Over
    /\ LET range == Narrowed(Same) IN Budget(range[1], range[2], kept)
    /\ UNCHANGED <<scenario, target, ddminVars, rejected>>

\* The minimal run is over, and its counterexample is returned.
Report ==
    /\ phase = "report" /\ Over
    /\ phase' = "done"
    /\ UNCHANGED <<scenario, run, seen, failed_at, steps, target, ddminVars, lo, hi, rejected>>

Init ==
    /\ scenario \in Scenarios
    /\ run \in {Start(scenario.ops, scenario.chaos, mask) :
                   mask \in IF scenario.chaos THEN Masks ELSE {{}}}
    /\ seen = {} /\ failed_at = [s \in Signature |-> 0]
    /\ steps = scenario.steps
    /\ phase = "original" /\ target = scenario.target
    /\ universe = {} /\ kept = {} /\ n = 2 /\ sub = 0 /\ lo = 0 /\ hi = 0
    /\ rejected = {}

Next == Step \/ Original \/ Nothing \/ Ddmin \/ _min_steps \/ Report

Spec == Init /\ [][Next]_vars
FairSpec == Spec /\ WF_vars(Next)

---------------------------------------------------------------------------
(* Properties. *)

(***************************************************************************)
(* Type invariant of the shrinker: search ranges, divisions and parts stay *)
(* within what they index.                                                 *)
(***************************************************************************)
TypeOK ==
    /\ run._fault_seq \in Nat /\ run.steps \in 0..steps
    /\ kept \subseteq universe
    /\ phase = "ddmin" => /\ n \in 2..Cardinality(kept) /\ sub \in 0..(Subsets(kept, n) - 1)
    /\ phase \in {"min_steps", "report"} => 1 <= lo /\ lo <= hi /\ hi <= scenario.steps

\* Every fault of every run ends (Faults!FaultsEnd).
EveryFaultEnds == FaultsEnd(run)
\* Suppressing a fault suppresses its recovery (Faults!SuppressedLeaveNoTrace).
NoOrphanRecovery == SuppressedLeaveNoTrace(run)
\* Injections keep the schedule's order (Faults!InDeclaredOrder).
DeclaredOrder == InDeclaredOrder(run)

(***************************************************************************)
(* What shrink returns still fails, and fails the way the original did     *)
(* ("that still reproduce the SAME failure", shrink.py).  The reduced run  *)
(* was never made in this form before: the faults were minimised with one  *)
(* budget, and the budget with one set of faults.                          *)
(***************************************************************************)
ResultReproduces == phase = "done" => Same

(***************************************************************************)
(* The faults that are kept are 1-minimal: with any one of them suppressed *)
(* as well, a run was made that did not fail this way (ddmin, "removing    *)
(* any single remaining element would stop reproducing").                  *)
(***************************************************************************)
OneMinimal ==
    phase = "done" => \A e \in kept : kept \ {e} \in rejected

(***************************************************************************)
(* The budget that is reported is the earliest: the failure strikes in the *)
(* last step it allows (_min_steps, "the earliest step budget").  The      *)
(* binary search is right only if a failure, once it has struck, is there  *)
(* for every larger budget, which another failure may prevent.             *)
(***************************************************************************)
EarliestStep == phase = "done" => failed_at[target] = lo

\* The shrinker always answers (shrink, ddmin, _min_steps).
ShrinkTerminates == <>(phase \in {"none", "done"})
=============================================================================
