------------------------------ MODULE MCShrink ------------------------------
(* Scenarios of three servers for the shrinker, and one of the random driver. *)
EXTENDS Shrink

NoFailure == [s \in Signature |-> Never]
\* Three flaps around a crash; overlapping windows; crashes that find the server down;
\* same-instant patterns; every server down; injections with nothing to do.
FlapsAndCrash == <<FlappingLink(0, 1, 0, 10, 3), CrashNode(2, 5, 40)>>
TwoWindows == <<PartitionHalves(0, 20), IsolateLeader(10, 20), LossyLink(0, 2, 10, 30)>>
CrashedAgain == <<CrashNode(1, 30, 10), CrashNode(1, 0, 20), CrashNode(1, 10, 30)>>
SameInstant == <<LossyLink(1, 2, 10, 10), LossyLink(1, 2, 0, 15), CrashNode(0, 10, 10)>>
AllAtOnce == <<CrashNode(0, 0, 50), CrashNode(1, 10, 50), CrashNode(2, 20, 50), LossyLink(0, 1, 30, 50)>>
NobodyLeads == <<IsolateLeader(0, 10), IsolateLeader(5, 10)>>

Crashed(i) == Impairment("crash", {i})
Down == Impairment("linkdown", {0, 1})
Lossy(a, b) == Impairment("lossy", {a, b})
Cut(side) == Impairment("partition", side)

Causes ==
    {Never, Strikes({}, {}), Strikes({Down}, {}), Strikes({Down, Crashed(2)}, {}),
     Strikes({Crashed(2)}, {Down}), Strikes({Crashed(1)}, {}), Strikes({Crashed(0)}, {}),
     Strikes({Crashed(0), Crashed(2)}, {}), Strikes({Crashed(0), Lossy(1, 2)}, {}),
     Strikes({Lossy(0, 2)}, {Cut({0, 1})}),
     Strikes({Cut({0}), Lossy(0, 2)}, {}), Strikes({Cut({0, 1})}, {})}

Schedules ==
    {FlapsAndCrash, AllAtOnce, TwoWindows, CrashedAgain, SameInstant} \X {0}
        \cup {<<NobodyLeads, None>>}

Shrinkable ==
    {[ops |-> schedule_leader[1], leader |-> schedule_leader[2], chaos |-> FALSE,
      fails |-> [s \in Signature |-> IF s = "invariant" THEN c ELSE d],
      steps |-> budget, target |-> wanted] :
        schedule_leader \in Schedules, c \in Causes, d \in Causes,
        budget \in {3, 12}, wanted \in {None, "invariant"}}

AtRandom ==
    {[ops |-> <<CrashNode(1, 150, 100)>>, leader |-> None, fails |-> NoFailure, steps |-> 4,
      target |-> None, chaos |-> TRUE]}

MCScenarios == Shrinkable \cup AtRandom
MCMasks == {{}, {0}, {1}}
=============================================================================
