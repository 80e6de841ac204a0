-------------------------- MODULE MCLateSnapshot --------------------------
(***************************************************************************)
(* RaftCluster from the middle of a run, because the interesting case lies *)
(* too deep to be searched for from the start.  In term 1 n2 led, and the  *)
(* first three requests of c1 were committed: n1 has them in its log and   *)
(* has not heard that they are committed, n2 and n3 have compacted them.   *)
(* All messages of the term are lost.  Any run may begin like this: n2 is  *)
(* elected by n3, sends each request to both, commits when n3 acknowledges *)
(* the third, and tells n3.                                                *)
(***************************************************************************)
EXTENDS MCCluster

SecondTerm == {<<n1, 2>>}
FiveRequests == {<<c1, r>> : r \in 0..4}

FirstThree == [k \in 1..3 |-> [term |-> 1, command |-> ClientCommand(c1, k - 1)]]
Compacted == [last_index |-> 3, last_term |-> 1, image |-> FirstThree, voters |-> Node]

Voted == [InitNode EXCEPT !.term = 1, !.voted_for = n2]
Behind == [Voted EXCEPT !.log = FirstThree]
Follower ==
    [Voted EXCEPT !.snapshot = Compacted, !.commit_index = 3, !.machine = FirstThree,
                  !.config_index = 3]
Leader ==
    [Follower EXCEPT !.role = "leader", !.timer = "heartbeat", !.votes = {n2, n3},
                     !.next_index = [p \in Node |-> IF p = n3 THEN 4 ELSE 1],
                     !.match_index = [p \in Node |-> IF p = n1 THEN 0 ELSE 3],
                     !.client_index = [c \in Client |-> 2], !.committed_this_term = TRUE]

AfterFirstTerm ==
    /\ node = [i \in Node |-> CASE i = n1 -> Behind [] i = n2 -> Leader [] i = n3 -> Follower]
    /\ msgs = {}
    /\ next_req = [c \in Client |-> 3]
    /\ leaders = {<<1, n2>>}
    /\ committed = [k \in 1..3 |-> [entry |-> FirstThree[k], term |-> 1]]
    /\ read_floor = [i \in Node |-> <<>>]

LateSpec == AfterFirstTerm /\ [][Next]_vars
===========================================================================
