---------------------------- MODULE RaftLiveness ----------------------------
(***************************************************************************)
(* A Raft cluster whose event loop is fair: Simulator.step always takes    *)
(* the earliest event, every armed timer is in the queue, and each client  *)
(* tick schedules the next one, so what stays possible happens.  Of the    *)
(* messages from one server to another, some are lost, but never all that  *)
(* would still make a difference.                                          *)
(***************************************************************************)
EXTENDS RaftCluster

Fairness ==
    /\ \A i, j \in Node : WF_vars(\E m \in msgs : m.src = i /\ m.dst = j /\ Deliver(m))
    /\ \A i \in Node :
        /\ WF_vars(_on_election_timeout(i))
        /\ WF_vars(_on_heartbeat(i))
        /\ WF_vars(Resume(i))
        /\ \A c \in Client : WF_vars(_client_tick(c, i))

FairSpec == Spec /\ Fairness

(***************************************************************************)
(* Progress: when from some time on one server leads and no server         *)
(* crashes, every request of the clients is answered, because they retry   *)
(* it at that leader (tests/test_liveness.py, "under benign fault profiles *)
(* the cluster makes progress" and "progress resumes after leader crash";  *)
(* Cluster._client_tick, RaftNode.client_command and _advance_commit).     *)
(***************************************************************************)
Answered == \A request \in Requests : next_req[request[1]] > request[2]
Progress == \A i \in Node : <>[]Leads(i) => <>Answered
=============================================================================
