----------------------------- MODULE MCLiveness -----------------------------
(***************************************************************************)
(* RaftLiveness after the crash of a leader: in term 1 n1 led, took a      *)
(* request of each client into its log, sent them to n2 and n3, and        *)
(* crashed before a reply arrived.  Messages of the term are lost; n1 may  *)
(* restart, and n2 campaign.  Without a view, since runs have no end.      *)
(***************************************************************************)
EXTENDS RaftLiveness

CONSTANTS n1, n2, n3, c1, c2

SecondTerm == {<<n2, 2>>}
OneEach == {<<c, 0>> : c \in Client}
AllLinks == Node \X Node

LeftBehind == <<[term |-> 1, command |-> ClientCommand(c1, 0)],
                [term |-> 1, command |-> ClientCommand(c2, 0)]>>
Follower == [InitNode EXCEPT !.term = 1, !.voted_for = n1, !.log = LeftBehind]

AfterCrash ==
    /\ node = [i \in Node |-> IF i = n1 THEN pause(Follower) ELSE Follower]
    /\ msgs = {}
    /\ next_req = [c \in Client |-> 0]
    /\ leaders = {<<1, n1>>}
    /\ committed = <<>>
    /\ read_floor = [i \in Node |-> <<>>]

CrashedSpec == AfterCrash /\ [][Next]_vars /\ Fairness
=============================================================================
