----------------------------- MODULE RaftHistory -----------------------------
(***************************************************************************)
(* RaftCluster with a record of what every leader's log was, as long as it *)
(* ever got in its term.  The record is written and never read: no step    *)
(* depends on it.  It is the history that RaftInvariants speaks of.        *)
(***************************************************************************)
EXTENDS RaftInvariants

VARIABLE term_log    \* for every term led so far, the log of its leader

HistoryInit == Init /\ term_log = <<>>

LeadsTerm(n, t) == n.role = "leader" /\ n.term = t
Remember ==
    term_log' = [t \in LedTerms' |->
        IF \E i \in Node : LeadsTerm(node'[i], t)
        THEN node'[CHOOSE i \in Node : LeadsTerm(node'[i], t)].log
        ELSE term_log[t]]

HistoryNext == Next /\ Remember
HistorySpec == HistoryInit /\ [][HistoryNext]_<<vars, term_log>>

---------------------------------------------------------------------------
(***************************************************************************)
(* Every role is earned and every vote binds: granted votes are pledged, a *)
(* candidate holds only votes that it was granted, whoever leads or was    *)
(* seen leading is pledged to itself, and whoever is up waits for what its *)
(* role makes it wait for (RaftNode.start_election, _on_request_vote,      *)
(* _on_vote_reply).  TimerMatchesRole alone is not inductive.              *)
(***************************************************************************)
RolesAreEarned == VoteInv /\ TimerInv

(***************************************************************************)
(* Every log, every AppendEntries and every vote request is made of what   *)
(* the leaders of its terms appended, each on top of its own log, and no   *)
(* log has a request twice (_on_append_entries, client_command).  This,    *)
(* with the next two properties, is inductive; LogMatching is not.         *)
(***************************************************************************)
LogsAreLeaders == LogInv(term_log) /\ RequestInv(term_log)

(***************************************************************************)
(* An acknowledgement binds: what a server told a leader it holds, it      *)
(* still holds or has dropped for a later leader, and nobody is elected    *)
(* without what a majority acknowledged before, because voters refuse a    *)
(* candidate that lacks it (_on_append_reply, _on_request_vote).           *)
(***************************************************************************)
AcksBindLeaders == AckInv(term_log)

(***************************************************************************)
(* Whatever is committed, applied or announced as committed is on a        *)
(* majority in the log of the leader that committed it, and in the log of  *)
(* every later leader (_advance_commit, _on_append_entries).               *)
(***************************************************************************)
CommitsAreSettled == CommitInv(term_log)

(***************************************************************************)
(* Whatever read a leader has under way waits for all that was committed   *)
(* when it began, or can never be confirmed, because a majority that       *)
(* elected a later leader refuses: a leader takes no read before it has    *)
(* committed an entry of its own term, and drops them all when it loses    *)
(* its office (request_read, _become_follower).                            *)
(***************************************************************************)
ReadsAreSound == ReadInv(term_log)
=============================================================================
