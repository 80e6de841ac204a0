------------------------------ MODULE MCHistory ------------------------------
(***************************************************************************)
(* The inductive invariants on small clusters.                             *)
(***************************************************************************)
EXTENDS MCCluster, RaftHistory

HistoryView == <<LiveView, term_log>>
HistoryViewNoRepeats == <<LiveViewNoRepeats, term_log>>
=============================================================================
