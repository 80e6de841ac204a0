------------------------------ MODULE MCChecker ------------------------------
(* Three servers, and what their logs may hold. *)
EXTENDS InvariantChecker

E(term, command) == [term |-> term, command |-> command]
MCEntry == {E(1, "a"), E(2, "b")}
\* Server 1 commits on its own; each other believes that it must agree with
\* those before it.
MCVoters == <<{1}, {1, 2}, {1, 2, 3}>>

\* Server 3 may only lead term 1, with an empty log, while the others commit in
\* two terms; their logs change, one of them often enough to be compacted twice,
\* and it may crash.
MCMaxTerm == <<2, 2, 1>>
MCMaxVersion == <<3, 2, 0>>
MCMaxIncarnation == <<1, 0, 0>>
=============================================================================
