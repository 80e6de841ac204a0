--------------------------- MODULE ReplicatedLog ---------------------------
(***************************************************************************)
(* What the Raft servers together promise to the state machines above them *)
(* and to nobody else: one sequence of agreed commands that only grows,    *)
(* and servers that each consume a prefix of it, forward only, going back  *)
(* to what they saved when they crash, and never further.                  *)
(***************************************************************************)
EXTENDS Integers, Sequences

CONSTANTS
    Server,     \* the replicas
    Commands    \* what may be agreed on

VARIABLES
    agreed,     \* the sequence agreed on so far
    consumed,   \* what each replica has fed to its state machine
    saved       \* what each replica would start from after a crash

absvars == <<agreed, consumed, saved>>

Prefix(k) == SubSeq(agreed, 1, k)

Init ==
    /\ agreed = <<>>
    /\ consumed = [i \in Server |-> <<>>]
    /\ saved = [i \in Server |-> <<>>]

\* The replica may save what it has consumed by the end of the step.
MaySave(i) ==
    \/ saved' = saved
    \/ saved' = [saved EXCEPT ![i] = consumed'[i]]

\* Replica i is the first to consume some commands, on top of all others.
Agree(i) ==
    /\ agreed' \in Seq(Commands)
    /\ Len(agreed') > Len(agreed)
    /\ SubSeq(agreed', 1, Len(agreed)) = agreed
    /\ consumed' = [consumed EXCEPT ![i] = agreed']
    /\ MaySave(i)

\* Replica i consumes commands that others consumed before.
CatchUp(i) ==
    \E k \in Len(consumed[i])..Len(agreed) :
        /\ consumed' = [consumed EXCEPT ![i] = Prefix(k)]
        /\ MaySave(i)
        /\ UNCHANGED agreed

\* Replica i crashes: its state machine is that of its last save.
Crash(i) ==
    /\ consumed' = [consumed EXCEPT ![i] = saved[i]]
    /\ UNCHANGED <<agreed, saved>>

Next == \E i \in Server : Agree(i) \/ CatchUp(i) \/ Crash(i)

Spec == Init /\ [][Next]_absvars

---------------------------------------------------------------------------
(***************************************************************************)
(* Every replica has consumed, and has saved, a prefix of what was agreed; *)
(* what it saved is no more than what it consumed.                         *)
(***************************************************************************)
IsPrefix(s) == \E k \in 0..Len(agreed) : s = Prefix(k)
OnePrefixEach ==
    \A i \in Server :
        /\ IsPrefix(consumed[i])
        /\ IsPrefix(saved[i])
        /\ Len(saved[i]) <= Len(consumed[i])
=============================================================================
