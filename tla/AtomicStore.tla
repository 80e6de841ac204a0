---------------------------- MODULE AtomicStore ----------------------------
(***************************************************************************)
(* What the clients are promised: a single store that executes every       *)
(* request exactly once, at some point while the client waits for it, and  *)
(* tells the client its result.  Requests may be executed back to back in  *)
(* one step.  A read is not executed: it is told what the store held at    *)
(* some moment of the wait.                                                *)
(***************************************************************************)
EXTENDS SequentialStore, SequencesExt

CONSTANTS
    Caller,     \* the clients
    Nothing     \* what a client asks for when it is idle

VARIABLES
    store,
    asked,      \* the request each client waits for
    told,       \* the result of the last request of each client
    heard       \* what a client that waits for a read may be told

atomicvars == <<store, asked, told, heard>>

Init ==
    /\ store = EmptyStore
    /\ asked = [c \in Caller |-> Nothing]
    /\ told = [c \in Caller |-> Absent]
    /\ heard = [c \in Caller |-> {}]

IsRead(request) == request # Nothing /\ request.op = "get"

Ask(c) ==
    /\ asked[c] = Nothing
    /\ asked'[c] # Nothing
    /\ \A d \in Caller \ {c} : asked'[d] = asked[d] /\ heard'[d] = heard[d]
    /\ heard'[c] = IF IsRead(asked'[c]) THEN {Result(store, asked'[c])} ELSE {}
    /\ UNCHANGED <<store, told>>

\* The stores that come of executing the requests of some clients in turn.
Executed(callers) ==
    LET states[k \in 0..Len(callers)] ==
            IF k = 0 THEN store ELSE Effect(states[k - 1], asked[callers[k]])
    IN  states

\* The requests of these clients are executed in this order and answered.
Execute(callers) ==
    LET states == Executed(callers)
        done == Range(callers)
    IN  /\ \A c \in done : asked[c] # Nothing
        /\ store' = states[Len(callers)]
        /\ asked' = [c \in Caller |-> IF c \in done THEN Nothing ELSE asked[c]]
        /\ \A k \in 1..Len(callers) :
              told'[callers[k]] = Result(states[k - 1], asked[callers[k]])
        /\ \A c \in Caller \ done : told'[c] = told[c]
        /\ heard' = [c \in Caller |->
              IF IsRead(asked'[c])
              THEN heard[c] \cup {Result(states[k], asked[c]) : k \in DOMAIN states}
              ELSE {}]

\* The client is told what the store held at some moment of its wait.
Read(c) ==
    /\ IsRead(asked[c])
    /\ told'[c] \in heard[c]
    /\ \A d \in Caller \ {c} : told'[d] = told[d]
    /\ asked' = [asked EXCEPT ![c] = Nothing]
    /\ heard' = [heard EXCEPT ![c] = {}]
    /\ UNCHANGED store

Next ==
    \/ \E c \in Caller : Ask(c) \/ Read(c)
    \/ \E some \in (SUBSET Caller) \ {{}} : \E callers \in SetToSeqs(some) : Execute(callers)

Spec == Init /\ [][Next]_atomicvars
=============================================================================
