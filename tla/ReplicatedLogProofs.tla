------------------------- MODULE ReplicatedLogProofs -------------------------
(***************************************************************************)
(* Theorems about the abstract specification of the cluster: the state     *)
(* machines that follow the log stay prefixes of one sequence.             *)
(***************************************************************************)
EXTENDS ReplicatedLog, TLAPS

Histories == Seq(Commands)

TypeOK ==
    /\ agreed \in Histories
    /\ consumed \in [Server -> Histories]
    /\ saved \in [Server -> Histories]

IInv == TypeOK /\ OnePrefixEach

\* What s takes from the first k elements of a sequence it takes from the sequence.
LEMMA PrefixOfPrefix ==
    ASSUME NEW s \in Histories, NEW k \in 0..Len(s), NEW l \in 0..k
    PROVE  /\ SubSeq(s, 1, l) \in Histories
           /\ Len(SubSeq(s, 1, l)) = l
           /\ SubSeq(SubSeq(s, 1, k), 1, l) = SubSeq(s, 1, l)
<1>1. \A j \in 0..Len(s) : /\ SubSeq(s, 1, j) \in Histories
                           /\ Len(SubSeq(s, 1, j)) = j
                           /\ \A x \in 1..j : SubSeq(s, 1, j)[x] = s[x]
    BY DEF Histories
<1>2. l \in 0..Len(s) /\ l \in 0..Len(SubSeq(s, 1, k))
    BY <1>1
<1> DEFINE u == SubSeq(SubSeq(s, 1, k), 1, l)
<1>3. u \in Histories /\ Len(u) = l /\ \A x \in 1..l : u[x] = SubSeq(s, 1, k)[x]
    BY <1>1, <1>2 DEF Histories
<1>4. \A x \in 1..l : u[x] = SubSeq(s, 1, l)[x]
    BY <1>1, <1>2, <1>3
<1>5. u = SubSeq(s, 1, l)
    BY <1>1, <1>2, <1>3, <1>4 DEF Histories
<1>q. QED BY <1>1, <1>2, <1>5

\* A sequence of agreed commands that grows keeps its prefixes.
LEMMA PrefixesStay ==
    ASSUME agreed \in Histories, agreed' \in Histories,
           Len(agreed) <= Len(agreed'), SubSeq(agreed', 1, Len(agreed)) = agreed,
           NEW s, IsPrefix(s)
    PROVE  \E k \in 0..Len(agreed') : s = SubSeq(agreed', 1, k)
<1>1. PICK k \in 0..Len(agreed) : s = SubSeq(agreed, 1, k)
    BY DEF IsPrefix, Prefix
<1>2. Len(agreed) \in 0..Len(agreed') /\ k \in 0..Len(agreed')
    BY DEF Histories
<1>3. s = SubSeq(agreed', 1, k)
    BY <1>1, <1>2, PrefixOfPrefix
<1>q. QED BY <1>2, <1>3

\* The whole sequence is a prefix of itself.
LEMMA WholeIsPrefix ==
    ASSUME NEW s \in Histories
    PROVE  SubSeq(s, 1, Len(s)) = s
BY DEF Histories

\* What a replica has after a step in which it moved to s and perhaps saved it.
LEMMA Moved ==
    ASSUME IInv, NEW i \in Server, NEW s \in Histories,
           agreed' \in Histories,
           Len(agreed) <= Len(agreed'), SubSeq(agreed', 1, Len(agreed)) = agreed,
           \E k \in 0..Len(agreed') : s = SubSeq(agreed', 1, k),
           Len(consumed[i]) <= Len(s),
           consumed' = [consumed EXCEPT ![i] = s],
           MaySave(i)
    PROVE  IInv'
<1> USE DEF IInv, TypeOK
<1>1. consumed' \in [Server -> Histories] /\ consumed'[i] = s
    OBVIOUS
<1>2. saved' \in [Server -> Histories]
    BY <1>1 DEF MaySave
<1>3. ASSUME NEW j \in Server
      PROVE  /\ \E k \in 0..Len(agreed') : consumed'[j] = SubSeq(agreed', 1, k)
             /\ \E k \in 0..Len(agreed') : saved'[j] = SubSeq(agreed', 1, k)
             /\ Len(saved'[j]) <= Len(consumed'[j])
    <2>1. IsPrefix(consumed[j]) /\ IsPrefix(saved[j]) /\ Len(saved[j]) <= Len(consumed[j])
        BY DEF OnePrefixEach
    <2>2. /\ \E k \in 0..Len(agreed') : consumed[j] = SubSeq(agreed', 1, k)
          /\ \E k \in 0..Len(agreed') : saved[j] = SubSeq(agreed', 1, k)
        BY <2>1, PrefixesStay
    <2>3. Len(consumed[j]) \in Nat /\ Len(saved[j]) \in Nat /\ Len(s) \in Nat
        BY DEF Histories
    <2>4. \/ consumed'[j] = consumed[j] /\ saved'[j] = saved[j]
          \/ consumed'[j] = s /\ saved'[j] \in {s, saved[j]} /\ j = i
        BY <1>1 DEF MaySave
    <2>5. CASE consumed'[j] = consumed[j] /\ saved'[j] = saved[j]
        BY <2>1, <2>2, <2>5
    <2>6. CASE consumed'[j] = s /\ saved'[j] = s /\ j = i
        BY <2>3, <2>6
    <2>7. CASE consumed'[j] = s /\ saved'[j] = saved[j] /\ j = i
        BY <2>1, <2>2, <2>3, <2>7
    <2>q. QED BY <2>4, <2>5, <2>6, <2>7
<1>4. OnePrefixEach'
    BY <1>3 DEF OnePrefixEach, IsPrefix, Prefix
<1>q. QED BY <1>1, <1>2, <1>4

(***************************************************************************)
(* In every replicated log, of any number of replicas and any commands,    *)
(* each replica has consumed and saved a prefix of the one sequence agreed *)
(* on, and saved no more than it consumed.  A Raft cluster shares this as  *)
(* far as it implements the log (RaftImplementsLog).                       *)
(***************************************************************************)
THEOREM ReplicasFollowOneLog == Spec => []OnePrefixEach
<1>1. Init => IInv
    BY DEF Init, IInv, TypeOK, Histories, OnePrefixEach, IsPrefix, Prefix
<1>2. IInv /\ [Next]_absvars => IInv'
    <2> SUFFICES ASSUME IInv, [Next]_absvars PROVE IInv'
        OBVIOUS
    <2>1. ASSUME NEW i \in Server, Agree(i) PROVE IInv'
        <3>1. agreed' \in Histories /\ SubSeq(agreed', 1, Len(agreed')) = agreed'
            BY <2>1, WholeIsPrefix DEF Agree, Histories
        <3>2. Len(agreed) \in Nat /\ Len(agreed') \in Nat /\ Len(consumed[i]) <= Len(agreed)
            <4>1. PICK k \in 0..Len(agreed) : consumed[i] = SubSeq(agreed, 1, k)
                BY DEF IInv, OnePrefixEach, IsPrefix, Prefix
            <4>q. QED BY <3>1, <4>1, PrefixOfPrefix DEF IInv, TypeOK, Histories
        <3>3. /\ \E k \in 0..Len(agreed') : agreed' = SubSeq(agreed', 1, k)
              /\ Len(agreed) <= Len(agreed') /\ Len(consumed[i]) <= Len(agreed')
              /\ SubSeq(agreed', 1, Len(agreed)) = agreed
            <4>1. Len(agreed') \in 0..Len(agreed') /\ Len(consumed[i]) \in Nat
                BY <3>2 DEF IInv, TypeOK, Histories
            <4>2. Len(agreed') > Len(agreed) /\ SubSeq(agreed', 1, Len(agreed)) = agreed
                BY <2>1 DEF Agree
            <4>3. \E k \in 0..Len(agreed') : agreed' = SubSeq(agreed', 1, k)
                BY <3>1, <4>1
            <4>4. Len(agreed) <= Len(agreed') /\ Len(consumed[i]) <= Len(agreed')
                BY <3>2, <4>1, <4>2
            <4>q. QED BY <4>2, <4>3, <4>4
        <3>4. consumed' = [consumed EXCEPT ![i] = agreed'] /\ MaySave(i)
            BY <2>1 DEF Agree
        <3>q. QED BY <3>1, <3>3, <3>4, Moved
    <2>2. ASSUME NEW i \in Server, CatchUp(i) PROVE IInv'
        <3>1. PICK k \in Len(consumed[i])..Len(agreed) :
                  /\ consumed' = [consumed EXCEPT ![i] = SubSeq(agreed, 1, k)]
                  /\ MaySave(i) /\ agreed' = agreed
            BY <2>2 DEF CatchUp, Prefix
        <3>2. k \in 0..Len(agreed) /\ Len(agreed) \in Nat
            BY DEF IInv, TypeOK, Histories
        <3>3. SubSeq(agreed, 1, k) \in Histories /\ Len(SubSeq(agreed, 1, k)) = k
            BY <3>2, PrefixOfPrefix DEF IInv, TypeOK
        <3>4. SubSeq(agreed, 1, Len(agreed)) = agreed
            BY WholeIsPrefix DEF IInv, TypeOK
        <3>5. agreed' \in Histories /\ Len(agreed) <= Len(agreed')
            BY <3>1, <3>2 DEF IInv, TypeOK
        <3>6. \E l \in 0..Len(agreed') : SubSeq(agreed, 1, k) = SubSeq(agreed', 1, l)
            BY <3>1, <3>2
        <3>7. Len(consumed[i]) <= Len(SubSeq(agreed, 1, k))
            BY <3>3 DEF IInv, TypeOK, Histories
        <3>q. QED BY <3>1, <3>3, <3>4, <3>5, <3>6, <3>7, Moved
    <2>3. ASSUME NEW i \in Server, Crash(i) PROVE IInv'
        <3>1. /\ agreed' = agreed /\ saved' = saved
              /\ consumed' \in [Server -> Histories]
              /\ \A j \in Server : consumed'[j] = consumed[j] \/ consumed'[j] = saved[j]
            BY <2>3 DEF Crash, IInv, TypeOK
        <3>2. \A j \in Server : Len(saved[j]) \in Nat
            BY DEF IInv, TypeOK, Histories
        <3>3. ASSUME NEW j \in Server
              PROVE  /\ \E k \in 0..Len(agreed') : consumed'[j] = SubSeq(agreed', 1, k)
                     /\ \E k \in 0..Len(agreed') : saved'[j] = SubSeq(agreed', 1, k)
                     /\ Len(saved'[j]) <= Len(consumed'[j])
            <4>1. IsPrefix(consumed[j]) /\ IsPrefix(saved[j]) /\ Len(saved[j]) <= Len(consumed[j])
                BY DEF IInv, OnePrefixEach
            <4>2. saved'[j] = saved[j] /\ consumed'[j] \in {consumed[j], saved[j]}
                BY <3>1
            <4>3. \A s : IsPrefix(s) => \E k \in 0..Len(agreed') : s = SubSeq(agreed', 1, k)
                BY <3>1 DEF IsPrefix, Prefix
            <4>4. Len(saved'[j]) <= Len(consumed'[j])
                BY <3>2, <4>1, <4>2
            <4>q. QED BY <4>1, <4>2, <4>3, <4>4
        <3>4. OnePrefixEach'
            BY <3>3 DEF OnePrefixEach, IsPrefix, Prefix
        <3>5. TypeOK'
            BY <3>1 DEF IInv, TypeOK
        <3>q. QED BY <3>4, <3>5 DEF IInv
    <2>4. CASE UNCHANGED absvars
        BY <2>4 DEF absvars, IInv, TypeOK, OnePrefixEach, IsPrefix, Prefix
    <2>q. QED BY <2>1, <2>2, <2>3, <2>4 DEF Next
<1>3. IInv => OnePrefixEach
    BY DEF IInv
<1>q. QED BY <1>1, <1>2, <1>3, PTL DEF Spec
=============================================================================
