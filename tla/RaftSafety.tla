----------------------------- MODULE RaftSafety ------------------------------
(***************************************************************************)
(* What makes the logs of RaftCluster agree, for every value of its        *)
(* constants but for one: nothing is compacted.  With snapshots the        *)
(* statements are not all true of this code: see the runs StaleDuplicate   *)
(* and LateSnapshot.  The configuration may change at any time the code    *)
(* lets it: that two majorities of different configurations meet is the    *)
(* work of ConfigsAreGuarded and of the lemmas up to WinnerHolds.          *)
(***************************************************************************)
EXTENDS RaftElections, RaftImplementsLog

---------------------------------------------------------------------------
(* Logs that are made of the leaders' logs. *)

LEMMA BothBacked ==
    ASSUME NEW H, NEW a \in Seq(Entry), NEW b \in Seq(Entry), Backed(H, a), Backed(H, b),
           NEW k \in 1..Len(a), k <= Len(b), a[k].term = b[k].term
    PROVE  SameUpTo(a, b, k)
<1>1. k \in 1..Len(b)
  OBVIOUS
<1>2. SameUpTo(a, H[a[k].term], k) /\ SameUpTo(b, H[a[k].term], k)
  BY <1>1 DEF Backed
<1> QED BY <1>2 DEF SameUpTo

LEMMA SortedLog ==
    ASSUME NEW H, LeadersLogs(H), NEW log \in Seq(Entry), Backed(H, log),
           NEW k \in 1..Len(log), NEW j \in 1..k
    PROVE  log[j].term <= log[k].term
<1> DEFINE t == log[k].term
<1>1. t \in LedTerms /\ SameUpTo(log, H[t], k)
  BY DEF Backed
<1>2. j \in 1..Len(H[t]) /\ k \in 1..Len(H[t]) /\ log[j] = H[t][j] /\ log[k] = H[t][k] /\ j <= k
  BY <1>1 DEF SameUpTo
<1> HIDE DEF t
<1> QED BY <1>1, <1>2 DEF LeadersLogs

\* An AppendEntries never disturbs what the log shares with that of its leader.
LEMMA TakenKeeps ==
    ASSUME NEW log \in Seq(Entry), NEW L, NEW new \in Seq(Entry),
           NEW m, m.prev_index \in Nat, m.entries \in Seq(Entry),
           StretchOf(L, m), TakenFrom(log, m, new), NEW k \in Nat, SameUpTo(log, L, k)
    PROVE  SameUpTo(log, new, k)
<1> DEFINE prev == m.prev_index
           entries == m.entries
<1>1. prev \in Nat /\ entries \in Seq(Entry) /\ Len(entries) \in Nat
      /\ Len(log) \in Nat /\ Len(new) \in Nat /\ k <= Len(log)
  BY DEF SameUpTo
<1>2. CASE new = log
  BY <1>1, <1>2 DEF SameUpTo
<1>3. ASSUME NEW c \in 1..Len(entries), Replaced(log, prev, entries, c, Len(entries), new)
      PROVE  SameUpTo(log, new, k)
  <2>1. /\ c \in Nat /\ Len(new) = prev + Len(entries)
        /\ \A j \in 1..(prev + c - 1) : new[j] = log[j]
        /\ prev + c <= Len(log) => log[prev + c].term # entries[c].term
    BY <1>1, <1>3 DEF Replaced, Departs
  <2>2. k < prev + c
    <3> SUFFICES ASSUME prev + c <= k PROVE FALSE
      BY <1>1, <2>1
    <3>1. log[prev + c] = L[prev + c]
      BY <1>1, <2>1 DEF SameUpTo
    <3>2. entries[c] = L[prev + c]
      BY <1>3 DEF StretchOf
    <3> QED BY <1>1, <2>1, <3>1, <3>2
  <2>3. k <= Len(new) /\ \A j \in 1..k : new[j] = log[j]
    BY <1>1, <2>1, <2>2
  <2> QED BY <1>1, <2>3 DEF SameUpTo
<1> QED BY <1>2, <1>3 DEF TakenFrom, Taken

\* After an AppendEntries the log is that of the leader, as far as it vouches.
LEMMA AgreeingIsSame ==
    ASSUME NEW H, NEW log \in Seq(Entry), NEW L \in Seq(Entry), Backed(H, log), Backed(H, L),
           NEW m, m.prev_index \in Nat, m.entries \in Seq(Entry), StretchOf(L, m), Meets(log, m),
           NEW k \in 0..Len(m.entries), Agrees(log, m.prev_index, m.entries, k)
    PROVE  SameUpTo(log, L, m.prev_index + k)
<1> DEFINE prev == m.prev_index
           entries == m.entries
<1>1. prev \in Nat /\ k \in Nat /\ prev + k \in Nat /\ Len(log) \in Nat /\ Len(L) \in Nat
      /\ prev + k <= Len(log) /\ Len(entries) \in Nat
  BY DEF Agrees
<1>2. prev + k <= Len(L)
  BY <1>1 DEF StretchOf, Match
<1>3. CASE prev + k = 0
  BY <1>1, <1>2, <1>3 DEF SameUpTo
<1>4. CASE prev + k > 0
  <2>1. prev + k \in 1..Len(log)
    BY <1>1, <1>4
  <2>2. log[prev + k].term = L[prev + k].term
    <3>1. CASE k = 0
      BY <1>1, <1>4, <3>1 DEF Meets, StretchOf
    <3>2. CASE k > 0
      <4>1. k \in 1..k /\ k \in 1..Len(entries)
        BY <1>1, <3>2
      <4> QED BY <4>1 DEF Agrees, StretchOf
    <3> QED BY <1>1, <3>1, <3>2
  <2> HIDE DEF prev
  <2>3. SameUpTo(log, L, prev + k)
    BY <1>2, <2>1, <2>2, BothBacked
  <2> QED BY <2>3 DEF prev
<1> QED BY <1>1, <1>3, <1>4

LEMMA TakenIsLeaders ==
    ASSUME NEW H, NEW log \in Seq(Entry), NEW L \in Seq(Entry), Backed(H, log), Backed(H, L),
           NEW m, m.prev_index \in Nat, m.entries \in Seq(Entry), StretchOf(L, m), Meets(log, m),
           NEW new \in Seq(Entry), TakenFrom(log, m, new)
    PROVE  SameUpTo(new, L, Match(m)) /\ (new = log \/ Len(new) = Match(m))
<1> DEFINE prev == m.prev_index
           entries == m.entries
           K == Len(entries)
<1>1. prev \in Nat /\ K \in Nat /\ Len(log) \in Nat /\ Len(L) \in Nat /\ Len(new) \in Nat
  OBVIOUS
<1>2. Match(m) = prev + K /\ prev + K <= Len(L)
  BY DEF Match, StretchOf
<1>3. CASE new = log /\ Agrees(log, prev, entries, K)
  <2>1. K \in 0..Len(entries)
    BY <1>1
  <2>2. SameUpTo(log, L, prev + K)
    BY <1>3, <2>1, AgreeingIsSame
  <2> QED BY <1>2, <1>3, <2>2
<1>4. ASSUME NEW c \in 1..K, Replaced(log, prev, entries, c, K, new)
      PROVE  SameUpTo(new, L, Match(m)) /\ Len(new) = Match(m)
  <2>1. /\ c - 1 \in 0..K /\ Agrees(log, prev, entries, c - 1)
        /\ Len(new) = prev + K
        /\ \A j \in 1..(prev + c - 1) : new[j] = log[j]
        /\ \A j \in c..K : new[prev + j] = entries[j]
    BY <1>1, <1>4 DEF Replaced, Departs
  <2>2. SameUpTo(log, L, prev + (c - 1))
    BY <2>1, AgreeingIsSame
  <2>3. ASSUME NEW j \in 1..(prev + K) PROVE new[j] = L[j]
    <3>1. CASE j <= prev + (c - 1)
      <4>1. j \in 1..(prev + c - 1) /\ j \in 1..(prev + (c - 1))
        BY <1>1, <2>1, <3>1
      <4> QED BY <2>1, <2>2, <4>1 DEF SameUpTo
    <3>2. CASE j > prev + (c - 1)
      <4>1. j - prev \in c..K /\ prev + (j - prev) = j /\ j - prev \in 1..K
        BY <1>1, <2>1, <3>2
      <4>2. new[j] = entries[j - prev]
        BY <2>1, <4>1
      <4>3. L[j] = entries[j - prev]
        BY <4>1 DEF StretchOf
      <4> QED BY <4>2, <4>3
    <3> QED BY <1>1, <2>1, <3>1, <3>2
  <2> HIDE DEF prev, K, entries
  <2>4. SameUpTo(new, L, prev + K)
    BY <1>1, <1>2, <2>1, <2>3 DEF SameUpTo
  <2> QED BY <1>2, <2>1, <2>4
<1> QED BY <1>3, <1>4 DEF TakenFrom, Taken

\* What is shared with a log that is backed is backed.
LEMMA SharedIsBacked ==
    ASSUME NEW H, NEW log \in Seq(Entry), NEW L \in Seq(Entry), Backed(H, L),
           SameUpTo(log, L, Len(log))
    PROVE  Backed(H, log)
<1> SUFFICES ASSUME NEW k \in 1..Len(log)
             PROVE  log[k].term \in LedTerms /\ SameUpTo(log, H[log[k].term], k)
  BY DEF Backed
<1>1. k \in 1..Len(L) /\ log[k] = L[k] /\ k <= Len(log) /\ \A j \in 1..k : log[j] = L[j]
  BY DEF SameUpTo
<1>2. L[k].term \in LedTerms /\ SameUpTo(L, H[L[k].term], k)
  BY <1>1 DEF Backed
<1> QED BY <1>1, <1>2 DEF SameUpTo

---------------------------------------------------------------------------
(* The configuration that a log names. *)

LEMMA LastConfig ==
    ASSUME NEW log, NEW k \in Nat, NEW j \in 1..k, IsConfig(log[j].command)
    PROVE  \E c \in j..k : /\ IsConfig(log[c].command)
                           /\ \A d \in (c + 1)..k : ~IsConfig(log[d].command)
                           /\ VotersAt(log, k) = log[c].command.voters
<1> DEFINE S == {d \in 1..k : IsConfig(log[d].command)}
<1>1. S \in SUBSET Nat /\ IsFiniteSet(S) /\ S # {}
  <2>1. IsFiniteSet(1..k)
    BY 1 \in Int, k \in Int, FS_Interval
  <2>2. S \in SUBSET (1..k) /\ j \in S /\ 1..k \subseteq Nat
    OBVIOUS
  <2> HIDE DEF S
  <2>3. IsFiniteSet(S)
    BY <2>1, <2>2, FS_Subset
  <2> QED BY <2>2, <2>3
<1>2. VotersAt(log, k) = log[Maximum(S)].command.voters
  BY <1>1 DEF VotersAt
<1>3. Maximum(S) \in S /\ \A y \in S : y <= Maximum(S)
  <2> HIDE DEF S
  <2> QED BY <1>1, MaximumIsGreatest
<1>4. PICK c \in S : c = Maximum(S) /\ \A y \in S : y <= c
  BY <1>3
<1>5. c \in 1..k /\ IsConfig(log[c].command) /\ j <= c
  BY <1>4
<1>6. \A d \in (c + 1)..k : ~IsConfig(log[d].command)
  BY <1>4, <1>5
<1> HIDE DEF S
<1> QED BY <1>2, <1>4, <1>5, <1>6

LEMMA NoConfig ==
    ASSUME NEW log, NEW k \in Nat, \A j \in 1..k : ~IsConfig(log[j].command)
    PROVE  VotersAt(log, k) = InitialVoters
BY DEF VotersAt

\* Entries that name no configuration change none.
LEMMA VotersStay ==
    ASSUME NEW log, NEW p \in Nat, NEW k \in Nat, p <= k,
           \A j \in (p + 1)..k : ~IsConfig(log[j].command)
    PROVE  VotersAt(log, k) = VotersAt(log, p)
<1> DEFINE S(m) == {d \in 1..m : IsConfig(log[d].command)}
<1>1. S(k) = S(p)
  OBVIOUS
<1> QED BY <1>1 DEF VotersAt

LEMMA VotersChange ==
    ASSUME NEW log, NEW k \in Nat, NEW c \in 1..k, IsConfig(log[c].command),
           \A j \in (c + 1)..k : ~IsConfig(log[j].command)
    PROVE  VotersAt(log, k) = log[c].command.voters
<1>1. PICK d \in c..k : /\ IsConfig(log[d].command)
                        /\ VotersAt(log, k) = log[d].command.voters
  BY LastConfig
<1>2. d = c
  BY <1>1
<1> QED BY <1>1, <1>2

LEMMA SameVoters ==
    ASSUME NEW a, NEW b, NEW k \in Nat, SameUpTo(a, b, k)
    PROVE  VotersAt(a, k) = VotersAt(b, k)
<1>1. CASE \A j \in 1..k : ~IsConfig(a[j].command)
  <2>1. \A j \in 1..k : ~IsConfig(b[j].command)
    BY <1>1 DEF SameUpTo
  <2> QED BY <1>1, <2>1, NoConfig
<1>2. ASSUME NEW j \in 1..k, IsConfig(a[j].command)
      PROVE  VotersAt(a, k) = VotersAt(b, k)
  <2>1. PICK c \in j..k : /\ IsConfig(a[c].command)
                          /\ \A d \in (c + 1)..k : ~IsConfig(a[d].command)
                          /\ VotersAt(a, k) = a[c].command.voters
    BY <1>2, LastConfig
  <2>2. c \in 1..k /\ c \in Nat
    BY <2>1
  <2>3. /\ a[c] = b[c] /\ IsConfig(b[c].command)
        /\ \A d \in (c + 1)..k : ~IsConfig(b[d].command)
    BY <2>1, <2>2 DEF SameUpTo
  <2>4. VotersAt(b, k) = b[c].command.voters
    BY <2>2, <2>3, VotersChange
  <2> QED BY <2>1, <2>3, <2>4
<1> QED BY <1>1, <1>2

LEMMA VotersAreNodes ==
    ASSUME NEW log \in Seq(Entry), NEW k \in 0..Len(log)
    PROVE  VotersAt(log, k) \in SUBSET Node
<1>1. CASE \A j \in 1..k : ~IsConfig(log[j].command)
  BY <1>1, NoConfig, VotersAssumption
<1>2. ASSUME NEW j \in 1..k, IsConfig(log[j].command)
      PROVE  VotersAt(log, k) \in SUBSET Node
  <2>1. PICK c \in j..k : VotersAt(log, k) = log[c].command.voters
    BY <1>2, LastConfig
  <2>2. log[c] \in Entry
    BY <2>1
  <2> QED BY <2>1, <2>2 DEF Entry, Command
<1> QED BY <1>1, <1>2

LEMMA GoverningVoters ==
    ASSUME NEW log \in Seq(Entry), NEW V, NEW k \in Nat, Governs(log, V, k)
    PROVE  /\ V = VotersAt(log, Len(log))
           /\ \A j \in 1..Len(log) : IsConfig(log[j].command) => j <= k
<1>1. CASE k = 0
  <2>1. \A j \in 1..Len(log) : ~IsConfig(log[j].command)
    BY <1>1 DEF Governs
  <2> QED BY <1>1, <2>1, NoConfig DEF Governs
<1>2. CASE k # 0
  <2>1. k \in 1..Len(log) /\ IsConfig(log[k].command) /\ V = log[k].command.voters
    BY <1>2 DEF Governs
  <2>2. \A j \in (k + 1)..Len(log) : ~IsConfig(log[j].command)
    BY <2>1 DEF Governs
  <2> QED BY <2>1, <2>2, VotersChange DEF Governs
<1> QED BY <1>1, <1>2

---------------------------------------------------------------------------
(* Majorities that meet although the configuration changes. *)

\* Every configuration among the first a entries of A was appended after an
\* entry of its own term that is among the first b entries of C, and with no
\* other configuration between.
Anchored(A, a, C, b) ==
    \A c \in 1..a : IsConfig(A[c].command) =>
        \E j \in 1..(c - 1) :
            /\ A[j].term = A[c].term
            /\ j <= b /\ C[j].term = A[c].term
            /\ \A d \in (j + 1)..(c - 1) : ~IsConfig(A[d].command)
            /\ OneApart(VotersAt(A, c - 1), A[c].command.voters)

\* Two logs share their first p entries and no more.
ShareJust(A, a, C, b, p) ==
    /\ p <= a /\ p <= b /\ SameUpTo(A, C, p)
    /\ \A q \in Nat : q <= a /\ q <= b /\ SameUpTo(A, C, q) => q <= p

LEMMA LongestShared ==
    ASSUME NEW A \in Seq(Entry), NEW C \in Seq(Entry), NEW a \in 0..Len(A), NEW b \in 0..Len(C)
    PROVE  \E p \in Nat : ShareJust(A, a, C, b, p)
<1> DEFINE S == {q \in 0..a : q <= b /\ SameUpTo(A, C, q)}
<1>1. 0 \in S /\ S \in SUBSET (0..a) /\ 0 \in Nat /\ a \in Nat
  BY DEF SameUpTo
<1>2. IsFiniteSet(S) /\ S \in SUBSET Nat
  <2>1. IsFiniteSet(0..a)
    BY 0 \in Int, a \in Int, FS_Interval
  <2>2. 0..a \subseteq Nat
    BY <1>1
  <2> HIDE DEF S
  <2>3. IsFiniteSet(S)
    BY <1>1, <2>1, FS_Subset
  <2> QED BY <1>1, <2>2, <2>3
<1>3. PICK p \in S : \A q \in S : q <= p
  <2> HIDE DEF S
  <2> QED BY <1>1, <1>2, GreatestNat
<1>4. \A q \in Nat : q <= a /\ q <= b /\ SameUpTo(A, C, q) => q \in S
  OBVIOUS
<1> QED BY <1>3, <1>4 DEF ShareJust

\* Beyond what it shares with C, an anchored log has at most one configuration.
LEMMA OneBeyond ==
    ASSUME NEW H, NEW A \in Seq(Entry), NEW C \in Seq(Entry), Backed(H, A), Backed(H, C),
           NEW a \in 0..Len(A), NEW b \in 0..Len(C), Anchored(A, a, C, b),
           NEW p \in Nat, ShareJust(A, a, C, b, p)
    PROVE  \/ VotersAt(A, a) = VotersAt(A, p)
           \/ /\ OneApart(VotersAt(A, p), VotersAt(A, a))
              /\ \E c \in (p + 1)..a : \E j \in 1..p : A[j].term = A[c].term
<1>1. ASSUME NEW c \in 1..a, IsConfig(A[c].command)
      PROVE  \E j \in 1..(c - 1) :
                 /\ j <= p /\ A[j].term = A[c].term
                 /\ \A d \in (j + 1)..(c - 1) : ~IsConfig(A[d].command)
                 /\ OneApart(VotersAt(A, c - 1), A[c].command.voters)
  <2>1. PICK j \in 1..(c - 1) :
            /\ A[j].term = A[c].term
            /\ j <= b /\ C[j].term = A[c].term
            /\ \A d \in (j + 1)..(c - 1) : ~IsConfig(A[d].command)
            /\ OneApart(VotersAt(A, c - 1), A[c].command.voters)
    BY <1>1 DEF Anchored
  <2>2. j \in 1..Len(A) /\ j <= Len(C) /\ A[j].term = C[j].term /\ j <= a /\ j \in Nat
    BY <2>1
  <2>3. SameUpTo(A, C, j)
    BY <2>2, BothBacked
  <2>4. j <= p
    BY <2>1, <2>2, <2>3 DEF ShareJust
  <2> QED BY <2>1, <2>4
<1>2. CASE \A c \in (p + 1)..a : ~IsConfig(A[c].command)
  BY <1>2, VotersStay DEF ShareJust
<1>3. ASSUME NEW c \in (p + 1)..a, IsConfig(A[c].command)
      PROVE  /\ OneApart(VotersAt(A, p), VotersAt(A, a))
             /\ \E j \in 1..p : A[j].term = A[c].term
  <2>1. c \in 1..a /\ c - 1 \in Nat /\ p <= c - 1 /\ a \in Nat
    OBVIOUS
  <2>2. PICK j \in 1..(c - 1) :
                 /\ j <= p /\ A[j].term = A[c].term
                 /\ \A d \in (j + 1)..(c - 1) : ~IsConfig(A[d].command)
                 /\ OneApart(VotersAt(A, c - 1), A[c].command.voters)
    BY <1>1, <1>3, <2>1
  <2>3. VotersAt(A, c - 1) = VotersAt(A, p)
    <3>1. \A d \in (p + 1)..(c - 1) : ~IsConfig(A[d].command)
      BY <2>2
    <3> QED BY <2>1, <3>1, VotersStay
  <2>4. ASSUME NEW d \in (c + 1)..a PROVE ~IsConfig(A[d].command)
    <3> SUFFICES ASSUME IsConfig(A[d].command) PROVE FALSE
      OBVIOUS
    <3>1. d \in 1..a
      BY <2>1
    <3>2. PICK i \in 1..(d - 1) : i <= p /\ \A x \in (i + 1)..(d - 1) : ~IsConfig(A[x].command)
      BY <1>1, <3>1
    <3>3. c \in (i + 1)..(d - 1)
      BY <2>1, <3>2
    <3> QED BY <1>3, <3>2, <3>3
  <2>5. VotersAt(A, a) = A[c].command.voters
    BY <1>3, <2>1, <2>4, VotersChange
  <2>6. j \in 1..p
    BY <2>2
  <2> QED BY <2>2, <2>3, <2>5, <2>6
<1> QED BY <1>2, <1>3

(***************************************************************************)
(* Majorities of the configurations of two logs meet, if each has what the *)
(* other's configurations were appended after: the logs have the same      *)
(* configurations but for at most one, which only one of them has.         *)
(***************************************************************************)
LEMMA AnchoredMeet ==
    ASSUME NEW H, LeadersLogs(H),
           NEW A \in Seq(Entry), NEW C \in Seq(Entry), Backed(H, A), Backed(H, C),
           NEW a \in 0..Len(A), NEW b \in 0..Len(C),
           Anchored(A, a, C, b), Anchored(C, b, A, a),
           NEW S, NEW T, IsMajority(S, VotersAt(A, a)), IsMajority(T, VotersAt(C, b))
    PROVE  \E v \in S \cap T : v \in Node
<1>1. PICK p \in Nat : ShareJust(A, a, C, b, p)
  BY LongestShared
<1>2. ShareJust(C, b, A, a, p)
  BY <1>1 DEF ShareJust, SameUpTo
<1> DEFINE V == VotersAt(A, a)
           W == VotersAt(C, b)
           U == VotersAt(A, p)
<1>3. p \in 0..Len(A) /\ p \in 0..Len(C) /\ p <= a /\ p <= b /\ a \in Nat /\ b \in Nat
  BY <1>1 DEF ShareJust
<1>4. V \in SUBSET Node /\ W \in SUBSET Node /\ U \in SUBSET Node
  BY <1>3, VotersAreNodes
<1>5. U = VotersAt(C, p)
  BY <1>1, SameVoters DEF ShareJust
<1>6. \/ V = U
      \/ OneApart(U, V) /\ \E c \in (p + 1)..a : \E j \in 1..p : A[j].term = A[c].term
  BY <1>1, OneBeyond
<1>7. \/ W = U
      \/ OneApart(U, W) /\ \E d \in (p + 1)..b : \E j \in 1..p : C[j].term = C[d].term
  BY <1>2, <1>5, OneBeyond
<1> HIDE DEF U, V, W
<1>8. ASSUME NEW c \in (p + 1)..a, NEW i \in 1..p, A[i].term = A[c].term,
             NEW d \in (p + 1)..b, NEW j \in 1..p, C[j].term = C[d].term
      PROVE  FALSE
  <2>1. /\ c \in 1..Len(A) /\ d \in 1..Len(C) /\ i \in 1..d /\ j \in 1..c
        /\ p + 1 <= c /\ p + 1 <= d /\ p + 1 \in Nat
    BY <1>3
  <2>2. A[i] = C[i] /\ A[j] = C[j]
    BY <1>1 DEF ShareJust, SameUpTo
  <2>3. C[i].term <= C[d].term /\ A[j].term <= A[c].term
    BY <2>1, SortedLog
  <2>4. A[c].term = C[d].term
    <3>1. A[c] \in Entry /\ C[d] \in Entry
      BY <2>1
    <3>2. A[c].term \in Int /\ C[d].term \in Int
      BY <3>1 DEF Entry
    <3> QED BY <1>8, <2>2, <2>3, <3>2
  <2>5. SameUpTo(A, H[A[c].term], c) /\ SameUpTo(C, H[A[c].term], d)
    BY <2>1, <2>4 DEF Backed
  <2>6. SameUpTo(A, C, p + 1)
    BY <2>1, <2>5 DEF SameUpTo
  <2>7. p + 1 <= a /\ p + 1 <= b
    BY <1>3, <2>1
  <2>8. p + 1 <= p
    BY <1>1, <2>1, <2>6, <2>7 DEF ShareJust
  <2> QED BY <2>8
<1>9. IsMajority(S, V) /\ IsMajority(T, W)
  BY DEF V, W
<1>10. CASE V = U /\ W = U
  BY <1>4, <1>9, <1>10, MajoritiesMeet
<1>11. CASE V = U /\ OneApart(U, W)
  BY <1>4, <1>9, <1>11, NeighboursMeet
<1>12. CASE OneApart(U, V) /\ W = U
  <2>1. OneApart(V, U)
    BY <1>12, NeighboursAreMutual
  <2> QED BY <1>4, <1>9, <1>12, <2>1, NeighboursMeet
<1> QED BY <1>6, <1>7, <1>8, <1>10, <1>11, <1>12

---------------------------------------------------------------------------
(* What is chosen stays: the heart of the matter. *)

History == [Nat -> Seq(Entry)]

LEMMA TermsAreNumbers ==
    ASSUME TypeOK, NEW t \in LedTerms
    PROVE  t \in Nat
BY DEF TypeOK, LedTerms

\* The log of a led term, in the history.
LEMMA LedLog ==
    ASSUME TypeOK, NEW H \in History, NEW t \in LedTerms
    PROVE  t \in Nat /\ H[t] \in Seq(Entry) /\ Len(H[t]) \in Nat
<1>1. t \in Nat
  BY TermsAreNumbers
<1>2. H[t] \in Seq(Entry)
  BY <1>1 DEF History
<1> QED BY <1>1, <1>2

\* What was chosen before term u, a log holds.
HoldsChosen(H, log, u) ==
    \A t \in LedTerms : \A k : t < u /\ Chosen(H, t, k) => Holds(log, t, k)

LEMMA LedFacts ==
    ASSUME TypeOK, NEW H \in History, LogInv(H), NEW t \in LedTerms
    PROVE  /\ t \in Nat /\ H[t] \in Seq(Entry) /\ Len(H[t]) \in Nat
           /\ LeadersLogs(H) /\ Backed(H, H[t])
           /\ \A k \in 1..Len(H[t]) : H[t][k].term <= t /\ H[t][k].term \in Int
<1>1. t \in Nat /\ H[t] \in Seq(Entry) /\ Len(H[t]) \in Nat
  BY LedLog
<1>2. LeadersLogs(H) /\ Backed(H, H[t]) /\ \A k \in 1..Len(H[t]) : H[t][k].term <= t
  BY DEF LogInv, LeadersLogs
<1>3. \A k \in 1..Len(H[t]) : H[t][k] \in Entry
  BY <1>1
<1> QED BY <1>1, <1>2, <1>3 DEF Entry

\* A log is anchored in another that holds what its configurations waited for.
LEMMA GuardsAnchor ==
    ASSUME TypeOK, NEW H \in History, LogInv(H), ConfigsAreGuarded(H),
           NEW A \in Seq(Entry), NEW C \in Seq(Entry), Backed(H, A),
           NEW a \in 0..Len(A), NEW b \in 0..Len(C),
           \A c \in 1..a : \A j \in 1..(c - 1) : \A m \in j..(c - 1) :
               ChosenBy(H, A[c].term, j, m) => j <= b /\ Holds(C, A[c].term, j)
    PROVE  Anchored(A, a, C, b)
<1> SUFFICES ASSUME NEW c \in 1..a, IsConfig(A[c].command)
             PROVE  \E j \in 1..(c - 1) :
                        /\ A[j].term = A[c].term
                        /\ j <= b /\ C[j].term = A[c].term
                        /\ \A d \in (j + 1)..(c - 1) : ~IsConfig(A[d].command)
                        /\ OneApart(VotersAt(A, c - 1), A[c].command.voters)
  BY DEF Anchored
<1> DEFINE w == A[c].term
<1>1. c \in 1..Len(A) /\ c - 1 \in Nat
  OBVIOUS
<1>2. w \in LedTerms /\ SameUpTo(A, H[w], c)
  BY <1>1 DEF Backed
<1>3. c \in 1..Len(H[w]) /\ \A d \in 1..c : A[d] = H[w][d]
  BY <1>1, <1>2 DEF SameUpTo
<1>4. H[w][c] = A[c]
  BY <1>1, <1>3
<1>5. Guarded(H, w, c)
  BY <1>2, <1>3, <1>4 DEF ConfigsAreGuarded
<1>6. PICK j \in 1..(c - 1) :
        /\ \E m \in j..(c - 1) : ChosenBy(H, w, j, m)
        /\ \A d \in (j + 1)..(c - 1) : ~IsConfig(H[w][d].command)
        /\ OneApart(VotersAt(H[w], c - 1), H[w][c].command.voters)
  BY <1>5 DEF Guarded
<1>7. PICK m \in j..(c - 1) : ChosenBy(H, w, j, m)
  BY <1>6
<1>8. H[w][j].term = w /\ j <= b /\ C[j].term = w
  BY <1>7 DEF ChosenBy, Holds
<1>9. A[j] = H[w][j] /\ \A d \in (j + 1)..(c - 1) : A[d] = H[w][d]
  <2>1. j \in 1..c /\ \A d \in (j + 1)..(c - 1) : d \in 1..c
    BY <1>1
  <2> HIDE DEF w
  <2> QED BY <1>3, <2>1
<1>10. VotersAt(A, c - 1) = VotersAt(H[w], c - 1)
  <2>1. SameUpTo(A, H[w], c - 1)
    BY <1>1, <1>2 DEF SameUpTo
  <2> QED BY <1>1, <2>1, SameVoters
<1> QED BY <1>4, <1>6, <1>8, <1>9, <1>10

\* What is chosen by a shorter length of the log than it has is chosen.
LEMMA ChosenByIsChosen ==
    ASSUME TypeOK, NEW H \in History, NEW t \in LedTerms, NEW k \in Nat, NEW m \in Nat,
           k <= m, m <= Len(H[t]), ChosenBy(H, t, k, m)
    PROVE  Chosen(H, t, k)
<1>1. Len(H[t]) \in Nat
  BY LedLog
<1> QED BY <1>1 DEF Chosen

(***************************************************************************)
(* Whoever is voted for by a majority of the configuration of its log, and *)
(* has what its voters had acknowledged, has everything that was chosen    *)
(* before, if all earlier leaders had.  Suppose not, and take the earliest *)
(* entry that it lacks, by the term and then by the length at which it was *)
(* chosen.  What the configurations of either log waited for was chosen    *)
(* earlier than that, so both logs have it, and the two majorities meet.   *)
(***************************************************************************)
LEMMA WinnerHolds ==
    ASSUME TypeOK, NEW H \in History, LogInv(H), ConfigsAreGuarded(H),
           NEW u \in Nat, NEW C \in Seq(Entry), Backed(H, C), NEW b \in 0..Len(C),
           StoodWith(C, u, b),
           \A w \in LedTerms : w < u => HoldsChosen(H, H[w], w),
           NEW Q, IsMajority(Q, VotersAt(C, b)),
           \A v \in Q : \A t \in LedTerms : \A k \in 1..Len(H[t]) :
               t < u /\ Chosen(H, t, k) /\ Acked(H, v, t, k) => Holds(C, t, k)
    PROVE  HoldsChosen(H, C, u)
<1> DEFINE Bad == {t \in LedTerms : t < u /\ \E k : Chosen(H, t, k) /\ ~Holds(C, t, k)}
<1> SUFFICES ASSUME Bad # {} PROVE FALSE
  BY DEF HoldsChosen
<1>1. LedTerms \subseteq Nat
  BY TermsAreNumbers
<1>2. PICK t \in Bad : \A s \in Bad : t <= s
  <2>1. Bad \in SUBSET Nat
    BY <1>1
  <2> HIDE DEF Bad
  <2> QED BY <2>1, LeastNat
<1>3. /\ t \in LedTerms /\ t < u /\ t \in Nat /\ H[t] \in Seq(Entry) /\ Len(H[t]) \in Nat
      /\ LeadersLogs(H) /\ Backed(H, H[t])
  BY <1>2, LedFacts
<1>4. ASSUME NEW s \in LedTerms, s < t, NEW j, Chosen(H, s, j) PROVE Holds(C, s, j)
  <2>1. s \in Nat
    BY <1>1
  <2>2. s < u /\ s \notin Bad
    BY <1>2, <1>3, <1>4, <2>1
  <2> QED BY <1>4, <2>2
<1> DEFINE Late == {m \in Nat : m <= Len(H[t]) /\ \E k \in 1..m :
                                    ChosenBy(H, t, k, m) /\ ~Holds(C, t, k)}
<1>5. Late # {} /\ Late \in SUBSET Nat
  <2>1. PICK k : Chosen(H, t, k) /\ ~Holds(C, t, k)
    BY <1>2
  <2>2. PICK m \in k..Len(H[t]) : ChosenBy(H, t, k, m)
    BY <2>1 DEF Chosen
  <2>3. k \in 1..Len(H[t])
    BY <2>2 DEF ChosenBy, Holds
  <2>4. m \in Nat /\ m <= Len(H[t]) /\ k \in 1..m
    BY <1>3, <2>2, <2>3
  <2>5. m \in Late
    BY <2>1, <2>2, <2>4
  <2> QED BY <2>5
<1>6. PICK m \in Late : \A x \in Late : m <= x
  <2> HIDE DEF Late
  <2> QED BY <1>5, LeastNat
<1>7. PICK k \in 1..m : ChosenBy(H, t, k, m) /\ ~Holds(C, t, k)
  BY <1>6
<1>8. m \in Nat /\ m <= Len(H[t]) /\ m \in 0..Len(H[t]) /\ k \in Nat
  BY <1>3, <1>6
<1>9. ASSUME NEW x \in Nat, x < m, NEW j \in 1..x, ChosenBy(H, t, j, x) PROVE Holds(C, t, j)
  <2>1. x <= Len(H[t]) /\ ~(m <= x)
    BY <1>3, <1>8, <1>9
  <2>2. x \notin Late
    BY <1>6, <2>1
  <2> QED BY <1>9, <2>1, <2>2
<1> HIDE DEF Bad, Late
<1>10. k \in 1..Len(H[t]) /\ H[t][k].term = t /\ Chosen(H, t, k)
  <2>1. Chosen(H, t, k)
    BY <1>3, <1>7, <1>8, ChosenByIsChosen
  <2> QED BY <1>7, <2>1 DEF ChosenBy, Holds
<1> DEFINE A == H[t]
<1>11. Anchored(A, m, C, b)
  <2>1. ASSUME NEW c \in 1..m, NEW j \in 1..(c - 1), NEW x \in j..(c - 1),
               ChosenBy(H, A[c].term, j, x)
        PROVE  j <= b /\ Holds(C, A[c].term, j)
    <3> DEFINE w == A[c].term
    <3>1. /\ c \in 1..Len(H[t]) /\ x \in Nat /\ j \in Nat /\ j \in 1..x
          /\ j <= x /\ x < c /\ x < m
      BY <1>8
    <3>2. w \in LedTerms /\ SameUpTo(A, H[w], c) /\ w <= t /\ w \in Nat
      <4>1. w \in LedTerms /\ SameUpTo(A, H[w], c)
        BY <1>3, <3>1 DEF Backed
      <4>2. w <= t
        BY <1>3, <3>1, LedFacts
      <4> QED BY <1>1, <4>1, <4>2
    <3>3. x <= Len(H[w]) /\ Len(H[w]) \in Nat
      <4>1. Len(H[w]) \in Nat /\ c <= Len(H[w])
        BY <3>2, LedLog DEF SameUpTo
      <4> QED BY <3>1, <4>1
    <3> HIDE DEF w
    <3>4. Holds(C, w, j)
      <4>1. CASE w = t
        BY <1>9, <2>1, <3>1, <4>1 DEF w
      <4>2. CASE w < t
        <5>1. Chosen(H, w, j)
          BY <2>1, <3>1, <3>2, <3>3, ChosenByIsChosen DEF w
        <5> QED BY <1>4, <3>2, <4>2, <5>1
      <4> QED BY <1>3, <3>2, <4>1, <4>2
    <3>5. j <= b
      BY <1>3, <3>1, <3>2, <3>4 DEF StoodWith, Holds
    <3> QED BY <3>4, <3>5 DEF w
  <2> HIDE DEF A
  <2>2. A \in Seq(Entry) /\ Backed(H, A) /\ m \in 0..Len(A)
    BY <1>3, <1>8 DEF A
  <2> QED BY <2>1, <2>2, GuardsAnchor
<1>12. Anchored(C, b, A, m)
  <2>1. ASSUME NEW c \in 1..b, NEW j \in 1..(c - 1), NEW x \in j..(c - 1),
               ChosenBy(H, C[c].term, j, x)
        PROVE  j <= m /\ Holds(A, C[c].term, j)
    <3> DEFINE w == C[c].term
    <3>1. /\ c \in 1..Len(C) /\ x \in Nat /\ j \in Nat /\ c \in Nat
          /\ j <= x /\ x < c /\ Len(C) \in Nat
      OBVIOUS
    <3>2. w \in LedTerms /\ SameUpTo(C, H[w], c) /\ w < u /\ w \in Nat
      <4>1. w \in LedTerms /\ SameUpTo(C, H[w], c)
        BY <3>1 DEF Backed
      <4>2. w < u
        BY <3>1 DEF StoodWith
      <4> QED BY <1>1, <4>1, <4>2
    <3>3. /\ c \in 1..Len(H[w]) /\ H[w] \in Seq(Entry) /\ Len(H[w]) \in Nat
          /\ H[w][c].term = w /\ Backed(H, H[w])
      <4>1. H[w] \in Seq(Entry) /\ Len(H[w]) \in Nat /\ Backed(H, H[w])
        BY <3>2, LedFacts
      <4>2. c <= Len(H[w]) /\ C[c] = H[w][c]
        BY <3>1, <3>2 DEF SameUpTo
      <4> QED BY <3>1, <4>1, <4>2
    <3> HIDE DEF w
    <3>4. Holds(H[w], w, j)
      BY <2>1 DEF ChosenBy, w
    <3>5. CASE w < t
      <4>1. Chosen(H, w, j)
        BY <2>1, <3>1, <3>2, <3>3, ChosenByIsChosen DEF w
      <4>2. Holds(H[t], w, j)
        BY <1>3, <3>2, <3>5, <4>1 DEF HoldsChosen
      <4>3. j < k
        <5> SUFFICES ASSUME k <= j PROVE FALSE
          BY <1>8, <3>1
        <5>1. j \in 1..Len(H[t]) /\ H[t][j].term = w /\ k \in 1..j
          BY <1>10, <3>1, <4>2 DEF Holds
        <5>2. H[t][k].term <= H[t][j].term
          BY <1>3, <5>1, SortedLog
        <5> QED BY <1>3, <1>10, <3>2, <3>5, <5>1, <5>2
      <4>4. j <= m
        BY <1>8, <3>1, <4>3
      <4> QED BY <4>2, <4>4 DEF w
    <3>6. CASE w = t
      <4>1. c < k
        <5> SUFFICES ASSUME k <= c PROVE FALSE
          BY <1>8, <3>1
        <5>1. k \in 1..Len(C) /\ C[k] = H[t][k]
          BY <1>8, <3>1, <3>2, <3>6, <5>1 DEF SameUpTo
        <5> QED BY <1>7, <1>10, <5>1 DEF Holds
      <4>2. j <= m
        BY <1>8, <3>1, <4>1
      <4> QED BY <3>4, <3>6, <4>2 DEF w
    <3>7. CASE t < w
      <4>1. Holds(H[w], t, k)
        BY <1>3, <1>10, <3>2, <3>7 DEF HoldsChosen
      <4>2. k \in 1..Len(H[w]) /\ H[w][k].term = t
        BY <4>1 DEF Holds
      <4>3. k < c
        <5> SUFFICES ASSUME c <= k PROVE FALSE
          BY <1>8, <3>1
        <5>1. c \in 1..k
          BY <1>8, <3>1
        <5>2. H[w][c].term <= H[w][k].term
          BY <1>3, <3>3, <4>2, <5>1, SortedLog
        <5> QED BY <1>3, <3>2, <3>3, <3>7, <4>2, <5>2
      <4>4. k \in 1..Len(C) /\ C[k] = H[w][k]
        BY <1>8, <3>1, <3>2, <4>3 DEF SameUpTo
      <4> QED BY <1>7, <4>2, <4>4 DEF Holds
    <3> QED BY <1>3, <3>2, <3>5, <3>6, <3>7
  <2> HIDE DEF A
  <2>2. A \in Seq(Entry) /\ m \in 0..Len(A)
    BY <1>3, <1>8 DEF A
  <2> QED BY <2>1, <2>2, GuardsAnchor
<1>13. PICK P \in SUBSET Node : IsMajority(P, VotersAt(H[t], m)) /\ \A v \in P : Acked(H, v, t, k)
  BY <1>7 DEF ChosenBy
<1>14. \E v \in P \cap Q : v \in Node
  BY <1>3, <1>8, <1>11, <1>12, <1>13, AnchoredMeet
<1> QED BY <1>3, <1>7, <1>10, <1>13, <1>14

(***************************************************************************)
(* The leader of every later term has a chosen entry.                      *)
(***************************************************************************)
LEMMA LeadersHold ==
    ASSUME TypeOK, NEW H \in History, LogInv(H), AckInv(H), NEW z \in LedTerms
    PROVE  HoldsChosen(H, H[z], z)
<1> DEFINE Lacking == {w \in LedTerms : ~HoldsChosen(H, H[w], w)}
<1> SUFFICES ASSUME Lacking # {} PROVE FALSE
  OBVIOUS
<1>1. LedTerms \subseteq Nat
  BY TermsAreNumbers
<1>2. PICK u \in Lacking : \A x \in Lacking : u <= x
  <2>1. Lacking \in SUBSET Nat
    BY <1>1
  <2> HIDE DEF Lacking
  <2> QED BY <2>1, LeastNat
<1>3. u \in LedTerms /\ u \in Nat /\ ~HoldsChosen(H, H[u], u)
  BY <1>1, <1>2
<1>4. ASSUME NEW w \in LedTerms, w < u PROVE HoldsChosen(H, H[w], w)
  <2>1. w \in Nat
    BY <1>1
  <2>2. w \notin Lacking
    BY <1>2, <1>3, <1>4, <2>1
  <2> QED BY <2>2
<1> HIDE DEF Lacking
<1>5. PICK x \in leaders : x[1] = u
  BY <1>3 DEF LedTerms
<1>6. PICK b \in 0..Len(H[u]) : \E Q \in SUBSET Ballots(msgs, u, x[2]) : WonWith(H, x, b, Q)
  BY <1>5 DEF AckInv, LeadersCarry
<1>7. PICK Q \in SUBSET Ballots(msgs, u, x[2]) : WonWith(H, x, b, Q)
  BY <1>6
<1>8. /\ StoodWith(H[u], u, b) /\ IsMajority(Q, VotersAt(H[u], b))
      /\ \A v \in Q : Carries(H, H[u], v, u, u - 1)
  BY <1>5, <1>7 DEF WonWith
<1>9. ASSUME NEW v \in Q, NEW t \in LedTerms, NEW k \in 1..Len(H[t]),
             t < u, Chosen(H, t, k), Acked(H, v, t, k)
      PROVE  Holds(H[u], t, k)
  <2>1. Holds(H[u], t, k) \/ Overtaken(H, t, k, u - 1)
    BY <1>8, <1>9 DEF Carries
  <2>2. ASSUME NEW w \in LedTerms, t < w, w <= u - 1 PROVE Holds(H[w], t, k)
    <3>1. w \in Nat /\ w < u
      BY <1>1, <1>3, <2>2
    <3> QED BY <1>4, <1>9, <2>2, <3>1 DEF HoldsChosen
  <2> QED BY <2>1, <2>2 DEF Overtaken
<1>10. H[u] \in Seq(Entry) /\ Backed(H, H[u])
  BY <1>3, LedFacts
<1>11. ConfigsAreGuarded(H)
  BY DEF AckInv
<1> DEFINE C == H[u]
<1>12. HoldsChosen(H, C, u)
  <2>1. /\ C \in Seq(Entry) /\ Backed(H, C) /\ b \in 0..Len(C) /\ StoodWith(C, u, b)
        /\ IsMajority(Q, VotersAt(C, b))
        /\ \A v \in Q : \A t \in LedTerms : \A k \in 1..Len(H[t]) :
               t < u /\ Chosen(H, t, k) /\ Acked(H, v, t, k) => Holds(C, t, k)
    BY <1>6, <1>8, <1>9, <1>10
  <2> HIDE DEF C
  <2> QED BY <1>3, <1>4, <1>11, <2>1, WinnerHolds
<1> QED BY <1>3, <1>12

LEMMA ChosenIsHeld ==
    ASSUME TypeOK, NEW H \in History, LogInv(H), AckInv(H), NEW t \in LedTerms, NEW k,
           Chosen(H, t, k), NEW u \in LedTerms, t < u
    PROVE  Holds(H[u], t, k)
BY LeadersHold DEF HoldsChosen

\* So all later leaders agree with the one that had it chosen.
LEMMA ChosenIsShared ==
    ASSUME TypeOK, NEW H \in History, LogInv(H), AckInv(H), NEW t \in LedTerms, NEW k,
           Chosen(H, t, k), NEW u \in LedTerms, t <= u
    PROVE  k \in Nat /\ SameUpTo(H[u], H[t], k)
<1>1. /\ t \in Nat /\ H[t] \in Seq(Entry) /\ Len(H[t]) \in Nat
      /\ u \in Nat /\ H[u] \in Seq(Entry) /\ Len(H[u]) \in Nat
  BY LedLog
<1>2. k \in 1..Len(H[t]) /\ H[t][k].term = t
  BY DEF Chosen, ChosenBy, Holds
<1>3. CASE t = u
  BY <1>1, <1>2, <1>3 DEF SameUpTo
<1>4. CASE t < u
  <2>1. k \in 1..Len(H[u]) /\ H[u][k].term = t
    BY <1>4, ChosenIsHeld DEF Holds
  <2>2. Backed(H, H[t]) /\ Backed(H, H[u])
    BY DEF LogInv, LeadersLogs
  <2>3. k <= Len(H[t])
    BY <1>1, <1>2
  <2>4. SameUpTo(H[u], H[t], k)
    BY <1>1, <1>2, <2>1, <2>2, <2>3, BothBacked
  <2> QED BY <1>2, <2>4
<1> QED BY <1>1, <1>3, <1>4

LEMMA SettlesDown ==
    ASSUME TypeOK, NEW H, NEW t \in Nat, NEW u \in Nat, t <= u, NEW c \in Nat, NEW d \in Nat, d <= c,
           Settles(H, t, c)
    PROVE  Settles(H, u, d)
<1>1. CASE c = 0
  BY <1>1 DEF Settles
<1>2. CASE c # 0
  <2>1. PICK s \in LedTerms : s <= t /\ \E j \in 1..Len(H[s]) : c <= j /\ Chosen(H, s, j)
    BY <1>2 DEF Settles
  <2>2. PICK j \in 1..Len(H[s]) : c <= j /\ Chosen(H, s, j)
    BY <2>1
  <2>3. s \in Nat
    BY TermsAreNumbers
  <2>4. s <= u /\ d <= j
    BY <2>1, <2>2, <2>3
  <2> QED BY <2>2, <2>4 DEF Settles
<1> QED BY <1>1, <1>2

(***************************************************************************)
(* What is settled in a led term is what was seen committed.               *)
(***************************************************************************)
LEMMA SettledIsCommitted ==
    ASSUME TypeOK, NEW H \in History, LogInv(H), AckInv(H), CommittedIsSettled(H),
           NEW t \in LedTerms, NEW c \in Nat, Settles(H, t, c),
           NEW k \in 1..c, k <= Len(committed)
    PROVE  k \in 1..Len(H[t]) /\ H[t][k] = committed[k].entry
<1>1. Len(committed) \in Nat
  BY DEF TypeOK
<1> DEFINE u == committed[k].term
<1>2. /\ u \in LedTerms /\ k <= Len(H[u])
      /\ H[u][k] = committed[k].entry /\ Settles(H, u, k)
  <2>1. k \in 1..Len(committed)
    BY <1>1
  <2> QED BY <2>1 DEF CommittedIsSettled
<1> HIDE DEF u
<1>3. PICK s \in LedTerms : s <= t /\ \E j \in 1..Len(H[s]) : c <= j /\ Chosen(H, s, j)
  BY DEF Settles
<1>4. PICK j \in 1..Len(H[s]) : c <= j /\ Chosen(H, s, j)
  BY <1>3
<1>5. PICK x \in LedTerms : x <= u /\ \E i \in 1..Len(H[x]) : k <= i /\ Chosen(H, x, i)
  BY <1>2 DEF Settles
<1>6. PICK i \in 1..Len(H[x]) : k <= i /\ Chosen(H, x, i)
  BY <1>5
<1>7. /\ t \in Nat /\ Len(H[t]) \in Nat /\ u \in Nat /\ Len(H[u]) \in Nat
      /\ s \in Nat /\ Len(H[s]) \in Nat /\ x \in Nat /\ Len(H[x]) \in Nat
  BY <1>2, LedLog
<1>8. /\ j \in Nat /\ SameUpTo(H[t], H[s], j)
      /\ i \in Nat /\ SameUpTo(H[u], H[x], i)
  BY <1>2, <1>3, <1>4, <1>5, <1>6, ChosenIsShared
<1>9. H[s][k] = H[x][k]
  <2>1. CASE s <= x
    <3>1. SameUpTo(H[x], H[s], j)
      BY <1>4, <2>1, ChosenIsShared
    <3> QED BY <1>4, <1>7, <1>8, <3>1 DEF SameUpTo
  <2>2. CASE x <= s
    <3>1. SameUpTo(H[s], H[x], i)
      BY <1>6, <2>2, ChosenIsShared
    <3> QED BY <1>6, <1>7, <1>8, <3>1 DEF SameUpTo
  <2> QED BY <1>7, <2>1, <2>2
<1>10. k <= Len(H[t]) /\ H[t][k] = H[s][k]
  BY <1>4, <1>7, <1>8 DEF SameUpTo
<1>11. H[u][k] = H[x][k]
  BY <1>6, <1>7, <1>8 DEF SameUpTo
<1> QED BY <1>2, <1>7, <1>9, <1>10, <1>11

---------------------------------------------------------------------------
(***************************************************************************)
(* What a step of server i, in the history H, is to the logs and to what   *)
(* is committed, whichever action it is: p is its record after the step.   *)
(***************************************************************************)
Inv(H) == /\ VoteInv /\ ConfigInv
          /\ LogInv(H) /\ AckInv(H) /\ CommitInv(H) /\ RequestInv(H)

\* The log keeps what it shares with that of the leader of the new term.
Keeps(H, n, p) ==
    \A k \in 0..Len(n.log) :
        \/ SameUpTo(n.log, p.log, k)
        \/ p.term \in LedTerms /\ ~SameUpTo(n.log, H[p.term], k)

\* The new term is one the server stands in for election.
Campaigning(n, p) ==
    /\ p.log = n.log
    /\ \/ n.role = "candidate" /\ p.term = n.term
       \/ p.term = n.term + 1

\* The server goes on leading, and may append an entry of its term.
LeadsOn(n, p) ==
    /\ n.role = "leader" /\ p.term = n.term
    /\ \/ p.log = n.log
       \/ \E x \in Entry : x.term = n.term /\ Extends(n.log, x, p.log)

\* A grant is for a candidate that has what its voter acknowledged.
WellGranted(H, i, r) ==
    /\ r.term <= node[r.dst].term
    /\ node[r.dst].role = "candidate" /\ node[r.dst].term = r.term =>
           Carries(H, node[r.dst].log, i, r.term, r.term)

SaysTruly(H, i, p, r) ==
    /\ r.src = i /\ r.dst # i /\ r.term = p.term /\ r.type # "InstallSnapshot"
    /\ r.type \in {"AppendEntries", "ReadHeartbeat"} => p.role = "leader"
    /\ r.type = "AppendEntries" => StretchOf(p.log, r) /\ r.leader_commit = p.commit_index
    /\ r.type = "RequestVote" =>
           r.last_log_index = Len(p.log) /\ r.last_log_term = LastTerm(p.log)
    /\ IsAck(r) => /\ p.role = "follower" /\ p.term \in LedTerms
                   /\ SameUpTo(p.log, H[p.term], r.match_index)
    /\ IsGrant(r) => WellGranted(H, i, r)

LogStep(H, i, p, out) ==
    /\ node[i].term <= p.term
    /\ Bare(p)
    /\ Keeps(H, node[i], p)
    /\ \A k \in 1..Len(p.log) : p.log[k].term <= p.term
    /\ p.role # "leader" => Backed(H, p.log)
    /\ p.role = "candidate" => Campaigning(node[i], p)
    /\ p.role = "leader" => LeadsOn(node[i], p) \/ Campaigning(node[i], p)
    /\ \A r \in out : SaysTruly(H, i, p, r)

CommitStep(H, i, p) ==
    /\ Applied(p)
    /\ Settles(H, p.term, p.commit_index)
    /\ \A k \in 1..p.commit_index : k <= Len(committed) => p.log[k] = committed[k].entry
    /\ p.commit_index > Len(committed) =>
           p.term \in LedTerms /\ SameUpTo(p.log, H[p.term], p.commit_index)
    /\ Bookkeeping(i, p)

\* Every request in a log is that of a client.
ClientsOwn(log) ==
    \A k \in 1..Len(log) : ~IsConfig(log[k].command) => log[k].command.client \in Client

RequestStep(p) ==
    p.role = "leader" =>
        /\ OncePerLog(p.log)
        /\ ClientsOwn(p.log)
        /\ Indexed(p)

SafeStep(H, i, e) ==
    LogStep(H, i, e.node, e.out) /\ CommitStep(H, i, e.node) /\ RequestStep(e.node)

---------------------------------------------------------------------------
(* What holds of every server before a step. *)

LEMMA ServerFacts ==
    ASSUME NEW H \in History, Inv(H), NEW i \in Node
    PROVE  /\ TypeOK /\ node[i] \in NodeState /\ node[i].term \in Nat
           /\ node[i].log \in Seq(Entry) /\ Len(node[i].log) \in Nat
           /\ node[i].commit_index \in Nat /\ Len(committed) \in Nat
           /\ ServerLog(H, i, node[i]) /\ AppliedIsCommitted(H, node[i])
           /\ Bookkeeping(i, node[i]) /\ Ready(node[i])
<1>1. TypeOK /\ node[i] \in NodeState /\ Len(committed) \in Nat
  BY DEF Inv, VoteInv, TypeOK
<1>2. /\ node[i].term \in Nat /\ node[i].log \in Seq(Entry) /\ Len(node[i].log) \in Nat
      /\ node[i].commit_index \in Nat
  BY <1>1 DEF NodeState
<1>3. /\ ServerLog(H, i, node[i]) /\ AppliedIsCommitted(H, node[i])
      /\ Bookkeeping(i, node[i])
  BY DEF Inv, LogInv, CommitInv
<1>4. Ready(node[i])
  BY <1>3 DEF ServerLog, AppliedIsCommitted, Bookkeeping, Ready, InRange
<1> QED BY <1>1, <1>2, <1>3, <1>4

LEMMA LeaderFacts ==
    ASSUME NEW H \in History, Inv(H), NEW i \in Node, node[i].role = "leader"
    PROVE  node[i].term \in LedTerms /\ H[node[i].term] = node[i].log
<1>1. <<node[i].term, i>> \in leaders /\ H[node[i].term] = node[i].log
  BY ServerFacts DEF ServerLog, Inv, VoteInv
<1> QED BY <1>1 DEF LedTerms

\* A log of the leaders' entries has none of them twice.
LEMMA BackedOnce ==
    ASSUME NEW H \in History, Inv(H), NEW log \in Seq(Entry), Backed(H, log)
    PROVE  OncePerLog(log) /\ ClientsOwn(log)
<1>1. CASE Len(log) = 0
  BY <1>1 DEF OncePerLog, ClientsOwn
<1>2. CASE Len(log) # 0
  <2> DEFINE t == log[Len(log)].term
             L == H[t]
  <2>1. Len(log) \in 1..Len(log)
    BY <1>2
  <2>2. t \in LedTerms /\ SameUpTo(log, L, Len(log))
    BY <2>1 DEF Backed
  <2>3. OncePerLog(L) /\ ClientsOwn(L)
    BY <2>2 DEF Inv, RequestInv, ClientsOwn
  <2> HIDE DEF L
  <2>4. \A k \in 1..Len(log) : k \in 1..Len(L) /\ log[k] = L[k]
    BY <2>1, <2>2 DEF SameUpTo
  <2> QED BY <2>3, <2>4 DEF OncePerLog, ClientsOwn
<1> QED BY <1>1, <1>2

\* A server whose log is as it was.
LEMMA SameLogKeeps ==
    ASSUME NEW H \in History, Inv(H), NEW i \in Node, NEW p, p.log = node[i].log,
           p.snapshot = node[i].snapshot, p.term \in Nat, node[i].term <= p.term
    PROVE  /\ Bare(p) /\ Keeps(H, node[i], p) /\ Backed(H, p.log)
           /\ \A k \in 1..Len(p.log) : p.log[k].term <= p.term
<1>1. /\ Bare(node[i]) /\ Backed(H, node[i].log)
      /\ \A k \in 1..Len(node[i].log) : node[i].log[k].term <= node[i].term
  BY ServerFacts DEF ServerLog
<1>2. node[i].term \in Nat /\ node[i].log \in Seq(Entry) /\ Len(node[i].log) \in Nat
  BY ServerFacts
<1>3. \A k \in 1..Len(node[i].log) : node[i].log[k].term \in Int
  <2>1. \A k \in 1..Len(node[i].log) : node[i].log[k] \in Entry
    BY <1>2
  <2> QED BY <2>1 DEF Entry
<1>4. \A k \in 1..Len(p.log) : p.log[k].term <= p.term
  BY <1>1, <1>2, <1>3
<1>5. Keeps(H, node[i], p)
  BY <1>2 DEF Keeps, SameUpTo
<1> QED BY <1>1, <1>4, <1>5 DEF Bare

\* A server that applies nothing and whose log is as it was.
LEMMA IdleCommits ==
    ASSUME NEW H \in History, Inv(H), NEW i \in Node, NEW p, Idles(node[i], p),
           p.term \in Nat, node[i].term <= p.term, Bookkeeping(i, p)
    PROVE  CommitStep(H, i, p)
<1>1. AppliedIsCommitted(H, node[i]) /\ TypeOK
      /\ node[i].commit_index \in Nat /\ node[i].term \in Nat /\ Len(committed) \in Nat
  BY ServerFacts
<1>2. Applied(p)
  BY <1>1 DEF AppliedIsCommitted, Applied, Idles
<1>3. Settles(H, p.term, p.commit_index)
  <2>1. Settles(H, node[i].term, node[i].commit_index)
    BY <1>1 DEF AppliedIsCommitted
  <2>2. node[i].commit_index <= node[i].commit_index
    BY <1>1
  <2>3. Settles(H, p.term, node[i].commit_index)
    BY <1>1, <2>1, <2>2, SettlesDown
  <2> QED BY <2>3 DEF Idles
<1>4. /\ p.commit_index <= Len(committed)
      /\ \A k \in 1..p.commit_index : p.log[k] = committed[k].entry
  BY <1>1 DEF AppliedIsCommitted, Idles
<1>5. ~(p.commit_index > Len(committed))
  BY <1>1, <1>4 DEF Idles
<1> QED BY <1>2, <1>3, <1>4, <1>5 DEF CommitStep

---------------------------------------------------------------------------
(* Steps that leave the log alone. *)

LEMMA SpeaksTruly ==
    ASSUME NEW H, NEW i, NEW p, NEW r, Speaks(i, p, r), ~IsGrant(r)
    PROVE  SaysTruly(H, i, p, r)
BY DEF Speaks, SaysTruly

LEMMA LeadingKnows ==
    ASSUME NEW H \in History, Inv(H), NEW i \in Node, NEW p,
           p.role = "leader" => /\ node[i].role = "leader" /\ p.log = node[i].log
                                /\ p.client_index = node[i].client_index
    PROVE  RequestStep(p)
<1> SUFFICES ASSUME p.role = "leader" PROVE RequestStep(p)
  BY DEF RequestStep
<1>1. node[i].log \in Seq(Entry) /\ Backed(H, node[i].log)
  BY ServerFacts DEF ServerLog
<1>2. OncePerLog(node[i].log) /\ ClientsOwn(node[i].log)
  BY <1>1, BackedOnce
<1>3. Indexed(node[i])
  BY DEF Inv, RequestInv
<1> QED BY <1>2, <1>3 DEF RequestStep, Indexed

\* A leader that knows of the others what it knew.
LEMMA SameBookkeeping ==
    ASSUME NEW i, NEW n, NEW p, Bookkeeping(i, n),
           p.role = "leader" => /\ n.role = "leader" /\ p.term = n.term /\ p.log = n.log
                                /\ p.match_index = n.match_index /\ InRange(p)
    PROVE  Bookkeeping(i, p)
BY DEF Bookkeeping, InRange

LEMMA RestsIsSafe ==
    ASSUME NEW H \in History, Inv(H), NEW i \in Node, NEW e, e.node \in NodeState,
           Rests(i, node[i], e)
    PROVE  SafeStep(H, i, e)
<1> DEFINE p == e.node
<1>1. p.term \in Nat /\ node[i].term <= p.term /\ Idles(node[i], p) /\ Remains(node[i], p)
  BY DEF NodeState, Rests, Remains
<1>2. \A r \in e.out : SaysTruly(H, i, p, r)
  BY SpeaksTruly DEF Rests
<1> HIDE DEF p
<1>3. /\ p.log = node[i].log /\ p.snapshot = node[i].snapshot
      /\ p.role # "follower" =>
            /\ p.role = node[i].role /\ p.term = node[i].term
            /\ p.match_index = node[i].match_index /\ p.client_index = node[i].client_index
            /\ p.role = "leader" => InRange(p)
  BY <1>1 DEF Idles, Remains
<1>4. LogStep(H, i, p, e.out)
  <2>1. /\ Bare(p) /\ Keeps(H, node[i], p) /\ Backed(H, p.log)
        /\ \A k \in 1..Len(p.log) : p.log[k].term <= p.term
    BY <1>1, <1>3, SameLogKeeps
  <2> QED BY <1>1, <1>2, <1>3, <2>1 DEF LogStep, Campaigning, LeadsOn
<1>5. CommitStep(H, i, p)
  <2>1. Bookkeeping(i, node[i])
    BY ServerFacts
  <2>2. Bookkeeping(i, p)
    BY <1>3, <2>1, SameBookkeeping
  <2> QED BY <1>1, <2>2, IdleCommits
<1>6. RequestStep(p)
  BY <1>3, LeadingKnows
<1> QED BY <1>4, <1>5, <1>6 DEF SafeStep, p

\* The voter's log is not ahead of that of the candidate, so the candidate has
\* what the voter acknowledged, unless a leader in between had not.
LEMMA GrantCarries ==
    ASSUME NEW H \in History, Inv(H), NEW i \in Node, NEW j \in Node,
           NEW m, node[j].role = "candidate", m.term = node[j].term,
           m.last_log_index = Len(node[j].log), m.last_log_term = LastTerm(node[j].log),
           node[i].term <= m.term, KnowsLess(node[i].log, m)
    PROVE  Carries(H, node[j].log, i, m.term, m.term)
<1> DEFINE N == node[i].log
           L == node[j].log
           u == m.term
<1>1. /\ N \in Seq(Entry) /\ Len(N) \in Nat /\ Backed(H, N) /\ node[i].term \in Nat
      /\ L \in Seq(Entry) /\ Len(L) \in Nat /\ Backed(H, L) /\ u \in Nat
      /\ \A k \in 1..Len(L) : L[k].term <= u
      /\ TypeOK /\ LeadersLogs(H)
  BY ServerFacts DEF ServerLog, Inv, LogInv
<1> SUFFICES ASSUME NEW t \in LedTerms, NEW k \in 1..Len(H[t]), t < u, Acked(H, i, t, k)
             PROVE  Holds(L, t, k) \/ Overtaken(H, t, k, u)
  BY DEF Carries
<1>2. LedTerms \subseteq Nat
  BY <1>1, TermsAreNumbers
<1>3. Holds(N, t, k) \/ Overtaken(H, t, k, node[i].term)
  BY DEF Inv, AckInv, AcksAreKept
<1>4. CASE Overtaken(H, t, k, node[i].term)
  BY <1>1, <1>2, <1>4 DEF Overtaken
<1>5. CASE Holds(N, t, k)
  <2> DEFINE a == LastTerm(L)
             b == LastTerm(N)
  <2>1. k \in 1..Len(N) /\ N[k].term = t /\ Len(N) \in 1..Len(N) /\ b = N[Len(N)].term
    BY <1>1, <1>5 DEF Holds, LastTerm
  <2>2. b \in LedTerms /\ SameUpTo(N, H[b], Len(N)) /\ t <= b
    <3>1. t <= b
      BY <1>1, <2>1, SortedLog
    <3> QED BY <1>1, <2>1, <3>1 DEF Backed
  <2>3. a > b \/ (a = b /\ Len(L) >= Len(N))
    BY DEF KnowsLess
  <2>4. L # <<>>
    <3> SUFFICES ASSUME L = <<>> PROVE FALSE
      OBVIOUS
    <3>1. a = 0 /\ Len(L) = 0
      BY DEF LastTerm
    <3>2. b \in Nat
      BY <1>2, <2>2
    <3>3. Len(N) >= 1
      BY <2>1
    <3> HIDE DEF a, b, N, L
    <3> QED BY <1>1, <2>3, <3>1, <3>2, <3>3
  <2>5. Len(L) \in 1..Len(L) /\ a = L[Len(L)].term
    BY <1>1, <2>4 DEF LastTerm
  <2>6. a \in LedTerms /\ SameUpTo(L, H[a], Len(L)) /\ a <= u
    BY <1>1, <2>5 DEF Backed
  <2>7. /\ a \in Nat /\ b \in Nat /\ t \in Nat
        /\ H[a] \in Seq(Entry) /\ Len(H[a]) \in Nat
    BY <1>1, <1>2, <2>2, <2>6, LedLog
  <2> HIDE DEF a, b, N, L, u
  <2>8. CASE a = b /\ Len(L) >= Len(N)
    <3>1. k \in 1..Len(L) /\ L[k] = N[k]
      <4>1. L[k] = H[a][k] /\ k \in 1..Len(L)
        BY <1>1, <2>1, <2>6, <2>8 DEF SameUpTo
      <4>2. N[k] = H[b][k]
        BY <1>1, <2>1, <2>2 DEF SameUpTo
      <4> QED BY <2>8, <4>1, <4>2
    <3> QED BY <2>1, <3>1 DEF Holds
  <2>9. CASE a > b
    <3>1. CASE ~Holds(H[a], t, k)
      <4>1. t < a
        BY <2>2, <2>7, <2>9
      <4> QED BY <2>6, <3>1, <4>1 DEF Overtaken
    <3>2. CASE Holds(H[a], t, k)
      <4>1. k \in 1..Len(H[a]) /\ H[a][k].term = t
        BY <3>2 DEF Holds
      <4>2. Len(L) \in 1..Len(H[a]) /\ H[a][Len(L)].term = a
        BY <2>5, <2>6, <2>7 DEF SameUpTo
      <4>3. k < Len(L)
        <5> SUFFICES ASSUME Len(L) <= k PROVE FALSE
          BY <1>1, <4>1
        <5>1. H[a][Len(L)].term <= H[a][k].term
          BY <1>1, <2>6, <4>1, <4>2 DEF LeadersLogs
        <5> QED BY <2>2, <2>7, <2>9, <4>1, <4>2, <5>1
      <4>4. k \in 1..Len(L) /\ L[k] = H[a][k]
        BY <1>1, <2>6, <4>1, <4>3 DEF SameUpTo
      <4> QED BY <4>1, <4>4 DEF Holds
    <3> QED BY <3>1, <3>2
  <2> QED BY <2>3, <2>8, <2>9
<1> QED BY <1>3, <1>4, <1>5

LEMMA VotesIsSafe ==
    ASSUME NEW H \in History, Inv(H), NEW i \in Node, NEW e, e.node \in NodeState,
           NEW m \in msgs, m.type = "RequestVote", Votes(i, node[i], m, e)
    PROVE  SafeStep(H, i, e)
<1> DEFINE p == e.node
           quiet == {r \in e.out : ~IsGrant(r)}
<1>1. p.term \in Nat /\ node[i].term \in Nat /\ node[i].term <= p.term
  BY ServerFacts DEF NodeState, Votes, Remains
<1>2. SafeStep(H, i, Effect(p, quiet, {}))
  <2>1. Rests(i, node[i], Effect(p, quiet, {}))
    BY DEF Rests, Votes, Effect
  <2>2. Effect(p, quiet, {}).node \in NodeState
    BY DEF Effect
  <2> QED BY <2>1, <2>2, RestsIsSafe
<1>3. ASSUME NEW r \in e.out, IsGrant(r) PROVE SaysTruly(H, i, p, r)
  <2>1. Speaks(i, p, r) /\ r.dst = m.src /\ r.term = m.term /\ KnowsLess(node[i].log, m)
    BY <1>3 DEF Votes
  <2>2. m.src \in Node /\ m.term \in Nat
    BY DEF Inv, VoteInv, TypeOK, Message
  <2>3. TrueRequest(node[m.src], m)
    BY DEF Inv, LogInv, MessageIsTrue
  <2>4. WellGranted(H, i, r)
    <3>1. r.term <= node[r.dst].term
      BY <2>1, <2>3 DEF TrueRequest
    <3>2. ASSUME node[m.src].role = "candidate", node[m.src].term = m.term
          PROVE  Carries(H, node[m.src].log, i, m.term, m.term)
      <4>1. m.last_log_index = Len(node[m.src].log) /\ m.last_log_term = LastTerm(node[m.src].log)
        BY <2>3, <3>2 DEF TrueRequest
      <4>2. node[i].term <= m.term
        BY <1>1, <2>1 DEF Speaks
      <4> QED BY <2>1, <2>2, <3>2, <4>1, <4>2, GrantCarries
    <3> QED BY <2>1, <3>1, <3>2 DEF WellGranted
  <2>5. r.type = "VoteReply"
    BY <1>3 DEF IsGrant
  <2> QED BY <2>1, <2>4, <2>5 DEF Speaks, SaysTruly
<1>4. \A r \in quiet : SaysTruly(H, i, p, r)
  BY <1>2 DEF SafeStep, LogStep, Effect
<1>5. \A r \in e.out : SaysTruly(H, i, p, r)
  BY <1>3, <1>4
<1>6. LogStep(H, i, p, quiet) /\ CommitStep(H, i, p) /\ RequestStep(p)
  BY <1>2 DEF SafeStep, Effect
<1> HIDE DEF p, quiet
<1>7. LogStep(H, i, p, e.out)
  BY <1>5, <1>6 DEF LogStep
<1> QED BY <1>6, <1>7 DEF SafeStep, p

LEMMA CompetesIsSafe ==
    ASSUME NEW H \in History, Inv(H), NEW i \in Node, NEW e, e.node \in NodeState,
           Competes(i, node[i], e)
    PROVE  SafeStep(H, i, e)
<1> DEFINE p == e.node
<1>0. node[i].term \in Nat
  BY ServerFacts
<1>1. /\ Idles(node[i], p) /\ p.log = node[i].log /\ p.snapshot = node[i].snapshot
      /\ p.term \in Nat /\ node[i].term <= p.term /\ Campaigning(node[i], p)
      /\ p.log \in Seq(Entry) /\ Len(p.log) \in Nat
      /\ p.role = "leader" => InOffice(i, p)
  <2>1. /\ Idles(node[i], p) /\ p.log = node[i].log /\ p.snapshot = node[i].snapshot
        /\ p.role = "leader" => InOffice(i, p)
    BY DEF Competes, Idles
  <2>2. p.term \in Nat /\ p.log \in Seq(Entry) /\ Len(p.log) \in Nat
    BY DEF NodeState
  <2>3. node[i].term <= p.term
    BY <1>0 DEF Competes
  <2>4. Campaigning(node[i], p)
    BY <2>1 DEF Competes, Campaigning
  <2> QED BY <2>1, <2>2, <2>3, <2>4
<1>2. \A r \in e.out : SaysTruly(H, i, p, r)
  <2> SUFFICES ASSUME NEW r \in e.out PROVE SaysTruly(H, i, p, r)
    OBVIOUS
  <2>1. (Speaks(i, p, r) \/ Asks(i, p, r)) /\ ~IsGrant(r)
    BY DEF Competes
  <2>2. Asks(i, p, r) => SaysTruly(H, i, p, r)
    BY DEF Asks, SaysTruly, IsAck, IsGrant
  <2> QED BY <2>1, <2>2, SpeaksTruly
<1> HIDE DEF p
<1>3. /\ Bare(p) /\ Keeps(H, node[i], p) /\ Backed(H, p.log)
      /\ \A k \in 1..Len(p.log) : p.log[k].term <= p.term
  BY <1>1, SameLogKeeps
<1>4. LogStep(H, i, p, e.out)
  BY <1>1, <1>2, <1>3 DEF LogStep
<1>5. CommitStep(H, i, p)
  <2>1. Bookkeeping(i, p)
    BY <1>1 DEF Bookkeeping, InOffice
  <2> QED BY <1>1, <2>1, IdleCommits
<1>6. RequestStep(p)
  <2>1. OncePerLog(p.log) /\ ClientsOwn(p.log)
    BY <1>1, <1>3, BackedOnce
  <2> QED BY <1>1, <2>1 DEF RequestStep, Indexed, InOffice, ClientsOwn
<1> QED BY <1>4, <1>5, <1>6 DEF SafeStep, p

LEMMA CrashesIsSafe ==
    ASSUME NEW H \in History, Inv(H), NEW i \in Node, NEW e, e.node \in NodeState,
           Crashes(node[i], e)
    PROVE  SafeStep(H, i, e)
<1> DEFINE p == e.node
<1>1. /\ p.log = node[i].log /\ p.snapshot = node[i].snapshot /\ p.term = node[i].term
      /\ p.role = "follower" /\ p.commit_index = 0 /\ p.machine = <<>> /\ e.out = {}
      /\ p.term \in Nat /\ Len(committed) \in Nat /\ Len(p.log) \in Nat
  BY ServerFacts DEF Crashes
<1> HIDE DEF p
<1>2. /\ Bare(p) /\ Keeps(H, node[i], p) /\ Backed(H, p.log)
      /\ \A k \in 1..Len(p.log) : p.log[k].term <= p.term
  BY <1>1, SameLogKeeps
<1>3. LogStep(H, i, p, e.out)
  BY <1>1, <1>2 DEF LogStep
<1>4. CommitStep(H, i, p)
  BY <1>1 DEF CommitStep, Applied, Settles, Bookkeeping
<1>5. RequestStep(p)
  BY <1>1 DEF RequestStep
<1> QED BY <1>3, <1>4, <1>5 DEF SafeStep, p

---------------------------------------------------------------------------
(* Steps that change the log or commit. *)

\* A leader that appends an entry leaves what it has committed alone.
LEMMA AppendsEntrySafely ==
    ASSUME NEW H \in History, Inv(H), NEW i \in Node, NEW e, e.node \in NodeState,
           NEW command \in Command, AppendsEntry(i, node[i], command, e.node),
           \A r \in e.out : Speaks(i, e.node, r) /\ ~IsGrant(r)
    PROVE  LogStep(H, i, e.node, e.out) /\ CommitStep(H, i, e.node)
<1> DEFINE n == node[i]
           p == e.node
<1>1. /\ n \in NodeState /\ n.term \in Nat /\ n.log \in Seq(Entry) /\ Len(n.log) \in Nat
      /\ n.commit_index \in Nat /\ Len(committed) \in Nat
      /\ ServerLog(H, i, n) /\ AppliedIsCommitted(H, n) /\ Bookkeeping(i, n)
  BY ServerFacts
<1> DEFINE x == [term |-> n.term, command |-> command]
<1>2. /\ n.role = "leader" /\ p.role = "leader" /\ p.term = n.term
      /\ p.snapshot = n.snapshot /\ p.commit_index = n.commit_index /\ p.machine = n.machine
      /\ InRange(p)
      /\ \A v \in Node : \/ p.match_index[v] = n.match_index[v]
                         \/ v = i /\ p.match_index[v] <= Len(p.log)
  BY DEF AppendsEntry
<1>5. x \in Entry /\ x.term = n.term
  BY <1>1 DEF Entry
<1>6. Extends(n.log, x, p.log)
  BY DEF AppendsEntry
<1>8. /\ Bare(n) /\ Backed(H, n.log) /\ \A k \in 1..Len(n.log) : n.log[k].term <= n.term
  BY <1>1 DEF ServerLog
<1>10. \A q \in e.out : SaysTruly(H, i, p, q)
  BY SpeaksTruly
<1> HIDE DEF n, p, x
<1>11. /\ Len(p.log) = Len(n.log) + 1 /\ p.log[Len(n.log) + 1] = x
       /\ \A k \in 1..Len(n.log) : p.log[k] = n.log[k]
  BY <1>6 DEF Extends
<1>12. LogStep(H, i, p, e.out)
  <2>1. Keeps(H, n, p)
    <3>1. ASSUME NEW k \in 0..Len(n.log) PROVE SameUpTo(n.log, p.log, k)
      BY <1>1, <1>11 DEF SameUpTo
    <3> QED BY <3>1 DEF Keeps
  <2>2. ASSUME NEW k \in 1..Len(p.log) PROVE p.log[k].term <= p.term
    <3>1. CASE k = Len(n.log) + 1
      BY <1>1, <1>2, <1>5, <1>11, <3>1
    <3>2. CASE k # Len(n.log) + 1
      <4>1. k \in 1..Len(n.log)
        BY <1>1, <1>11, <3>2
      <4> QED BY <1>2, <1>8, <1>11, <4>1
    <3> QED BY <3>1, <3>2
  <2>3. LeadsOn(n, p)
    BY <1>2, <1>5, <1>6 DEF LeadsOn
  <2>4. Bare(p) /\ n.term <= p.term
    BY <1>1, <1>2, <1>8 DEF Bare
  <2> QED BY <1>2, <1>10, <2>1, <2>2, <2>3, <2>4 DEF LogStep, n
<1>13. CommitStep(H, i, p)
  <2>1. /\ Applied(n) /\ n.commit_index <= Len(committed) /\ Settles(H, n.term, n.commit_index)
        /\ \A k \in 1..n.commit_index : n.log[k] = committed[k].entry
        /\ Len(n.machine) = n.commit_index /\ n.commit_index <= Len(n.log)
        /\ \A k \in 1..n.commit_index : n.machine[k] = n.log[k]
    BY <1>1 DEF AppliedIsCommitted, Applied
  <2>2. \A k \in 1..n.commit_index : p.log[k] = n.log[k]
    BY <1>1, <1>11, <2>1
  <2>3. Applied(p)
    BY <1>1, <1>2, <1>11, <2>1, <2>2 DEF Applied
  <2>4. Bookkeeping(i, p)
    <3> SUFFICES ASSUME NEW v \in Node
                 PROVE  \/ p.match_index[v] = 0
                        \/ v = i /\ p.match_index[v] <= Len(p.log)
                        \/ \E m \in msgs : IsAck(m) /\ m.src = v /\ m.term = p.term
                                             /\ p.match_index[v] <= m.match_index
      BY <1>2 DEF Bookkeeping, InRange
    <3>1. \/ n.match_index[v] = 0
          \/ v = i /\ n.match_index[v] <= Len(n.log)
          \/ \E m \in msgs : IsAck(m) /\ m.src = v /\ m.term = n.term
                               /\ n.match_index[v] <= m.match_index
      BY <1>1, <1>2 DEF Bookkeeping
    <3>2. n.match_index[v] \in Nat
      BY <1>1 DEF NodeState
    <3>3. n.match_index[v] <= Len(n.log) => n.match_index[v] <= Len(p.log)
      BY <1>1, <1>11, <3>2
    <3>4. \/ p.match_index[v] = n.match_index[v]
          \/ v = i /\ p.match_index[v] <= Len(p.log)
      BY <1>2
    <3> QED BY <1>2, <3>1, <3>3, <3>4
  <2>5. \A k \in 1..p.commit_index : p.log[k] = committed[k].entry
    BY <1>2, <2>1, <2>2
  <2>6. ~(p.commit_index > Len(committed))
    BY <1>1, <1>2, <2>1
  <2> QED BY <1>2, <2>1, <2>3, <2>4, <2>5, <2>6 DEF CommitStep
<1> QED BY <1>12, <1>13 DEF p

LEMMA AppendsIsSafe ==
    ASSUME NEW H \in History, Inv(H), NEW i \in Node, NEW e, e.node \in NodeState,
           Appends(i, node[i], e)
    PROVE  SafeStep(H, i, e)
<1> DEFINE n == node[i]
           p == e.node
<1>1. /\ n \in NodeState /\ n.term \in Nat /\ n.log \in Seq(Entry) /\ Len(n.log) \in Nat
      /\ Backed(H, n.log)
  BY ServerFacts DEF ServerLog
<1>2. \A r \in e.out : Speaks(i, p, r) /\ ~IsGrant(r)
  BY DEF Appends
<1>3. PICK c \in Client : \E r \in Nat :
          /\ r > n.client_index[c]
          /\ AppendsEntry(i, n, ClientCommand(c, r), p)
          /\ p.client_index = [n.client_index EXCEPT ![c] = r]
  BY DEF Appends
<1>4. PICK r \in Nat :
          /\ r > n.client_index[c]
          /\ AppendsEntry(i, n, ClientCommand(c, r), p)
          /\ p.client_index = [n.client_index EXCEPT ![c] = r]
  BY <1>3
<1> DEFINE x == [term |-> n.term, command |-> ClientCommand(c, r)]
<1>5. x.term = n.term /\ x.command.client = c /\ x.command.req = r /\ ~IsConfig(x.command)
  BY DEF ClientCommand, IsConfig
<1>6. /\ Extends(n.log, x, p.log) /\ n.role = "leader" /\ p.role = "leader"
  BY <1>4 DEF AppendsEntry
<1>7. n.client_index \in [Client -> Int]
  BY <1>1 DEF NodeState
<1>9. OncePerLog(n.log) /\ ClientsOwn(n.log) /\ Indexed(n)
  BY <1>1, <1>6, BackedOnce DEF Inv, RequestInv
<1>10. LogStep(H, i, p, e.out) /\ CommitStep(H, i, p)
  <2>1. ClientCommand(c, r) \in Command
    BY DEF ClientCommand, Command
  <2> QED BY <1>2, <1>4, <2>1, AppendsEntrySafely
<1> HIDE DEF n, p, x
<1>11. /\ Len(p.log) = Len(n.log) + 1 /\ p.log[Len(n.log) + 1] = x
       /\ \A k \in 1..Len(n.log) : p.log[k] = n.log[k]
  BY <1>6 DEF Extends
<1>14. RequestStep(p)
  <2>1. \A k \in 1..Len(n.log) : ~IsConfig(n.log[k].command) =>
            n.log[k].command.req <= n.client_index[n.log[k].command.client]
    BY <1>9 DEF Indexed
  <2>2. \A k \in 1..Len(n.log) : n.log[k].command # x.command
    <3> SUFFICES ASSUME NEW k \in 1..Len(n.log), n.log[k].command = x.command PROVE FALSE
      OBVIOUS
    <3>1. r <= n.client_index[c]
      BY <1>5, <2>1
    <3>2. r > n.client_index[c] /\ n.client_index[c] \in Int
      BY <1>4, <1>7 DEF n
    <3> QED BY <3>1, <3>2
  <2>3. ASSUME NEW j \in 1..Len(p.log), NEW k \in 1..Len(p.log),
               p.log[j].command = p.log[k].command, ~IsConfig(p.log[j].command)
        PROVE  j = k
    <3>1. j = Len(n.log) + 1 \/ j \in 1..Len(n.log)
      BY <1>1, <1>11
    <3>2. k = Len(n.log) + 1 \/ k \in 1..Len(n.log)
      BY <1>1, <1>11
    <3> QED BY <1>9, <1>11, <2>2, <2>3, <3>1, <3>2 DEF OncePerLog
  <2>4. ASSUME NEW k \in 1..Len(p.log), ~IsConfig(p.log[k].command)
        PROVE  /\ p.log[k].command.client \in Client
               /\ p.log[k].command.req <= p.client_index[p.log[k].command.client]
    <3>0. p.client_index = [n.client_index EXCEPT ![c] = r]
      BY <1>4 DEF n, p
    <3>1. CASE k = Len(n.log) + 1
      BY <1>5, <1>7, <1>11, <3>0, <3>1
    <3>2. CASE k # Len(n.log) + 1
      <4>1. k \in 1..Len(n.log) /\ p.log[k] = n.log[k]
        BY <1>1, <1>11, <3>2
      <4> DEFINE d == n.log[k].command.client
                 q == n.log[k].command.req
      <4>2. d \in Client /\ q <= n.client_index[d]
        BY <1>9, <2>1, <2>4, <4>1 DEF ClientsOwn
      <4>3. q \in Nat
        <5>1. n.log[k] \in Entry
          BY <1>1, <4>1
        <5> QED BY <5>1 DEF Entry, Command
      <4>4. q <= p.client_index[d]
        <5>1. CASE d = c
          <6>1. r > n.client_index[c] /\ n.client_index[c] \in Int
            BY <1>4, <1>7 DEF n
          <6>2. p.client_index[d] = r
            BY <1>7, <3>0, <5>1
          <6> QED BY <4>2, <4>3, <5>1, <6>1, <6>2
        <5>2. CASE d # c
          BY <1>7, <3>0, <4>2, <5>2
        <5> QED BY <5>1, <5>2
      <4> QED BY <4>1, <4>2, <4>4
    <3> QED BY <3>1, <3>2
  <2> QED BY <2>3, <2>4 DEF RequestStep, OncePerLog, Indexed, ClientsOwn
<1> QED BY <1>10, <1>14 DEF SafeStep, p

LEMMA ReconfiguresIsSafe ==
    ASSUME NEW H \in History, Inv(H), NEW i \in Node, NEW e, e.node \in NodeState,
           Reconfigures(i, node[i], e)
    PROVE  SafeStep(H, i, e)
<1> DEFINE n == node[i]
           p == e.node
<1>1. n.log \in Seq(Entry) /\ Len(n.log) \in Nat /\ Backed(H, n.log)
  BY ServerFacts DEF ServerLog
<1>2. \A r \in e.out : Speaks(i, p, r) /\ ~IsGrant(r)
  BY DEF Reconfigures
<1>3. PICK V \in SUBSET Node : /\ i \in V
                              /\ AppendsEntry(i, n, encode_config(V), p)
                              /\ p.client_index = n.client_index
  BY DEF Reconfigures, MayChangeConfig
<1> DEFINE x == [term |-> n.term, command |-> encode_config(V)]
<1>4. encode_config(V) \in Command /\ IsConfig(x.command)
  BY <1>3 DEF encode_config, Command, IsConfig
<1>5. LogStep(H, i, p, e.out) /\ CommitStep(H, i, p)
  BY <1>2, <1>3, <1>4, AppendsEntrySafely
<1>6. Extends(n.log, x, p.log) /\ n.role = "leader"
  BY <1>3 DEF AppendsEntry
<1>7. OncePerLog(n.log) /\ ClientsOwn(n.log) /\ Indexed(n)
  BY <1>1, <1>6, BackedOnce DEF Inv, RequestInv
<1> HIDE DEF n, p, x
<1>8. \A k \in 1..Len(p.log) : ~IsConfig(p.log[k].command) =>
          k \in 1..Len(n.log) /\ p.log[k] = n.log[k]
  <2>1. /\ Len(p.log) = Len(n.log) + 1 /\ p.log[Len(n.log) + 1] = x
        /\ \A k \in 1..Len(n.log) : p.log[k] = n.log[k]
    BY <1>6 DEF Extends
  <2>2. \A k \in 1..Len(p.log) : k = Len(n.log) + 1 \/ k \in 1..Len(n.log)
    BY <1>1, <2>1
  <2> QED BY <1>4, <2>1, <2>2
<1>9. RequestStep(p)
  <2>1. OncePerLog(p.log)
    <3> SUFFICES ASSUME NEW j \in 1..Len(p.log), NEW k \in 1..Len(p.log),
                        p.log[j].command = p.log[k].command, ~IsConfig(p.log[j].command)
                 PROVE  j = k
      BY DEF OncePerLog
    <3>1. /\ j \in 1..Len(n.log) /\ p.log[j] = n.log[j]
          /\ k \in 1..Len(n.log) /\ p.log[k] = n.log[k]
      BY <1>8
    <3> QED BY <1>7, <3>1 DEF OncePerLog
  <2>2. ClientsOwn(p.log)
    BY <1>7, <1>8 DEF ClientsOwn
  <2>3. Indexed(p)
    <3>1. p.client_index = n.client_index
      BY <1>3 DEF n, p
    <3> QED BY <1>7, <1>8, <3>1 DEF Indexed
  <2> QED BY <2>1, <2>2, <2>3 DEF RequestStep
<1> QED BY <1>5, <1>9 DEF SafeStep, p

\* A server shares what it has committed with the leaders of its term and later.
LEMMA CommittedIsShared ==
    ASSUME NEW H \in History, Inv(H), NEW i \in Node, NEW t \in LedTerms, node[i].term <= t
    PROVE  SameUpTo(node[i].log, H[t], node[i].commit_index)
<1> DEFINE n == node[i]
           c == n.commit_index
<1>1. /\ TypeOK /\ n.term \in Nat /\ Len(n.log) \in Nat /\ c \in Nat
      /\ Len(committed) \in Nat /\ AppliedIsCommitted(H, n)
  BY ServerFacts
<1>2. /\ c <= Len(n.log) /\ c <= Len(committed) /\ Settles(H, n.term, c)
      /\ \A k \in 1..c : n.log[k] = committed[k].entry
  BY <1>1 DEF AppliedIsCommitted, Applied
<1>3. t \in Nat /\ Len(H[t]) \in Nat
  BY <1>1, LedLog
<1>4. LogInv(H) /\ AckInv(H) /\ CommittedIsSettled(H)
  BY DEF Inv, CommitInv
<1> HIDE DEF c
<1>5. Settles(H, t, c)
  <2>1. c <= c
    BY <1>1
  <2> QED BY <1>1, <1>2, <1>3, <2>1, SettlesDown
<1>6. ASSUME NEW k \in 1..c PROVE k \in 1..Len(H[t]) /\ n.log[k] = H[t][k]
  <2>1. k <= Len(committed)
    BY <1>1, <1>2
  <2> QED BY <1>1, <1>2, <1>4, <1>5, <2>1, SettledIsCommitted
<1>7. c <= Len(H[t])
  <2>1. CASE c = 0
    BY <1>3, <2>1
  <2>2. CASE c # 0
    <3>1. c \in 1..c
      BY <1>1, <2>2
    <3> QED BY <1>6, <3>1
  <2> QED BY <2>1, <2>2
<1> QED BY <1>2, <1>6, <1>7 DEF SameUpTo, c

\* What a replicating message says of its leader's log.
LEMMA ReplicatedFacts ==
    ASSUME NEW H \in History, Inv(H), NEW m \in msgs, m.type = "AppendEntries"
    PROVE  /\ m.term \in LedTerms /\ m.term \in Nat
           /\ H[m.term] \in Seq(Entry) /\ Len(H[m.term]) \in Nat
           /\ StretchOf(H[m.term], m) /\ Backed(H, H[m.term])
           /\ \A k \in 1..Len(H[m.term]) : H[m.term][k].term <= m.term
           /\ m.prev_index \in Nat /\ m.entries \in Seq(Entry) /\ Match(m) \in Nat
           /\ m.leader_commit \in Nat /\ m.src \in Node /\ m.src # m.dst
           /\ m.leader_commit <= Len(committed) /\ Settles(H, m.term, m.leader_commit)
<1>1. TypeOK /\ m \in Message
  BY DEF Inv, VoteInv, TypeOK
<1>2. m.prev_index \in Nat /\ m.entries \in Seq(Entry) /\ m.leader_commit \in Nat /\ m.src \in Node
  BY <1>1 DEF Message
<1>3. Match(m) \in Nat
  BY <1>2 DEF Match
<1>4. <<m.term, m.src>> \in leaders /\ StretchOf(H[m.term], m) /\ m.src # m.dst
  BY DEF Inv, LogInv, MessageIsTrue
<1>5. m.term \in LedTerms
  BY <1>4 DEF LedTerms
<1>6. /\ Backed(H, H[m.term])
      /\ \A k \in 1..Len(H[m.term]) : H[m.term][k].term <= m.term
  BY <1>5 DEF Inv, LogInv, LeadersLogs
<1>7. m.leader_commit <= Len(committed) /\ Settles(H, m.term, m.leader_commit)
  BY DEF Inv, CommitInv
<1>8. m.term \in Nat /\ H[m.term] \in Seq(Entry) /\ Len(H[m.term]) \in Nat
  BY <1>1, <1>5, LedLog
<1> QED BY <1>2, <1>3, <1>4, <1>5, <1>6, <1>7, <1>8

LEMMA TakenKeepsCommitted ==
    ASSUME NEW H \in History, Inv(H), NEW i \in Node, NEW m \in msgs, m.type = "AppendEntries",
           node[i].term <= m.term, NEW new \in Seq(Entry), TakenFrom(node[i].log, m, new)
    PROVE  SameUpTo(node[i].log, new, node[i].commit_index)
<1>1. SameUpTo(node[i].log, H[m.term], node[i].commit_index)
  BY ReplicatedFacts, CommittedIsShared
<1>2. node[i].log \in Seq(Entry) /\ node[i].commit_index \in Nat
  BY ServerFacts
<1> QED BY <1>1, <1>2, ReplicatedFacts, TakenKeeps

LEMMA TakesIsSafe ==
    ASSUME NEW H \in History, Inv(H), NEW i \in Node, NEW e, e.node \in NodeState,
           NEW m \in msgs, m.dst = i, Takes(i, node[i], m, e)
    PROVE  SafeStep(H, i, e)
<1> DEFINE n == node[i]
           p == e.node
           t == m.term
           L == H[t]
<1>1. /\ TypeOK /\ n.term \in Nat /\ n.log \in Seq(Entry) /\ Len(n.log) \in Nat
      /\ n.commit_index \in Nat /\ Len(committed) \in Nat
      /\ ServerLog(H, i, n) /\ AppliedIsCommitted(H, n)
  BY ServerFacts
<1>2. /\ m.type = "AppendEntries" /\ n.term <= t /\ p.term = t
      /\ Meets(n.log, m) /\ TakenFrom(n.log, m, p.log)
      /\ p.role = "follower" /\ p.snapshot = n.snapshot
      /\ \/ p.commit_index = n.commit_index
         \/ /\ p.commit_index > n.commit_index
            /\ p.commit_index <= m.leader_commit /\ p.commit_index <= Match(m)
      /\ Applied(p)
      /\ e.out = {AppendReply(i, m.src, p, TRUE, Match(m))}
  BY DEF Takes
<1>3. /\ t \in LedTerms /\ t \in Nat
      /\ L \in Seq(Entry) /\ Len(L) \in Nat /\ StretchOf(L, m) /\ Backed(H, L)
      /\ \A k \in 1..Len(L) : L[k].term <= t
      /\ m.prev_index \in Nat /\ m.entries \in Seq(Entry) /\ Match(m) \in Nat
      /\ m.leader_commit \in Nat /\ m.src \in Node /\ m.src # i
      /\ m.leader_commit <= Len(committed) /\ Settles(H, t, m.leader_commit)
  BY <1>2, ReplicatedFacts
<1>4. p.log \in Seq(Entry) /\ Len(p.log) \in Nat /\ p.commit_index \in Nat
  BY DEF NodeState
<1>5. /\ Bare(n) /\ Backed(H, n.log) /\ \A k \in 1..Len(n.log) : n.log[k].term <= n.term
  BY <1>1 DEF ServerLog
<1>6. SameUpTo(n.log, p.log, n.commit_index)
  BY <1>2, <1>4, TakenKeepsCommitted
<1> HIDE DEF n, p, t, L
<1>7. SameUpTo(p.log, L, Match(m)) /\ (p.log = n.log \/ Len(p.log) = Match(m))
  BY <1>1, <1>2, <1>3, <1>4, <1>5, TakenIsLeaders
<1>8. Keeps(H, n, p)
  <2> SUFFICES ASSUME NEW k \in 0..Len(n.log), SameUpTo(n.log, L, k)
               PROVE  SameUpTo(n.log, p.log, k)
    BY <1>2, <1>3 DEF Keeps, L
  <2>1. k \in Nat
    OBVIOUS
  <2> QED BY <1>1, <1>2, <1>3, <1>4, <2>1, TakenKeeps
<1>9. Backed(H, p.log) /\ \A k \in 1..Len(p.log) : p.log[k].term <= t
  <2>1. CASE p.log = n.log
    <3>1. ASSUME NEW k \in 1..Len(n.log) PROVE n.log[k].term <= t
      <4>1. n.log[k] \in Entry /\ n.log[k].term <= n.term
        BY <1>1, <1>5
      <4>2. n.log[k].term \in Int
        BY <4>1 DEF Entry
      <4> QED BY <1>1, <1>2, <1>3, <4>1, <4>2
    <3> QED BY <1>5, <2>1, <3>1
  <2>2. CASE Len(p.log) = Match(m)
    <3>1. SameUpTo(p.log, L, Len(p.log))
      BY <1>7, <2>2
    <3>2. Backed(H, p.log)
      BY <1>3, <1>4, <3>1, SharedIsBacked
    <3>3. \A k \in 1..Len(p.log) : k \in 1..Len(L) /\ p.log[k] = L[k]
      BY <1>3, <1>4, <3>1 DEF SameUpTo
    <3> QED BY <1>3, <3>2, <3>3
  <2> QED BY <1>7, <2>1, <2>2
<1>10. \A r \in e.out : SaysTruly(H, i, p, r)
  <2> DEFINE r == AppendReply(i, m.src, p, TRUE, Match(m))
  <2>1. r.src = i /\ r.dst = m.src /\ r.term = p.term /\ r.type = "AppendReply"
        /\ r.match_index = Match(m)
    BY DEF AppendReply
  <2> HIDE DEF r
  <2>2. ~IsGrant(r)
    BY <2>1 DEF IsGrant
  <2>3. SaysTruly(H, i, p, r)
    BY <1>2, <1>3, <1>7, <2>1, <2>2 DEF SaysTruly, L
  <2> QED BY <1>2, <2>3 DEF r
<1>11. LogStep(H, i, p, e.out)
  BY <1>2, <1>5, <1>8, <1>9, <1>10 DEF LogStep, Bare, n
<1>12. /\ n.commit_index <= Len(committed) /\ Settles(H, n.term, n.commit_index)
       /\ \A k \in 1..n.commit_index : n.log[k] = committed[k].entry
  BY <1>1 DEF AppliedIsCommitted
<1>13. ~(p.commit_index > Len(committed))
  BY <1>1, <1>2, <1>3, <1>4, <1>12
<1>14. Settles(H, t, p.commit_index)
  <2>1. CASE p.commit_index = n.commit_index
    <3>1. n.commit_index <= n.commit_index
      BY <1>1
    <3>2. Settles(H, t, n.commit_index)
      BY <1>1, <1>2, <1>3, <1>12, <3>1, SettlesDown
    <3> QED BY <2>1, <3>2
  <2>2. CASE p.commit_index <= m.leader_commit
    <3>1. t <= t
      BY <1>3
    <3> QED BY <1>1, <1>3, <1>4, <2>2, <3>1, SettlesDown
  <2> QED BY <1>2, <2>1, <2>2
<1>15. ASSUME NEW k \in 1..p.commit_index, k <= Len(committed)
       PROVE  p.log[k] = committed[k].entry
  <2>1. CASE p.commit_index = n.commit_index
    BY <1>6, <1>12, <2>1 DEF SameUpTo
  <2>2. CASE p.commit_index <= Match(m)
    <3>1. k \in 1..Match(m)
      BY <1>3, <1>4, <2>2
    <3>2. p.log[k] = L[k]
      BY <1>7, <3>1 DEF SameUpTo
    <3>3. LogInv(H) /\ AckInv(H) /\ CommittedIsSettled(H)
      BY DEF Inv, CommitInv
    <3>4. H[t][k] = committed[k].entry
      BY <1>1, <1>3, <1>4, <1>14, <1>15, <3>3, SettledIsCommitted
    <3> QED BY <3>2, <3>4 DEF L
  <2> QED BY <1>2, <2>1, <2>2
<1>16. CommitStep(H, i, p)
  BY <1>2, <1>13, <1>14, <1>15 DEF CommitStep, Bookkeeping
<1>17. RequestStep(p)
  BY <1>2 DEF RequestStep
<1> QED BY <1>11, <1>16, <1>17 DEF SafeStep, p

LEMMA HearsIsSafe ==
    ASSUME NEW H \in History, Inv(H), NEW i \in Node, NEW e, e.node \in NodeState,
           NEW m \in msgs, Hears(node[i], m, e)
    PROVE  SafeStep(H, i, e)
<1> DEFINE n == node[i]
           p == e.node
           t == n.term
           c == p.commit_index
<1>1. /\ TypeOK /\ n \in NodeState /\ t \in Nat /\ n.log \in Seq(Entry) /\ Len(n.log) \in Nat
      /\ n.commit_index \in Nat /\ Len(committed) \in Nat
      /\ ServerLog(H, i, n) /\ AppliedIsCommitted(H, n) /\ Bookkeeping(i, n)
  BY ServerFacts
<1>2. /\ IsAck(m) /\ n.role = "leader" /\ m.term = t /\ p.role = "leader" /\ p.term = t
      /\ p.log = n.log /\ p.snapshot = n.snapshot /\ p.client_index = n.client_index
      /\ InRange(p) /\ Applied(p)
      /\ \A v \in Node : \/ p.match_index[v] = n.match_index[v]
                         \/ v = m.src /\ p.match_index[v] = m.match_index
      /\ \/ c = n.commit_index
         \/ /\ c > n.commit_index /\ c <= Len(n.log)
            /\ \A j \in c..Len(n.log) : n.log[j].term = t
            /\ IsMajority({v \in Node : p.match_index[v] >= c}, n.voters)
      /\ e.out = {}
  BY DEF Hears
<1>3. /\ t \in LedTerms /\ H[t] = n.log /\ <<t, i>> \in leaders
  BY <1>2, LeaderFacts DEF Inv, VoteInv
<1>4. n.voters = VotersAt(H[t], Len(H[t]))
  <2>1. Governs(n.log, n.voters, n.config_index) /\ n.config_index \in Nat
    BY <1>1 DEF Inv, ConfigInv, NodeState
  <2>2. n.voters = VotersAt(n.log, Len(n.log))
    BY <1>1, <2>1, GoverningVoters
  <2> QED BY <1>3, <2>2
<1>5. c \in Nat /\ p.term \in Nat
  BY DEF NodeState
<1>6. \A v \in Node : p.match_index[v] \in Nat
  BY DEF NodeState
<1>7. IsAck(m) => m.match_index \in Nat
  BY DEF Inv, VoteInv, TypeOK, Message, IsAck
<1> HIDE DEF n, p, t, c
<1>8. LogStep(H, i, p, e.out)
  <2>1. n.term <= p.term
    BY <1>1, <1>2, <1>5 DEF t
  <2>2. /\ Bare(p) /\ Keeps(H, n, p) /\ \A k \in 1..Len(p.log) : p.log[k].term <= p.term
    BY <1>2, <1>5, <2>1, SameLogKeeps DEF n
  <2> QED BY <1>2, <2>1, <2>2 DEF LogStep, LeadsOn, n, t
<1>9. \A v \in Node : \/ p.match_index[v] = 0
                      \/ v = i /\ p.match_index[v] <= Len(p.log)
                      \/ \E a \in msgs : IsAck(a) /\ a.src = v /\ a.term = t
                                           /\ p.match_index[v] <= a.match_index
  <2> TAKE v \in Node
  <2>1. CASE p.match_index[v] = n.match_index[v]
    BY <1>1, <1>2, <2>1 DEF Bookkeeping, t
  <2>2. CASE v = m.src /\ p.match_index[v] = m.match_index
    BY <1>2, <1>6, <1>7, <2>2
  <2> QED BY <1>2, <2>1, <2>2
<1>10. Bookkeeping(i, p)
  BY <1>2, <1>9 DEF Bookkeeping, InRange
<1>11. /\ n.commit_index <= Len(committed) /\ Settles(H, t, n.commit_index)
       /\ \A k \in 1..n.commit_index : n.log[k] = committed[k].entry
  BY <1>1 DEF AppliedIsCommitted, t
<1>12. CASE c = n.commit_index
  <2>1. ~(c > Len(committed))
    BY <1>1, <1>11, <1>12
  <2> QED BY <1>2, <1>8, <1>10, <1>11, <1>12, <2>1, LeadingKnows
          DEF SafeStep, CommitStep, c, p, n
<1>13. ASSUME c > n.commit_index, c <= Len(n.log), \A j \in c..Len(n.log) : n.log[j].term = t,
              IsMajority({v \in Node : p.match_index[v] >= c}, n.voters)
       PROVE  SafeStep(H, i, e)
  <2> DEFINE Q == {v \in Node : p.match_index[v] >= c}
  <2>1. c \in 1..Len(H[t]) /\ c > 0 /\ H[t][c].term = t
    BY <1>1, <1>3, <1>5, <1>13
  <2>2. ASSUME NEW v \in Q PROVE Acked(H, v, t, c)
    <3>1. p.match_index[v] >= c /\ p.match_index[v] \in Nat /\ p.match_index[v] # 0
      BY <1>5, <1>6, <2>1
    <3>2. CASE v = i
      BY <1>3, <2>1, <3>2 DEF Acked, Holds
    <3>3. ASSUME NEW a \in msgs, IsAck(a), a.src = v, a.term = t,
                 p.match_index[v] <= a.match_index
          PROVE  Acked(H, v, t, c)
      <4>1. a.match_index \in Nat
        BY <3>3 DEF Inv, VoteInv, TypeOK, Message, IsAck
      <4>2. c <= a.match_index
        BY <1>5, <3>1, <3>3, <4>1
      <4> QED BY <2>1, <3>3, <4>2 DEF Acked, Holds
    <3> QED BY <1>9, <3>1, <3>2, <3>3
  <2>3. Chosen(H, t, c)
    <3>1. IsMajority(Q, VotersAt(H[t], Len(H[t]))) /\ Q \in SUBSET Node
      BY <1>4, <1>13
    <3>2. ChosenBy(H, t, c, Len(H[t]))
      <4> HIDE DEF Q
      <4> QED BY <2>1, <2>2, <3>1 DEF ChosenBy, Holds
    <3>3. Len(H[t]) \in c..Len(H[t])
      BY <1>1, <1>3, <2>1
    <3> QED BY <3>2, <3>3 DEF Chosen
  <2> HIDE DEF Q
  <2>4. Settles(H, t, c)
    <3>1. t <= t /\ c <= c
      BY <1>1, <1>5
    <3> QED BY <1>3, <2>1, <2>3, <3>1 DEF Settles
  <2>5. ASSUME NEW k \in 1..c, k <= Len(committed) PROVE n.log[k] = committed[k].entry
    <3>1. LogInv(H) /\ AckInv(H) /\ CommittedIsSettled(H)
      BY DEF Inv, CommitInv
    <3> QED BY <1>1, <1>3, <1>5, <2>4, <2>5, <3>1, SettledIsCommitted
  <2>6. SameUpTo(p.log, H[t], c)
    BY <1>2, <1>3, <1>13 DEF SameUpTo
  <2>7. CommitStep(H, i, p)
    BY <1>2, <1>3, <1>10, <2>4, <2>5, <2>6 DEF CommitStep, c
  <2> QED BY <1>2, <1>8, <2>7, LeadingKnows DEF SafeStep, p, n
<1> QED BY <1>2, <1>12, <1>13

---------------------------------------------------------------------------
(* So is every step. *)

\* The shapes that a step of server i takes.
Shape(i, e) ==
    \/ Rests(i, node[i], e)
    \/ Competes(i, node[i], e)
    \/ Appends(i, node[i], e)
    \/ Reconfigures(i, node[i], e)
    \/ Crashes(node[i], e)
    \/ \E m \in msgs : \/ m.type = "RequestVote" /\ Votes(i, node[i], m, e)
                       \/ m.dst = i /\ Takes(i, node[i], m, e)
                       \/ Hears(node[i], m, e)

LEMMA DeliveryShape ==
    ASSUME SnapshotThreshold = 0, NEW H \in History, Inv(H), NEW i \in Node,
           NEW m \in msgs, m.dst = i, NEW e, e = handle(i, node[i], m)
    PROVE  Shape(i, e)
<1>1. m \in Message /\ node[i] \in NodeState /\ Ready(node[i])
  BY ServerFacts DEF Inv, VoteInv, TypeOK
<1>2. m.src # i /\ m.type # "InstallSnapshot"
  BY DEF Inv, LogInv, MessageIsTrue
<1>3. CASE m.type = "RequestVote"
  <2>1. e = _on_request_vote(i, node[i], m)
    BY <1>3 DEF handle
  <2>2. Votes(i, node[i], m, e)
    BY <1>1, <1>2, <1>3, <2>1, RequestVoteVotes
  <2> QED BY <1>3, <2>2 DEF Shape
<1>4. CASE m.type = "VoteReply"
  <2>1. e = _on_vote_reply(i, node[i], m)
    BY <1>4 DEF handle
  <2>2. Rests(i, node[i], e) \/ Competes(i, node[i], e)
    BY <1>1, <1>4, <2>1, VoteReplyCompetes
  <2> QED BY <2>2 DEF Shape
<1>5. CASE m.type = "AppendEntries"
  <2>1. e = _on_append_entries(i, node[i], m)
    BY <1>5 DEF handle
  <2>2. ASSUME node[i].term <= m.term, NEW new \in Seq(Entry), TakenFrom(node[i].log, m, new)
        PROVE  SameUpTo(node[i].log, new, node[i].commit_index)
    BY <1>5, <2>2, TakenKeepsCommitted
  <2>3. Rests(i, node[i], e) \/ Takes(i, node[i], m, e)
    BY <1>1, <1>2, <1>5, <2>1, <2>2, AppendEntriesTakes
  <2> QED BY <2>3 DEF Shape
<1>6. CASE m.type = "AppendReply"
  <2>1. e = _on_append_reply(i, node[i], m)
    BY <1>6 DEF handle
  <2>2. node[i].role = "leader" /\ IsAck(m) /\ m.term = node[i].term =>
            m.match_index <= Len(node[i].log)
    <3> SUFFICES ASSUME node[i].role = "leader", IsAck(m), m.term = node[i].term
                 PROVE  m.match_index <= Len(node[i].log)
      OBVIOUS
    <3>1. TrueAck(H, m)
      BY DEF Inv, LogInv, MessageIsTrue
    <3>2. H[node[i].term] = node[i].log
      BY LeaderFacts
    <3> QED BY <3>1, <3>2 DEF TrueAck
  <2>3. Rests(i, node[i], e) \/ Hears(node[i], m, e)
    BY <1>1, <1>2, <1>6, <2>1, <2>2, AppendReplyHears
  <2> QED BY <2>3 DEF Shape
<1>7. CASE m.type = "ReadHeartbeat"
  <2>1. e = _on_read_heartbeat(i, node[i], m)
    BY <1>7 DEF handle
  <2>2. Rests(i, node[i], e)
    BY <1>1, <1>2, <1>7, <2>1, ReadHeartbeatRests
  <2> QED BY <2>2 DEF Shape
<1>8. CASE m.type = "ReadAck"
  <2>1. e = _on_read_ack(i, node[i], m)
    BY <1>8 DEF handle
  <2>2. Rests(i, node[i], e)
    BY <1>1, <1>8, <2>1, ReadAckRests
  <2> QED BY <2>2 DEF Shape
<1>9. m.type \in {"RequestVote", "VoteReply", "AppendEntries", "AppendReply",
                  "InstallSnapshot", "ReadHeartbeat", "ReadAck"}
  BY <1>1 DEF Message
<1> QED BY <1>2, <1>3, <1>4, <1>5, <1>6, <1>7, <1>8, <1>9

LEMMA EveryShape ==
    ASSUME SnapshotThreshold = 0, NEW H \in History, Inv(H), NEW i \in Node,
           NEW e, Performs(i, e)
    PROVE  Shape(i, e)
<1>1. node[i] \in NodeState /\ Ready(node[i])
  BY ServerFacts
<1>2. \A c \in Client : next_req[c] \in Nat
  BY DEF Inv, VoteInv, TypeOK
<1>3. ASSUME NEW m \in msgs, m.dst = i, e = handle(i, node[i], m) PROVE Shape(i, e)
  BY <1>3, DeliveryShape
<1>4. CASE node[i].role # "leader" /\ e = start_election(i, node[i])
  <2>1. Rests(i, node[i], e) \/ Competes(i, node[i], e)
    BY <1>1, <1>4, StartElectionCompetes
  <2> QED BY <2>1 DEF Shape
<1>5. CASE node[i].role = "leader" /\ e = HeartbeatTimeout(i, node[i])
  <2>1. Rests(i, node[i], e)
    BY <1>1, <1>5, HeartbeatTimeoutRests
  <2> QED BY <2>1 DEF Shape
<1>6. ASSUME node[i].role = "leader", NEW c \in Client,
             e = client_command(i, node[i], c, next_req[c])
      PROVE  Shape(i, e)
  <2>1. Rests(i, node[i], e) \/ Appends(i, node[i], e)
    BY <1>1, <1>2, <1>6, ClientCommandAppends
  <2> QED BY <2>1 DEF Shape
<1>7. ASSUME node[i].role = "leader", NEW c \in Client,
             e = request_read(i, node[i], c, next_req[c])
      PROVE  Shape(i, e)
  <2>1. Rests(i, node[i], e)
    BY <1>1, <1>7, RequestReadRests
  <2> QED BY <2>1 DEF Shape
<1>10. ASSUME node[i].role = "leader", NEW V \in Proposals, MayChangeConfig(i, node[i], V),
              e = change_config(i, node[i], V)
       PROVE  Shape(i, e)
  <2>1. V \in SUBSET Node
    BY EnvironmentAssumption
  <2>2. Reconfigures(i, node[i], e)
    BY <1>1, <1>10, <2>1, ChangeConfigReconfigures
  <2> QED BY <2>2 DEF Shape
<1>8. CASE e = Silent(pause(node[i]))
  <2>1. Crashes(node[i], e)
    BY <1>1, <1>8, PauseCrashes
  <2> QED BY <2>1 DEF Shape
<1>9. CASE e = Silent(resume(node[i]))
  <2>1. Rests(i, node[i], e)
    BY <1>1, <1>9, ResumeRests
  <2> QED BY <2>1 DEF Shape
<1> QED BY <1>3, <1>4, <1>5, <1>6, <1>7, <1>8, <1>9, <1>10 DEF Performs, Leads

LEMMA EverySafeStep ==
    ASSUME SnapshotThreshold = 0, NEW H \in History, Inv(H), NEW i \in Node,
           NEW e, Performs(i, e), e.node \in NodeState
    PROVE  SafeStep(H, i, e)
<1>1. Shape(i, e)
  BY EveryShape
<1>2. ASSUME NEW m \in msgs, m.type = "RequestVote", Votes(i, node[i], m, e)
      PROVE  SafeStep(H, i, e)
  BY <1>2, VotesIsSafe
<1>3. ASSUME NEW m \in msgs, m.dst = i, Takes(i, node[i], m, e) PROVE SafeStep(H, i, e)
  BY <1>3, TakesIsSafe
<1>4. ASSUME NEW m \in msgs, Hears(node[i], m, e) PROVE SafeStep(H, i, e)
  BY <1>4, HearsIsSafe
<1> QED BY <1>1, <1>2, <1>3, <1>4, RestsIsSafe, CompetesIsSafe, AppendsIsSafe,
           ReconfiguresIsSafe, CrashesIsSafe DEF Shape

\* A leader that goes on commits entries of its own, and drops none of its log.
LEMMA LeaderGoesOn ==
    ASSUME NEW H \in History, Inv(H), NEW i \in Node, NEW e, e.node \in NodeState, Shape(i, e),
           node[i].role = "leader", e.node.role = "leader", e.node.term = node[i].term
    PROVE  /\ node[i].commit_index <= e.node.commit_index
           /\ \A k \in 1..Len(node[i].log) : e.node.log[k] = node[i].log[k]
           /\ e.node.commit_index > node[i].commit_index =>
                 /\ e.node.commit_index \in 1..Len(node[i].log)
                 /\ node[i].log[e.node.commit_index].term = node[i].term
<1> DEFINE Goal ==
        /\ node[i].commit_index <= e.node.commit_index
        /\ \A k \in 1..Len(node[i].log) : e.node.log[k] = node[i].log[k]
        /\ e.node.commit_index > node[i].commit_index =>
              /\ e.node.commit_index \in 1..Len(node[i].log)
              /\ node[i].log[e.node.commit_index].term = node[i].term
<1>1. /\ node[i].commit_index \in Nat /\ e.node.commit_index \in Nat /\ node[i].term \in Nat
      /\ Len(node[i].log) \in Nat
  BY ServerFacts DEF NodeState
<1>2. CASE Rests(i, node[i], e)
  BY <1>1, <1>2 DEF Rests, Idles
<1>3. CASE Competes(i, node[i], e)
  BY <1>1, <1>3 DEF Competes
<1>4. ASSUME NEW command, AppendsEntry(i, node[i], command, e.node) PROVE Goal
  BY <1>1, <1>4 DEF AppendsEntry, Extends
<1>5. CASE Crashes(node[i], e)
  BY <1>5 DEF Crashes
<1>6. ASSUME NEW m, Votes(i, node[i], m, e) PROVE Goal
  BY <1>1, <1>6 DEF Votes, Idles
<1>7. ASSUME NEW m, Takes(i, node[i], m, e) PROVE Goal
  BY <1>7 DEF Takes
<1>8. ASSUME NEW m, Hears(node[i], m, e) PROVE Goal
  BY <1>1, <1>8 DEF Hears
<1>9. CASE Appends(i, node[i], e) \/ Reconfigures(i, node[i], e)
  BY <1>4, <1>9 DEF Appends, Reconfigures
<1> QED BY <1>2, <1>3, <1>5, <1>6, <1>7, <1>8, <1>9 DEF Shape

\* What was not seen committed before becomes so at a leader.
LEMMA LeadersCommitFirst ==
    ASSUME NEW H \in History, Inv(H), NEW i \in Node, NEW e, e.node \in NodeState, Shape(i, e),
           e.node.commit_index > Len(committed)
    PROVE  e.node.role = "leader"
<1>1. /\ node[i].commit_index \in Nat /\ e.node.commit_index \in Nat
      /\ Len(committed) \in Nat /\ node[i].commit_index <= Len(committed)
  BY ServerFacts DEF NodeState, AppliedIsCommitted
<1>2. ASSUME Idles(node[i], e.node) PROVE FALSE
  BY <1>1, <1>2 DEF Idles
<1>3. CASE Appends(i, node[i], e) \/ Reconfigures(i, node[i], e)
  BY <1>3 DEF Appends, Reconfigures, AppendsEntry
<1>4. CASE Crashes(node[i], e)
  BY <1>1, <1>4 DEF Crashes
<1>5. ASSUME NEW m \in msgs, Takes(i, node[i], m, e) PROVE FALSE
  <2>1. m.leader_commit \in Nat /\ m.leader_commit <= Len(committed)
    BY <1>5, ReplicatedFacts DEF Takes
  <2> QED BY <1>1, <1>5, <2>1 DEF Takes
<1>6. ASSUME NEW m, Hears(node[i], m, e) PROVE e.node.role = "leader"
  BY <1>6 DEF Hears
<1> QED BY <1>2, <1>3, <1>4, <1>5, <1>6 DEF Shape, Rests, Competes, Votes

---------------------------------------------------------------------------
(***************************************************************************)
(* Nobody else leads a term.  Two candidates of a term may have stood with *)
(* different configurations; but each had what the other's configurations  *)
(* waited for, so their majorities meet in a server that voted twice.      *)
(***************************************************************************)

LEMMA LeadersAreAlone ==
    ASSUME NEW H \in History, Inv(H)
    PROVE  ElectionSafety
<1> SUFFICES ASSUME NEW x \in leaders, NEW y \in leaders, x[1] = y[1]
             PROVE  x[2] = y[2]
  BY DEF ElectionSafety
<1> DEFINE u == x[1]
           L == H[u]
<1>1. TypeOK /\ VoteInv /\ GrantsArePledged /\ LogInv(H) /\ LeadersCarry(H)
  BY DEF Inv, VoteInv, AckInv
<1>2. x[2] \in Node /\ y[2] \in Node /\ u \in LedTerms
  BY <1>1 DEF TypeOK, LedTerms
<1>3. PICK b \in 0..Len(L) : \E Q \in SUBSET Ballots(msgs, u, x[2]) : WonWith(H, x, b, Q)
  BY <1>1 DEF LeadersCarry
<1>4. PICK Q \in SUBSET Ballots(msgs, u, x[2]) : WonWith(H, x, b, Q)
  BY <1>3
<1>5. PICK c \in 0..Len(H[y[1]]) : \E R \in SUBSET Ballots(msgs, y[1], y[2]) : WonWith(H, y, c, R)
  BY <1>1 DEF LeadersCarry
<1>6. PICK R \in SUBSET Ballots(msgs, y[1], y[2]) : WonWith(H, y, c, R)
  BY <1>5
<1>7. /\ StoodWith(L, u, b) /\ IsMajority(Q, VotersAt(L, b))
      /\ StoodWith(L, u, c) /\ IsMajority(R, VotersAt(L, c))
      /\ c \in 0..Len(L) /\ R \subseteq Ballots(msgs, u, y[2])
  BY <1>4, <1>5, <1>6 DEF WonWith
<1>8. u \in Nat /\ L \in Seq(Entry) /\ Len(L) \in Nat
  BY <1>1, <1>2, LedLog
<1>9. /\ Pledged(node[x[2]], msgs, x[2], u, x[2])
      /\ Pledged(node[y[2]], msgs, y[2], u, y[2])
  BY <1>1 DEF VoteInv
<1> HIDE DEF L, u
<1>10. b = c
  BY <1>3, <1>7, <1>8 DEF StoodWith
<1>11. VotersAt(L, b) \in SUBSET Node
  BY <1>3, <1>8, VotersAreNodes
<1>12. \E v \in Q \cap R : v \in VotersAt(L, b)
  BY <1>7, <1>10, <1>11, MajoritiesMeet
<1>13. PICK v : v \in Ballots(msgs, u, x[2]) \cap Ballots(msgs, u, y[2])
  BY <1>4, <1>7, <1>12
<1> QED BY <1>1, <1>2, <1>9, <1>13, ElectedOnce

\* Nobody votes for two leaders of a term.
VotedOnce ==
    \A x, y \in leaders :
        x[1] = y[1] /\ Ballots(msgs, x[1], x[2]) \cap Ballots(msgs, y[1], y[2]) # {} => x[2] = y[2]

LEMMA VotesAreOnce == VoteInv => VotedOnce
<1> SUFFICES ASSUME VoteInv, NEW x \in leaders, NEW y \in leaders, x[1] = y[1],
                    NEW v \in Ballots(msgs, x[1], x[2]) \cap Ballots(msgs, y[1], y[2])
             PROVE  x[2] = y[2]
  BY DEF VotedOnce
<1> DEFINE u == x[1]
<1>1. /\ GrantsArePledged /\ x[2] \in Node /\ y[2] \in Node
      /\ Pledged(node[x[2]], msgs, x[2], u, x[2])
      /\ Pledged(node[y[2]], msgs, y[2], u, y[2])
      /\ v \in Ballots(msgs, u, x[2]) \cap Ballots(msgs, u, y[2])
  BY DEF VoteInv, TypeOK
<1> HIDE DEF u
<1> QED BY <1>1, ElectedOnce

LEMMA VotesStayOnce == VoteInv' => VotedOnce'
BY VotesAreOnce, PTL

\* A log is anchored in that of whoever has all that was chosen.
LEMMA HoldersAnchor ==
    ASSUME TypeOK, NEW H \in History, LogInv(H), ConfigsAreGuarded(H), NEW u \in Nat,
           NEW A \in Seq(Entry), NEW C \in Seq(Entry), Backed(H, A),
           NEW a \in 0..Len(A), NEW c \in 0..Len(C),
           StoodWith(A, u, a), StoodWith(C, u, c), HoldsChosen(H, C, u)
    PROVE  Anchored(A, a, C, c)
<1>1. ASSUME NEW d \in 1..a, NEW j \in 1..(d - 1), NEW m \in j..(d - 1),
             ChosenBy(H, A[d].term, j, m)
      PROVE  j <= c /\ Holds(C, A[d].term, j)
  <2> DEFINE w == A[d].term
  <2>1. d \in 1..Len(A) /\ d <= a /\ Len(A) \in Nat
    OBVIOUS
  <2>2. w \in LedTerms /\ SameUpTo(A, H[w], d) /\ w < u
    BY <2>1 DEF Backed, StoodWith
  <2>3. w \in Nat /\ Len(H[w]) \in Nat
    BY <2>2, LedLog
  <2>4. m \in Nat /\ j \in Nat /\ j <= m /\ m <= Len(H[w])
    BY <2>2, <2>3 DEF SameUpTo
  <2>5. ChosenBy(H, w, j, m)
    BY <1>1
  <2> HIDE DEF w
  <2>6. Chosen(H, w, j)
    BY <2>2, <2>4, <2>5, ChosenByIsChosen
  <2>7. Holds(C, w, j)
    BY <2>2, <2>6 DEF HoldsChosen
  <2>8. j <= c
    BY <2>2, <2>3, <2>7 DEF Holds, StoodWith
  <2> QED BY <2>7, <2>8 DEF w
<1> QED BY <1>1, GuardsAnchor

---------------------------------------------------------------------------
(***************************************************************************)
(* The history after a step: a leader's log is that of its term.           *)
(***************************************************************************)
After(H, p) == IF p.role = "leader" THEN [H EXCEPT ![p.term] = p.log] ELSE H

\* Server i takes the step e, and the history goes from H to M.
Moves(H, M, i, e) ==
    /\ Inv(H)
    /\ Step(i, e) /\ ElectionStep(i, node[i], e) /\ SafeStep(H, i, e)
    /\ Shape(i, e) /\ ReadShape(i, e)
    /\ VoteInv' /\ ConfigInv'
    /\ M = After(H, e.node)

LEMMA MoveFacts ==
    ASSUME NEW H \in History, NEW M, NEW i \in Node, NEW e, Moves(H, M, i, e)
    PROVE  /\ TypeOK /\ TypeOK' /\ VoteInv /\ VoteInv'
           /\ e.node \in NodeState /\ e.node.term \in Nat /\ node[i].term <= e.node.term
           /\ e.node.log \in Seq(Entry) /\ Len(e.node.log) \in Nat
           /\ node'[i] = e.node /\ \A j \in Node : j # i => node'[j] = node[j]
           /\ msgs \subseteq msgs' /\ msgs' = msgs \cup e.out
           /\ leaders \subseteq leaders'
           /\ \A x \in leaders' : x \in leaders \/ (x = <<e.node.term, i>> /\ e.node.role = "leader")
           /\ e.node.role = "leader" => <<e.node.term, i>> \in leaders'
           /\ \A j \in Node : node[j].term <= node'[j].term
<1>1. VoteInv /\ VoteInv' /\ TypeOK /\ TypeOK'
  BY DEF Moves, Inv, VoteInv
<1>2. e.node \in NodeState
  BY DEF Moves, ElectionStep, GoodEffect
<1>3. /\ e.node.term \in Nat /\ e.node.log \in Seq(Entry) /\ Len(e.node.log) \in Nat
  BY <1>2 DEF NodeState
<1>4. node[i].term <= e.node.term
  BY DEF Moves, SafeStep, LogStep
<1>5. node'[i] = e.node /\ \A j \in Node : j # i => node'[j] = node[j]
  BY <1>1 DEF Moves, Step, TypeOK
<1>6. msgs \subseteq msgs' /\ msgs' = msgs \cup e.out
  BY DEF Moves, Step
<1>7. /\ leaders \subseteq leaders'
      /\ \A x \in leaders' : x \in leaders \/ (x = <<e.node.term, i>> /\ e.node.role = "leader")
      /\ e.node.role = "leader" => <<e.node.term, i>> \in leaders'
  BY DEF Moves, Step, ObserveLeader
<1>8. \A j \in Node : node[j].term <= node'[j].term
  <2> SUFFICES ASSUME NEW j \in Node PROVE node[j].term <= node'[j].term
    OBVIOUS
  <2>1. node[j].term \in Nat
    BY <1>1 DEF TypeOK, NodeState
  <2> QED BY <1>4, <1>5, <2>1
<1> QED BY <1>1, <1>2, <1>3, <1>4, <1>5, <1>6, <1>7, <1>8

\* The ballots that server i has after a step of its own it had before.
LEMMA OwnBallots ==
    ASSUME NEW H \in History, NEW M, NEW i \in Node, NEW e, Moves(H, M, i, e), NEW t
    PROVE  Ballots(msgs', t, i) \subseteq Ballots(msgs, t, i)
<1>1. msgs' = msgs \cup e.out
  BY MoveFacts
<1>2. \A r \in e.out : r.dst # i
  BY DEF Moves, SafeStep, LogStep, SaysTruly
<1> QED BY <1>1, <1>2 DEF Ballots

\* A server that campaigns has what its voters acknowledged.
LEMMA CampaignCarries ==
    ASSUME NEW H \in History, NEW M, NEW i \in Node, NEW e, Moves(H, M, i, e),
           Campaigning(node[i], e.node), NEW v \in Ballots(msgs', e.node.term, i)
    PROVE  Carries(H, e.node.log, v, e.node.term, e.node.term)
<1> DEFINE n == node[i]
           p == e.node
           u == p.term
<1>1. TypeOK /\ u \in Nat
  BY MoveFacts
<1>2. Inv(H)
  BY DEF Moves
<1>3. n.term \in Nat
  BY <1>2, ServerFacts
<1>4. v \in Ballots(msgs, u, i)
  BY OwnBallots
<1>5. p.log = n.log
  BY DEF Campaigning
<1>6. CASE n.role = "candidate" /\ u = n.term
  BY <1>2, <1>4, <1>5, <1>6 DEF Inv, AckInv, CandidatesCarry
<1>7. CASE u = n.term + 1
  <2>1. v = i
    <3> SUFFICES ASSUME NEW m \in msgs, IsGrant(m), m.dst = i, m.term = u PROVE FALSE
      BY <1>4 DEF Ballots
    <3>1. m.term <= n.term
      BY <1>2 DEF Inv, LogInv, MessageIsTrue
    <3> QED BY <1>3, <1>7, <3>1
  <2> SUFFICES ASSUME NEW t \in LedTerms, NEW k \in 1..Len(H[t]), t < u, Acked(H, i, t, k)
               PROVE  Holds(n.log, t, k) \/ Overtaken(H, t, k, u)
    BY <1>5, <2>1 DEF Carries
  <2>2. Holds(n.log, t, k) \/ Overtaken(H, t, k, n.term)
    BY <1>2 DEF Inv, AckInv, AcksAreKept
  <2>3. \A w \in LedTerms : w <= n.term => w <= u
    BY <1>1, <1>3, <1>7, TermsAreNumbers
  <2> QED BY <2>2, <2>3 DEF Overtaken
<1> QED BY <1>6, <1>7 DEF Campaigning

\* It stands with its whole log, in which it has all that was chosen before.
LEMMA CampaignHolds ==
    ASSUME NEW H \in History, NEW M, NEW i \in Node, NEW e, Moves(H, M, i, e),
           Campaigning(node[i], e.node), NEW C, C = node[i].log
    PROVE  /\ C \in Seq(Entry) /\ Len(C) \in Nat /\ Backed(H, C) /\ e.node.log = C
           /\ StoodWith(C, e.node.term, Len(C))
           /\ node[i].voters = VotersAt(C, Len(C))
           /\ e.node.role = "leader" =>
                 /\ IsMajority(Ballots(msgs', e.node.term, i), VotersAt(C, Len(C)))
                 /\ HoldsChosen(H, C, e.node.term)
<1>0. PICK n : n = node[i]
  OBVIOUS
<1>1. PICK u : u = e.node.term
  OBVIOUS
<1> DEFINE Q == Ballots(msgs', u, i)
<1>2. /\ Inv(H) /\ VoteInv /\ TypeOK /\ u \in Nat /\ LogInv(H) /\ AckInv(H) /\ ConfigsAreGuarded(H)
      /\ ConfigInv
  BY <1>1, MoveFacts DEF Moves, Inv, AckInv
<1>3. /\ C \in Seq(Entry) /\ Len(C) \in Nat /\ n.term \in Nat /\ ServerLog(H, i, n)
  BY <1>0, <1>2, ServerFacts
<1>4. e.node.log = C /\ ((n.role = "candidate" /\ u = n.term) \/ u = n.term + 1)
  BY <1>0, <1>1 DEF Campaigning
<1>5. /\ Backed(H, C) /\ \A k \in 1..Len(C) : C[k].term <= n.term
      /\ n.role = "candidate" => \A k \in 1..Len(C) : C[k].term < n.term
  BY <1>0, <1>3 DEF ServerLog
<1>6. \A k \in 1..Len(C) : C[k].term \in Int
  <2>1. \A k \in 1..Len(C) : C[k] \in Entry
    BY <1>3
  <2> QED BY <2>1 DEF Entry
<1>7. StoodWith(C, u, Len(C))
  BY <1>3, <1>4, <1>5, <1>6 DEF StoodWith
<1>8. n.voters = VotersAt(C, Len(C))
  <2>1. Governs(C, n.voters, n.config_index)
    BY <1>0, <1>2 DEF ConfigInv
  <2>2. n.config_index \in Nat
    BY <1>0, <1>2, ServerFacts DEF NodeState
  <2> QED BY <1>3, <2>1, <2>2, GoverningVoters
<1>9. ASSUME e.node.role = "leader"
      PROVE  IsMajority(Q, VotersAt(C, Len(C))) /\ HoldsChosen(H, C, u)
  <2>1. IsMajority(Q, VotersAt(C, Len(C)))
    <3>1. ~(n.role = "leader" /\ u = n.term)
      BY <1>3, <1>4
    <3>2. Step(i, e) /\ ElectionStep(i, node[i], e)
      BY DEF Moves
    <3> QED BY <1>0, <1>1, <1>2, <1>8, <1>9, <3>1, <3>2, LeaderHasWon
  <2>2. ASSUME NEW v \in Q, NEW t \in LedTerms, NEW k \in 1..Len(H[t]),
               t < u, Chosen(H, t, k), Acked(H, v, t, k)
        PROVE  Holds(C, t, k)
    <3>1. Holds(C, t, k) \/ Overtaken(H, t, k, u)
      BY <1>1, <1>4, <2>2, CampaignCarries DEF Carries
    <3>2. \A w \in LedTerms : t < w => Holds(H[w], t, k)
      BY <1>2, <2>2, ChosenIsHeld
    <3> QED BY <3>1, <3>2 DEF Overtaken
  <2>3. \A w \in LedTerms : w < u => HoldsChosen(H, H[w], w)
    BY <1>2, LeadersHold
  <2>4. Len(C) \in 0..Len(C)
    BY <1>3
  <2>5. PICK b : b = Len(C)
    OBVIOUS
  <2> HIDE DEF Q
  <2> QED BY <1>2, <1>3, <1>5, <1>7, <2>1, <2>2, <2>3, <2>4, <2>5, WinnerHolds
<1> QED BY <1>0, <1>1, <1>3, <1>4, <1>5, <1>7, <1>8, <1>9

\* Whoever campaigns has not led the term, and if it wins nobody else has.
LEMMA CampaignIsFresh ==
    ASSUME NEW H \in History, NEW M, NEW i \in Node, NEW e, Moves(H, M, i, e),
           Campaigning(node[i], e.node)
    PROVE  /\ <<e.node.term, i>> \notin leaders
           /\ e.node.role = "leader" => e.node.term \notin LedTerms
<1>1. /\ VoteInv /\ VoteInv' /\ leaders \subseteq leaders' /\ TypeOK
      /\ e.node.role = "leader" => <<e.node.term, i>> \in leaders'
      /\ e.node.term \in Nat
  BY MoveFacts
<1>2. Inv(H) /\ LogInv(H) /\ AckInv(H) /\ ConfigsAreGuarded(H) /\ LeadersCarry(H)
  BY DEF Moves, Inv, AckInv
<1>3. node[i].term \in Nat /\ ServerLog(H, i, node[i])
  BY <1>2, ServerFacts
<1>4. <<e.node.term, i>> \notin leaders
  <2>1. CASE node[i].role = "candidate" /\ e.node.term = node[i].term
    BY <1>3, <2>1 DEF ServerLog
  <2>2. CASE e.node.term = node[i].term + 1
    <3> SUFFICES ASSUME <<e.node.term, i>> \in leaders PROVE FALSE
      OBVIOUS
    <3> DEFINE x == <<e.node.term, i>>
    <3>1. Pledged(node[x[2]], msgs, x[2], x[1], x[2])
      BY <1>1 DEF VoteInv
    <3>2. e.node.term <= node[i].term
      BY <3>1 DEF Pledged
    <3> QED BY <1>3, <2>2, <3>2
  <2> QED BY <2>1, <2>2 DEF Campaigning
<1>5. ASSUME e.node.role = "leader", e.node.term \in LedTerms PROVE FALSE
  <2>1. PICK u : u = e.node.term
    OBVIOUS
  <2>2. PICK x \in leaders : x[1] = u
    BY <1>5, <2>1 DEF LedTerms
  <2>3. PICK C : C = node[i].log
    OBVIOUS
  <2> DEFINE L == H[u]
             Q == Ballots(msgs', u, i)
  <2>4. /\ C \in Seq(Entry) /\ Len(C) \in 0..Len(C) /\ Backed(H, C) /\ StoodWith(C, u, Len(C))
        /\ IsMajority(Q, VotersAt(C, Len(C))) /\ HoldsChosen(H, C, u)
    BY <1>5, <2>1, <2>3, CampaignHolds
  <2>5. PICK b \in 0..Len(L) : \E R \in SUBSET Ballots(msgs, u, x[2]) : WonWith(H, x, b, R)
    BY <1>2, <2>2 DEF LeadersCarry
  <2>6. PICK R \in SUBSET Ballots(msgs, u, x[2]) : WonWith(H, x, b, R)
    BY <2>5
  <2>7. StoodWith(L, u, b) /\ IsMajority(R, VotersAt(L, b))
    BY <2>2, <2>6 DEF WonWith
  <2>8. u \in Nat /\ L \in Seq(Entry) /\ Backed(H, L) /\ HoldsChosen(H, L, u) /\ LeadersLogs(H)
    BY <1>1, <1>2, <1>5, <2>1, LedFacts, LeadersHold
  <2>9. R \subseteq Ballots(msgs', u, x[2])
    <3>1. Ballots(msgs, u, x[2]) \subseteq Ballots(msgs', u, x[2])
      BY BallotsStay DEF Moves
    <3> QED BY <3>1
  <2> HIDE DEF L, Q
  <2>10. PICK c : c = Len(C)
    OBVIOUS
  <2>11. Anchored(C, c, L, b) /\ Anchored(L, b, C, c)
    BY <1>1, <1>2, <2>4, <2>5, <2>7, <2>8, <2>10, HoldersAnchor
  <2>12. \E v \in Q \cap R : v \in Node
    BY <2>4, <2>5, <2>7, <2>8, <2>10, <2>11, AnchoredMeet
  <2>13. Q \cap Ballots(msgs', u, x[2]) # {}
    BY <2>9, <2>12
  <2>14. VotedOnce' /\ x \in leaders' /\ <<u, i>> \in leaders'
    BY <1>1, <1>5, <2>1, <2>2, VotesStayOnce
  <2>15. x[2] = i
    <3>1. \A a, y \in leaders' :
            a[1] = y[1] /\ Ballots(msgs', a[1], a[2]) \cap Ballots(msgs', y[1], y[2]) # {}
                => a[2] = y[2]
      BY <2>14 DEF VotedOnce, Ballots
    <3> DEFINE y == <<u, i>>
    <3>2. y[1] = u /\ y[2] = i /\ y \in leaders'
      BY <2>14
    <3> HIDE DEF y
    <3>3. Ballots(msgs', y[1], y[2]) \cap Ballots(msgs', x[1], x[2]) # {}
      BY <2>2, <2>13, <3>2 DEF Q
    <3> QED BY <2>2, <2>14, <3>1, <3>2, <3>3
  <2>16. x = <<u, i>>
    BY <1>1, <2>2, <2>15 DEF TypeOK
  <2> QED BY <1>4, <2>1, <2>2, <2>16
<1> QED BY <1>4, <1>5

\* So a step elects nobody next to another leader.
LEMMA StepIsSafe ==
    ASSUME NEW H \in History, NEW M, NEW i \in Node, NEW e, Moves(H, M, i, e)
    PROVE  ElectionSafety'
<1> DEFINE p == e.node
<1>1. /\ \A x \in leaders' : x \in leaders \/ (x = <<p.term, i>> /\ p.role = "leader")
      /\ TypeOK
  BY MoveFacts
<1>2. ElectionSafety /\ VoteInv
  BY LeadersAreAlone DEF Moves, Inv
<1>3. ASSUME p.role = "leader", NEW x \in leaders, x[1] = p.term PROVE x[2] = i
  <2>1. CASE LeadsOn(node[i], p)
    <3> DEFINE y == <<node[i].term, i>>
    <3>1. y \in leaders /\ y[1] = p.term /\ y[2] = i
      BY <1>2, <2>1 DEF LeadsOn, VoteInv
    <3> HIDE DEF y
    <3> QED BY <1>2, <1>3, <3>1 DEF ElectionSafety
  <2>2. CASE Campaigning(node[i], p)
    BY <1>3, <2>2, CampaignIsFresh DEF LedTerms
  <2> QED BY <1>3, <2>1, <2>2 DEF Moves, SafeStep, LogStep
<1> SUFFICES ASSUME NEW x \in leaders', NEW y \in leaders', x[1] = y[1]
             PROVE  x[2] = y[2]
  BY DEF ElectionSafety
<1> HIDE DEF p
<1>4. \A z \in leaders' : z \in leaders \/ (z[1] = p.term /\ z[2] = i /\ p.role = "leader")
  BY <1>1
<1> QED BY <1>2, <1>3, <1>4 DEF ElectionSafety

\* No history is rewritten: the logs of the leaders only grow, by entries of their own.
Grows(H, M, p) ==
    /\ M \in History
    /\ \A t \in LedTerms :
          /\ t \in LedTerms' /\ SameUpTo(H[t], M[t], Len(H[t]))
          /\ \A k \in 1..Len(M[t]) : k > Len(H[t]) => M[t][k].term = t
    /\ \A t \in LedTerms' : \/ t \in LedTerms /\ M[t] = H[t]
                            \/ p.role = "leader" /\ t = p.term /\ M[t] = p.log
    /\ p.role = "leader" => p.term \in LedTerms' /\ M[p.term] = p.log

LEMMA HistoryGrows ==
    ASSUME NEW H \in History, NEW M, NEW i \in Node, NEW e, Moves(H, M, i, e)
    PROVE  Grows(H, M, e.node)
<1> DEFINE n == node[i]
           p == e.node
<1>1. /\ TypeOK /\ TypeOK' /\ p.term \in Nat /\ p.log \in Seq(Entry) /\ Len(p.log) \in Nat
      /\ leaders \subseteq leaders'
      /\ \A x \in leaders' : x \in leaders \/ (x = <<p.term, i>> /\ p.role = "leader")
      /\ p.role = "leader" => <<p.term, i>> \in leaders'
  BY MoveFacts
<1>2. Inv(H) /\ M = After(H, p)
  BY DEF Moves
<1>3. p.role = "leader" => LeadsOn(n, p) \/ Campaigning(n, p)
  BY DEF Moves, SafeStep, LogStep
<1>4. p.role = "leader" /\ Campaigning(n, p) => p.term \notin LedTerms
  BY CampaignIsFresh
<1>5. p.role = "leader" /\ LeadsOn(n, p) =>
            /\ n.role = "leader" /\ n.term = p.term /\ H[n.term] = n.log
            /\ Len(n.log) \in Nat
  BY <1>2, LeaderFacts, ServerFacts DEF LeadsOn
<1> HIDE DEF n, p
<1>6. M \in History /\ (p.role = "leader" => M[p.term] = p.log)
      /\ \A t \in Nat : M[t] = H[t] \/ (p.role = "leader" /\ t = p.term)
  BY <1>1, <1>2 DEF After, History
<1>7. \A t \in LedTerms : t \in LedTerms' /\ t \in Nat /\ Len(H[t]) \in Nat
  BY <1>1, LedLog DEF LedTerms
<1>8. \A t \in LedTerms' : t \in LedTerms \/ (p.role = "leader" /\ t = p.term)
  BY <1>1 DEF LedTerms
<1>9. p.role = "leader" => p.term \in LedTerms'
  BY <1>1 DEF LedTerms
<1>10. ASSUME NEW t \in LedTerms
       PROVE  /\ SameUpTo(H[t], M[t], Len(H[t]))
              /\ \A k \in 1..Len(M[t]) : k > Len(H[t]) => M[t][k].term = t
  <2>1. CASE M[t] = H[t]
    BY <1>7, <2>1 DEF SameUpTo
  <2>2. CASE M[t] # H[t]
    <3>1. p.role = "leader" /\ t = p.term /\ M[t] = p.log
      BY <1>6, <1>7, <2>2
    <3>2. LeadsOn(n, p)
      BY <1>3, <1>4, <3>1
    <3>3. /\ H[t] = n.log /\ t = n.term /\ Len(n.log) \in Nat
          /\ \/ p.log = n.log
             \/ \E x \in Entry : x.term = n.term /\ Extends(n.log, x, p.log)
      BY <1>5, <3>1, <3>2 DEF LeadsOn
    <3>4. PICK x \in Entry : x.term = n.term /\ Extends(n.log, x, p.log)
      BY <2>2, <3>1, <3>3
    <3>5. /\ Len(p.log) = Len(n.log) + 1 /\ p.log[Len(n.log) + 1] = x
          /\ \A k \in 1..Len(n.log) : p.log[k] = n.log[k]
      BY <3>4 DEF Extends
    <3>6. ASSUME NEW k \in 1..Len(p.log), k > Len(n.log) PROVE p.log[k].term = t
      <4>1. k = Len(n.log) + 1
        BY <1>1, <3>3, <3>5, <3>6
      <4> QED BY <3>3, <3>4, <3>5, <4>1
    <3>7. SameUpTo(n.log, p.log, Len(n.log))
      BY <3>3, <3>5 DEF SameUpTo
    <3> QED BY <3>1, <3>3, <3>6, <3>7
  <2> QED BY <2>1, <2>2
<1>11. \A t \in LedTerms' : \/ t \in LedTerms /\ M[t] = H[t]
                            \/ p.role = "leader" /\ t = p.term /\ M[t] = p.log
  BY <1>6, <1>7, <1>8
<1> QED BY <1>6, <1>7, <1>9, <1>10, <1>11 DEF Grows, p

---------------------------------------------------------------------------
(* The logs after a step. *)

LEMMA BackedStays ==
    ASSUME NEW H \in History, NEW M, NEW p, TypeOK, Grows(H, M, p),
           NEW log \in Seq(Entry), Backed(H, log)
    PROVE  Backed(M, log)'
<1> SUFFICES ASSUME NEW k \in 1..Len(log)
             PROVE  log[k].term \in LedTerms' /\ SameUpTo(log, M[log[k].term], k)
  BY DEF Backed, SameUpTo
<1> DEFINE t == log[k].term
<1>1. t \in LedTerms /\ SameUpTo(log, H[t], k)
  BY DEF Backed
<1>2. t \in LedTerms' /\ SameUpTo(H[t], M[t], Len(H[t])) /\ Len(H[t]) \in Nat
  BY <1>1, LedLog DEF Grows
<1> HIDE DEF t
<1>3. SameUpTo(log, M[t], k)
  <2>1. k <= Len(log) /\ k <= Len(H[t]) /\ Len(H[t]) <= Len(M[t])
        /\ \A j \in 1..k : log[j] = H[t][j] /\ j \in 1..Len(H[t])
    BY <1>1, <1>2 DEF SameUpTo
  <2>2. \A j \in 1..k : log[j] = M[t][j]
    BY <1>2, <2>1 DEF SameUpTo
  <2>3. M \in [Nat -> Seq(Entry)] /\ t \in Nat
    BY <1>1, TermsAreNumbers DEF Grows, History
  <2>4. Len(M[t]) \in Nat
    BY <2>3
  <2>5. k <= Len(M[t])
    BY <1>2, <2>1, <2>4
  <2> QED BY <2>1, <2>2, <2>5 DEF SameUpTo
<1> QED BY <1>2, <1>3 DEF t

LEMMA LongerIsSame ==
    ASSUME NEW a, NEW b, NEW L, NEW k \in 1..Len(a), Len(a) \in Nat, Len(b) = Len(a) + 1,
           \A j \in 1..Len(a) : b[j] = a[j], SameUpTo(a, L, k)
    PROVE  SameUpTo(b, L, k)
BY DEF SameUpTo

\* The log of a leader after its step.
LEMMA LeadersLogIsBacked ==
    ASSUME NEW H \in History, NEW M, NEW i \in Node, NEW e, Moves(H, M, i, e),
           e.node.role = "leader"
    PROVE  /\ Backed(M, e.node.log)'
           /\ \A k \in 1..Len(e.node.log) : e.node.log[k].term <= e.node.term
           /\ \A j, k \in 1..Len(e.node.log) :
                    j <= k => e.node.log[j].term <= e.node.log[k].term
<1> DEFINE p == e.node
<1>0. PICK n : n = node[i]
  OBVIOUS
<1>1. /\ TypeOK /\ p.term \in Nat /\ p.log \in Seq(Entry) /\ Len(p.log) \in Nat
      /\ Inv(H) /\ Grows(H, M, p)
  BY MoveFacts, HistoryGrows DEF Moves
<1>2. /\ n.log \in Seq(Entry) /\ Len(n.log) \in Nat /\ Backed(H, n.log) /\ LeadersLogs(H)
  BY <1>0, <1>1, ServerFacts DEF ServerLog, Inv, LogInv
<1>3. /\ \A k \in 1..Len(p.log) : p.log[k].term <= p.term
      /\ LeadsOn(n, p) \/ Campaigning(n, p)
  BY <1>0 DEF Moves, SafeStep, LogStep
<1>4. Backed(M, n.log)'
  BY <1>1, <1>2, BackedStays
<1>5. p.term \in LedTerms' /\ M[p.term] = p.log
  BY <1>1 DEF Grows
<1> HIDE DEF p
<1>6. \A j, k \in 1..Len(n.log) : j <= k => n.log[j].term <= n.log[k].term
  <2> SUFFICES ASSUME NEW j \in 1..Len(n.log), NEW k \in 1..Len(n.log), j <= k
               PROVE  n.log[j].term <= n.log[k].term
    OBVIOUS
  <2>1. j \in 1..k
    BY <1>2
  <2> QED BY <1>2, <2>1, SortedLog
<1>7. CASE p.log = n.log
  BY <1>3, <1>4, <1>6, <1>7 DEF p
<1>8. ASSUME NEW x \in Entry, x.term = n.term, p.term = n.term, Extends(n.log, x, p.log)
      PROVE  /\ Backed(M, p.log)'
             /\ \A j, k \in 1..Len(p.log) : j <= k => p.log[j].term <= p.log[k].term
  <2>1. /\ Len(p.log) = Len(n.log) + 1 /\ p.log[Len(n.log) + 1] = x
        /\ \A k \in 1..Len(n.log) : p.log[k] = n.log[k]
    BY <1>8 DEF Extends
  <2>2. \A k \in 1..Len(p.log) : \/ k \in 1..Len(n.log) /\ p.log[k] = n.log[k]
                                 \/ k = Len(p.log) /\ p.log[k].term = p.term
    BY <1>1, <1>2, <1>8, <2>1
  <2>3. ASSUME NEW k \in 1..Len(p.log)
        PROVE  p.log[k].term \in LedTerms' /\ SameUpTo(p.log, M[p.log[k].term], k)
    <3>1. CASE k \in 1..Len(n.log) /\ p.log[k] = n.log[k]
      <4>1. n.log[k].term \in LedTerms' /\ SameUpTo(n.log, M[n.log[k].term], k)
        BY <1>4, <3>1 DEF Backed, SameUpTo
      <4>2. SameUpTo(p.log, M[n.log[k].term], k)
        BY <1>2, <2>1, <3>1, <4>1, LongerIsSame
      <4> QED BY <3>1, <4>1, <4>2
    <3>2. CASE k = Len(p.log) /\ p.log[k].term = p.term
      BY <1>1, <1>5, <3>2 DEF SameUpTo
    <3> QED BY <2>2, <3>1, <3>2
  <2>4. Backed(M, p.log)'
    BY <2>3 DEF Backed, SameUpTo
  <2>5. ASSUME NEW j \in 1..Len(p.log), NEW k \in 1..Len(p.log), j <= k
        PROVE  p.log[j].term <= p.log[k].term
    <3>1. CASE k \in 1..Len(n.log) /\ p.log[k] = n.log[k]
      <4>1. j \in 1..Len(n.log)
        BY <1>2, <2>5, <3>1
      <4> QED BY <1>6, <2>1, <2>5, <3>1, <4>1
    <3>2. CASE k = Len(p.log) /\ p.log[k].term = p.term
      BY <1>3, <3>2
    <3> QED BY <2>2, <3>1, <3>2
  <2> QED BY <2>4, <2>5
<1>9. \/ p.log = n.log
      \/ \E x \in Entry : x.term = n.term /\ p.term = n.term /\ Extends(n.log, x, p.log)
  BY <1>3 DEF LeadsOn, Campaigning
<1> QED BY <1>3, <1>7, <1>8, <1>9 DEF p

LEMMA LeadersLogsStay ==
    ASSUME NEW H \in History, NEW M, NEW i \in Node, NEW e, Moves(H, M, i, e)
    PROVE  LeadersLogs(M)'
<1>1. TypeOK /\ LeadersLogs(H) /\ Grows(H, M, e.node)
  BY MoveFacts, HistoryGrows DEF Moves, Inv, LogInv
<1>2. ASSUME NEW t \in LedTerms'
      PROVE  /\ Backed(M, M[t])'
             /\ \A k \in 1..Len(M[t]) : M[t][k].term <= t
             /\ \A j, k \in 1..Len(M[t]) : j <= k => M[t][j].term <= M[t][k].term
  <2>1. CASE t \in LedTerms /\ M[t] = H[t]
    <3> DEFINE L == M[t]
    <3>1. /\ Backed(H, L) /\ L \in Seq(Entry)
          /\ \A k \in 1..Len(L) : L[k].term <= t
          /\ \A j, k \in 1..Len(L) : j <= k => L[j].term <= L[k].term
      BY <1>1, <2>1, LedLog DEF LeadersLogs
    <3> HIDE DEF L
    <3>2. Backed(M, L)'
      BY <1>1, <3>1, BackedStays
    <3> QED BY <3>1, <3>2 DEF L
  <2>2. CASE e.node.role = "leader" /\ t = e.node.term /\ M[t] = e.node.log
    BY <2>2, LeadersLogIsBacked
  <2> QED BY <1>1, <2>1, <2>2 DEF Grows
<1> QED BY <1>2 DEF LeadersLogs

LEMMA ServerLogsStay ==
    ASSUME NEW H \in History, NEW M, NEW i \in Node, NEW e, Moves(H, M, i, e),
           NEW j \in Node, NEW x, x = node'[j]
    PROVE  ServerLog(M, j, x)'
<1> DEFINE p == e.node
<1>1. /\ TypeOK /\ VoteInv /\ p.term \in Nat /\ p.log \in Seq(Entry)
      /\ leaders \subseteq leaders'
      /\ \A y \in leaders' : y \in leaders \/ (y = <<p.term, i>> /\ p.role = "leader")
      /\ p.role = "leader" => <<p.term, i>> \in leaders'
      /\ node'[i] = p /\ (j # i => node'[j] = node[j])
  <2>1. node'[i] = p /\ \A k \in Node : k # i => node'[k] = node[k]
    BY MoveFacts
  <2>2. /\ TypeOK /\ VoteInv /\ p.term \in Nat /\ p.log \in Seq(Entry)
        /\ leaders \subseteq leaders'
        /\ \A y \in leaders' : y \in leaders \/ (y = <<p.term, i>> /\ p.role = "leader")
        /\ p.role = "leader" => <<p.term, i>> \in leaders'
    BY MoveFacts
  <2> QED BY <2>1, <2>2
<1>2. Inv(H) /\ Grows(H, M, p) /\ LogStep(H, i, p, e.out)
  BY HistoryGrows DEF Moves, SafeStep
<1>3. ServerLog(H, j, node[j]) /\ node[j].log \in Seq(Entry)
  BY <1>2, ServerFacts
<1>4. CASE j # i
  <2>1. x = node[j]
    BY <1>1, <1>4
  <2>2. Bare(x) /\ x.log \in Seq(Entry) /\ Backed(H, x.log) /\ \A k \in 1..Len(x.log) : x.log[k].term <= x.term
    BY <1>3, <2>1 DEF ServerLog
  <2>3. Backed(M, x.log)'
    BY <1>1, <1>2, <2>2, BackedStays
  <2>4. ASSUME x.role = "leader" PROVE x.log = M[x.term]
    <3>1. <<x.term, j>> \in leaders /\ x.log = H[x.term]
      BY <1>1, <1>3, <2>1, <2>4 DEF ServerLog, VoteInv
    <3>2. x.term \in LedTerms'
      BY <1>1, <3>1 DEF LedTerms
    <3>3. ~(p.role = "leader" /\ x.term = p.term)
      <4> SUFFICES ASSUME p.role = "leader", x.term = p.term PROVE FALSE
        OBVIOUS
      <4> DEFINE y == <<x.term, j>>
                 z == <<p.term, i>>
      <4>1. y \in leaders' /\ z \in leaders' /\ y[1] = z[1] /\ y[2] = j /\ z[2] = i
        BY <1>1, <3>1
      <4> HIDE DEF y, z
      <4>2. ElectionSafety'
        BY StepIsSafe
      <4> QED BY <1>4, <4>1, <4>2 DEF ElectionSafety
    <3> QED BY <1>1, <1>2, <3>1, <3>2, <3>3 DEF Grows
  <2>5. x.role = "candidate" =>
            <<x.term, j>> \notin leaders' /\ \A k \in 1..Len(x.log) : x.log[k].term < x.term
    BY <1>1, <1>3, <1>4, <2>1 DEF ServerLog
  <2> QED BY <2>2, <2>3, <2>4, <2>5 DEF ServerLog, Bare
<1>5. CASE j = i
  <2>1. x = p
    BY <1>1, <1>5
  <2>2. /\ Bare(p) /\ \A k \in 1..Len(p.log) : p.log[k].term <= p.term
        /\ p.role # "leader" => Backed(H, p.log)
        /\ p.role = "candidate" => Campaigning(node[i], p)
    BY <1>2 DEF LogStep
  <2>3. Backed(M, p.log)'
    <3>1. CASE p.role = "leader"
      BY <3>1, LeadersLogIsBacked
    <3>2. CASE p.role # "leader"
      BY <1>1, <1>2, <2>2, <3>2, BackedStays
    <3> QED BY <3>1, <3>2
  <2>4. p.role = "leader" => p.log = M[p.term]
    BY <1>2 DEF Grows
  <2>6. p.role = "candidate" => \A k \in 1..Len(p.log) : p.log[k].term < p.term
    <3> SUFFICES ASSUME p.role = "candidate", NEW k \in 1..Len(p.log)
                 PROVE  p.log[k].term < p.term
      OBVIOUS
    <3>1. StoodWith(p.log, p.term, Len(p.log))
      BY <2>2, CampaignHolds
    <3> QED BY <1>1, <3>1 DEF StoodWith
  <2>5. p.role = "candidate" => <<p.term, i>> \notin leaders'
    <3>1. p.role = "candidate" => <<p.term, i>> \notin leaders
      BY <2>2, CampaignIsFresh
    <3> QED BY <1>1, <3>1
  <2> HIDE DEF p
  <2> QED BY <1>5, <2>1, <2>2, <2>3, <2>4, <2>5, <2>6 DEF ServerLog, Bare
<1> QED BY <1>4, <1>5

LEMMA GrowingShares ==
    ASSUME NEW H \in History, NEW M, NEW p, TypeOK, Grows(H, M, p), NEW t \in LedTerms,
           NEW log, NEW k \in Nat, SameUpTo(log, H[t], k)
    PROVE  SameUpTo(log, M[t], k)
<1>1. /\ SameUpTo(H[t], M[t], Len(H[t])) /\ Len(H[t]) \in Nat /\ M[t] \in Seq(Entry)
      /\ Len(M[t]) \in Nat
  BY LedLog DEF Grows, History
<1> QED BY <1>1 DEF SameUpTo

\* What an earlier message said of its leader's log stays true.
LEMMA StretchStays ==
    ASSUME NEW H \in History, NEW M, NEW p, TypeOK, Grows(H, M, p), NEW t \in LedTerms,
           NEW m \in msgs, m.type = "AppendEntries", StretchOf(H[t], m)
    PROVE  StretchOf(M[t], m)
<1> DEFINE L == H[t]
           N == M[t]
           prev == m.prev_index
<1>0. m \in Message
  BY DEF TypeOK
<1>1. /\ m.prev_index \in Nat /\ m.entries \in Seq(Entry) /\ Len(m.entries) \in Nat
  BY <1>0 DEF Message
<1>2. /\ Len(L) <= Len(N) /\ Len(L) \in Nat /\ Len(N) \in Nat
      /\ \A j \in 1..Len(L) : N[j] = L[j]
  BY LedLog DEF Grows, History, SameUpTo
<1>3. /\ prev + Len(m.entries) <= Len(L)
      /\ \A j \in 1..Len(m.entries) : m.entries[j] = L[prev + j]
      /\ m.prev_term = IF prev = 0 THEN 0 ELSE L[prev].term
  BY DEF StretchOf, Match
<1> HIDE DEF L, N
<1>4. \A j \in 1..Len(m.entries) : m.entries[j] = N[prev + j]
  <2> TAKE j \in 1..Len(m.entries)
  <2>1. prev + j \in 1..Len(L)
    BY <1>1, <1>2, <1>3
  <2> QED BY <1>2, <1>3, <2>1
<1>5. m.prev_term = IF prev = 0 THEN 0 ELSE N[prev].term
  <2>1. prev # 0 => prev \in 1..Len(L)
    BY <1>1, <1>2, <1>3
  <2> QED BY <1>2, <1>3, <2>1
<1>6. prev + Len(m.entries) <= Len(N)
  BY <1>1, <1>2, <1>3
<1> QED BY <1>4, <1>5, <1>6 DEF StretchOf, Match, N

LEMMA OldMessagesStayTrue ==
    ASSUME NEW H \in History, NEW M, NEW i \in Node, NEW e, Moves(H, M, i, e), NEW m \in msgs
    PROVE  MessageIsTrue(M, m)'
<1>1. /\ TypeOK /\ leaders \subseteq leaders' /\ node'[i] = e.node
      /\ \A j \in Node : j # i => node'[j] = node[j]
      /\ \A j \in Node : node[j].term <= node'[j].term
  BY MoveFacts
<1>2. Inv(H) /\ Grows(H, M, e.node) /\ LogStep(H, i, e.node, e.out)
  BY HistoryGrows DEF Moves, SafeStep
<1>3. MessageIsTrue(H, m)
  BY <1>2 DEF Inv, LogInv
<1>4. m.src \in Node /\ m.dst \in Node /\ m.term \in Nat
  BY <1>1 DEF TypeOK, Message
<1> DEFINE s == node[m.src]
           x == node'[m.src]
<1>5. s.term \in Nat /\ Len(s.log) \in Nat /\ s.log \in Seq(Entry)
  BY <1>2, <1>4, ServerFacts
<1>6. s.term <= x.term /\ x.term \in Nat
  <2>1. TypeOK' /\ s.term <= x.term
    BY <1>1, <1>4, MoveFacts
  <2> QED BY <1>4, <2>1 DEF TypeOK, NodeState
<1>7. m.src = i => Keeps(H, s, x) /\ (x.role = "candidate" => Campaigning(s, x))
  BY <1>1, <1>2 DEF LogStep
<1>8. m.src # i => x = s
  BY <1>1, <1>4
<1>9. ASSUME m.type = "AppendEntries"
      PROVE  <<m.term, m.src>> \in leaders' /\ StretchOf(M[m.term], m)
  <2>1. <<m.term, m.src>> \in leaders /\ StretchOf(H[m.term], m)
    BY <1>3, <1>9 DEF MessageIsTrue
  <2>2. m.term \in LedTerms
    BY <2>1 DEF LedTerms
  <2>3. StretchOf(M[m.term], m)
    BY <1>1, <1>2, <1>9, <2>1, <2>2, StretchStays
  <2> QED BY <1>1, <2>1, <2>3
<1> HIDE DEF s, x
<1>10. ASSUME IsAck(m)
       PROVE  /\ m.term \in LedTerms'
              /\ m.match_index <= Len(M[m.term])
              /\ m.term <= x.term
              /\ m.term = x.term => SameUpTo(x.log, M[m.term], m.match_index)
  <2> DEFINE t == m.term
             k == m.match_index
  <2>1. /\ t \in LedTerms /\ k <= Len(H[t]) /\ t <= s.term
        /\ t = s.term => SameUpTo(s.log, H[t], k)
    BY <1>3, <1>10 DEF MessageIsTrue, TrueAck, s
  <2>2. k \in Nat
    BY <1>1, <1>10 DEF TypeOK, Message, IsAck
  <2>3. t \in LedTerms' /\ Len(H[t]) \in Nat /\ Len(M[t]) \in Nat /\ Len(H[t]) <= Len(M[t])
    BY <1>1, <1>2, <2>1, LedLog DEF Grows, History, SameUpTo
  <2>4. k <= Len(M[t])
    BY <2>1, <2>2, <2>3
  <2>5. t <= x.term
    BY <1>4, <1>5, <1>6, <2>1
  <2> HIDE DEF t, k
  <2>6. ASSUME t = x.term PROVE SameUpTo(x.log, H[t], k)
    <3>1. t = s.term /\ SameUpTo(s.log, H[t], k)
      BY <1>4, <1>5, <1>6, <2>1, <2>6 DEF t
    <3>2. CASE m.src # i
      BY <1>8, <3>1, <3>2
    <3>3. CASE m.src = i
      <4>1. k \in 0..Len(s.log)
        BY <1>5, <2>2, <3>1 DEF SameUpTo
      <4>2. SameUpTo(s.log, x.log, k)
        BY <1>7, <2>6, <3>1, <3>3, <4>1 DEF Keeps
      <4> QED BY <3>1, <4>2 DEF SameUpTo
    <3> QED BY <3>2, <3>3
  <2>7. t = x.term => SameUpTo(x.log, M[t], k)
    BY <1>1, <1>2, <2>1, <2>2, <2>6, GrowingShares DEF k
  <2> QED BY <2>3, <2>4, <2>5, <2>7 DEF t, k
<1>11. ASSUME m.type = "RequestVote" PROVE TrueRequest(x, m)
  <2>1. TrueRequest(s, m)
    BY <1>3, <1>11 DEF MessageIsTrue, s
  <2>2. m.term <= x.term
    BY <1>4, <1>5, <1>6, <2>1 DEF TrueRequest
  <2>3. ASSUME m.term = x.term, x.role = "candidate"
        PROVE  m.last_log_index = Len(x.log) /\ m.last_log_term = LastTerm(x.log)
    <3>1. CASE m.src # i
      BY <1>8, <2>1, <2>3, <3>1 DEF TrueRequest
    <3>2. CASE m.src = i
      <4>1. /\ x.log = s.log
            /\ (s.role = "candidate" /\ x.term = s.term) \/ x.term = s.term + 1
        BY <1>7, <2>3, <3>2 DEF Campaigning
      <4>2. m.term <= s.term
        BY <2>1 DEF TrueRequest
      <4>3. s.role = "candidate" /\ m.term = s.term
        BY <1>4, <1>5, <2>3, <4>1, <4>2
      <4> QED BY <2>1, <4>1, <4>3 DEF TrueRequest
    <3> QED BY <3>1, <3>2
  <2> QED BY <2>2, <2>3 DEF TrueRequest
<1>12. IsGrant(m) => m.term <= node'[m.dst].term
  <2>1. IsGrant(m) => m.term <= node[m.dst].term
    BY <1>3 DEF MessageIsTrue
  <2>2. node[m.dst].term \in Nat /\ node[m.dst].term <= node'[m.dst].term
    BY <1>1, <1>2, <1>4, ServerFacts
  <2>3. node'[m.dst].term \in Nat
    BY <1>4, MoveFacts DEF TypeOK, NodeState
  <2> QED BY <1>4, <2>1, <2>2, <2>3
<1>13. m.type = "ReadHeartbeat" => <<m.term, m.src>> \in leaders'
  BY <1>1, <1>3 DEF MessageIsTrue
<1>14. m.src # m.dst /\ m.type # "InstallSnapshot"
  BY <1>3 DEF MessageIsTrue
<1>15. IsAck(m) => TrueAck(M, m)'
  BY <1>10 DEF TrueAck, x, SameUpTo
<1>16. m.type = "RequestVote" => TrueRequest(node[m.src], m)'
  BY <1>11 DEF TrueRequest, x
<1> HIDE DEF x
<1> QED BY <1>9, <1>12, <1>13, <1>14, <1>15, <1>16 DEF MessageIsTrue, IsAck, IsGrant, StretchOf

LEMMA NewMessagesAreTrue ==
    ASSUME NEW H \in History, NEW M, NEW i \in Node, NEW e, Moves(H, M, i, e), NEW r \in e.out
    PROVE  MessageIsTrue(M, r)'
<1> DEFINE p == e.node
<1>1. /\ TypeOK /\ p.term \in Nat /\ node'[i] = p
      /\ p.log \in Seq(Entry) /\ Len(p.log) \in Nat
      /\ \A j \in Node : j # i => node'[j] = node[j]
      /\ p.role = "leader" => <<p.term, i>> \in leaders'
      /\ r \in Message
  BY MoveFacts DEF Moves, ElectionStep, GoodEffect
<1>2. Inv(H) /\ Grows(H, M, p) /\ SaysTruly(H, i, p, r)
  BY HistoryGrows DEF Moves, SafeStep, LogStep
<1>3. /\ r.src = i /\ r.dst # i /\ r.term = p.term /\ r.type # "InstallSnapshot" /\ r.dst \in Node
      /\ r.type \in {"AppendEntries", "ReadHeartbeat"} => p.role = "leader"
      /\ r.type = "AppendEntries" => StretchOf(p.log, r)
      /\ r.type = "RequestVote" =>
             r.last_log_index = Len(p.log) /\ r.last_log_term = LastTerm(p.log)
      /\ IsAck(r) => /\ p.role = "follower" /\ p.term \in LedTerms
                     /\ SameUpTo(p.log, H[p.term], r.match_index)
      /\ IsGrant(r) => r.term <= node[r.dst].term
  BY <1>1, <1>2 DEF SaysTruly, WellGranted, Message
<1> HIDE DEF p
<1>4. r.type = "AppendEntries" => <<r.term, r.src>> \in leaders' /\ StretchOf(M[r.term], r)
  BY <1>1, <1>2, <1>3 DEF Grows
<1>5. ASSUME IsAck(r) PROVE TrueAck(M, r)'
  <2>1. p.term \in LedTerms' /\ SameUpTo(p.log, M[p.term], r.match_index)
    <3>1. r.match_index \in Nat
      BY <1>1, <1>5 DEF Message, IsAck
    <3> QED BY <1>1, <1>2, <1>3, <1>5, <3>1, GrowingShares DEF Grows
  <2>2. r.match_index <= Len(M[p.term]) /\ p.term <= p.term
    BY <1>1, <2>1 DEF SameUpTo
  <2> QED BY <1>1, <1>3, <2>1, <2>2 DEF TrueAck, SameUpTo
<1>6. ASSUME r.type = "RequestVote" PROVE TrueRequest(node[r.src], r)'
  <2>1. p.term <= p.term
    BY <1>1
  <2> QED BY <1>1, <1>3, <1>6, <2>1 DEF TrueRequest, LastTerm
<1>7. IsGrant(r) => r.term <= node'[r.dst].term
  BY <1>1, <1>3
<1>8. r.type = "ReadHeartbeat" => <<r.term, r.src>> \in leaders'
  BY <1>1, <1>3
<1> QED BY <1>3, <1>4, <1>5, <1>6, <1>7, <1>8 DEF MessageIsTrue, IsAck, IsGrant, StretchOf

LEMMA LogsStay ==
    ASSUME NEW H \in History, NEW M, NEW i \in Node, NEW e, Moves(H, M, i, e)
    PROVE  LogInv(M)'
<1>1. LeadersLogs(M)'
  BY LeadersLogsStay
<1>2. ASSUME NEW j \in Node, NEW x, x = node'[j] PROVE ServerLog(M, j, x)'
  BY <1>2, ServerLogsStay
<1>3. ASSUME NEW m \in msgs' PROVE MessageIsTrue(M, m)'
  BY <1>3, MoveFacts, OldMessagesStayTrue, NewMessagesAreTrue
<1> QED BY <1>1, <1>2, <1>3 DEF LogInv

---------------------------------------------------------------------------
(* What is acknowledged after a step. *)

LEMMA HoldsStays ==
    ASSUME NEW H \in History, NEW M, NEW p, TypeOK, Grows(H, M, p), NEW w \in LedTerms,
           NEW t \in Nat, NEW k
    PROVE  /\ Holds(H[w], t, k) => Holds(M[w], t, k)
           /\ t < w /\ Holds(M[w], t, k) => Holds(H[w], t, k)
<1>1. /\ SameUpTo(H[w], M[w], Len(H[w])) /\ w \in Nat
      /\ Len(H[w]) \in Nat /\ Len(M[w]) \in Nat
      /\ \A j \in 1..Len(M[w]) : j > Len(H[w]) => M[w][j].term = w
  BY LedLog DEF Grows, History
<1> DEFINE L == H[w]
           N == M[w]
<1>2. /\ Len(L) <= Len(N) /\ Len(L) \in Nat /\ Len(N) \in Nat
      /\ \A j \in 1..Len(L) : N[j] = L[j]
      /\ \A j \in 1..Len(N) : j > Len(L) => N[j].term = w
  BY <1>1 DEF SameUpTo
<1> HIDE DEF L, N
<1>3. Holds(L, t, k) => Holds(N, t, k)
  BY <1>2 DEF Holds
<1>4. ASSUME t < w, Holds(N, t, k) PROVE Holds(L, t, k)
  <2>1. k \in 1..Len(N) /\ N[k].term = t /\ t # w
    BY <1>1, <1>4 DEF Holds
  <2>2. ~(k > Len(L))
    BY <1>2, <2>1
  <2>3. k \in 1..Len(L)
    BY <1>2, <2>1, <2>2
  <2> QED BY <1>2, <2>1, <2>3 DEF Holds
<1> QED BY <1>3, <1>4 DEF L, N

LEMMA OvertakenStays ==
    ASSUME NEW H \in History, NEW M, NEW p, TypeOK, Grows(H, M, p), NEW t \in LedTerms, NEW k,
           NEW u \in Int, NEW w \in Int, u <= w, Overtaken(H, t, k, u)
    PROVE  Overtaken(H, t, k, w) /\ Overtaken(M, t, k, w)'
<1>1. PICK x \in LedTerms : t < x /\ x <= u /\ ~Holds(H[x], t, k)
  BY DEF Overtaken
<1>2. t \in Nat /\ x \in Nat
  BY TermsAreNumbers
<1>3. x <= w
  BY <1>1, <1>2
<1>4. ~Holds(M[x], t, k)
  BY <1>1, <1>2, HoldsStays
<1>5. x \in LedTerms'
  BY DEF Grows
<1>6. Overtaken(H, t, k, w)
  BY <1>1, <1>3 DEF Overtaken
<1>7. Overtaken(M, t, k, w)'
  BY <1>1, <1>3, <1>4, <1>5 DEF Overtaken, Holds
<1> QED BY <1>6, <1>7

LEMMA AckedStays ==
    ASSUME NEW H \in History, NEW M, NEW p, TypeOK, Grows(H, M, p),
           leaders \subseteq leaders', msgs \subseteq msgs',
           NEW v, NEW t \in LedTerms, NEW k, Acked(H, v, t, k)
    PROVE  Acked(M, v, t, k)'
<1>1. t \in Nat
  BY TermsAreNumbers
<1>2. Holds(M[t], t, k)
  BY <1>1, HoldsStays DEF Acked
<1>3. \/ <<t, v>> \in leaders'
      \/ \E m \in msgs' : IsAck(m) /\ m.src = v /\ m.term = t /\ k <= m.match_index
  BY DEF Acked
<1> QED BY <1>2, <1>3 DEF Acked, Holds, IsAck

\* What is acknowledged for the first time is in the log of the server that acts.
LEMMA NewlyAcked ==
    ASSUME NEW H \in History, NEW M, NEW i \in Node, NEW e, Moves(H, M, i, e),
           NEW v, NEW t \in LedTerms', NEW k, Acked(M, v, t, k)'
    PROVE  \/ t \in LedTerms /\ Acked(H, v, t, k)
           \/ v = i /\ t = e.node.term /\ Holds(e.node.log, t, k)
<1> DEFINE p == e.node
           Goal == \/ t \in LedTerms /\ Acked(H, v, t, k)
                   \/ v = i /\ t = p.term /\ Holds(p.log, t, k)
<1>1. /\ TypeOK /\ p.term \in Nat /\ Len(p.log) \in Nat
      /\ leaders \subseteq leaders' /\ msgs' = msgs \cup e.out
      /\ \A x \in leaders' : x \in leaders \/ (x = <<p.term, i>> /\ p.role = "leader")
      /\ p.role = "leader" => <<p.term, i>> \in leaders'
  BY MoveFacts
<1>2. Inv(H) /\ Grows(H, M, p) /\ \A r \in e.out : SaysTruly(H, i, p, r)
  BY HistoryGrows DEF Moves, SafeStep, LogStep
<1>3. Holds(M[t], t, k)
  BY DEF Acked, Holds
<1>4. CASE <<t, v>> \in leaders'
  <2>1. CASE t \in LedTerms /\ M[t] = H[t]
    <3>1. <<t, v>> \in leaders \/ (v = i /\ t = p.term /\ M[t] = p.log)
      BY <1>1, <1>2, <1>4 DEF Grows
    <3> QED BY <1>3, <2>1, <3>1 DEF Acked
  <2>2. CASE p.role = "leader" /\ t = p.term /\ M[t] = p.log
    <3> DEFINE x == <<t, v>>
               y == <<p.term, i>>
    <3>1. x \in leaders' /\ y \in leaders' /\ x[1] = y[1] /\ x[2] = v /\ y[2] = i
      BY <1>1, <1>4, <2>2
    <3> HIDE DEF x, y
    <3>2. v = i
      BY <3>1, StepIsSafe DEF ElectionSafety
    <3> QED BY <1>3, <2>2, <3>2
  <2> QED BY <1>2, <2>1, <2>2 DEF Grows
<1>5. ASSUME NEW m \in msgs', IsAck(m), m.src = v, m.term = t, k <= m.match_index
      PROVE  Goal
  <2>1. CASE m \in msgs
    <3>1. TrueAck(H, m)
      BY <1>2, <1>5, <2>1 DEF Inv, LogInv, MessageIsTrue
    <3>2. t \in LedTerms /\ m.match_index <= Len(H[t])
      BY <1>5, <3>1 DEF TrueAck
    <3>3. m.match_index \in Nat
      BY <1>1, <1>5, <2>1 DEF TypeOK, Message, IsAck
    <3>4. /\ SameUpTo(H[t], M[t], Len(H[t])) /\ Len(H[t]) \in Nat
      BY <1>1, <1>2, <3>2, LedLog DEF Grows
    <3>5. k \in 1..Len(M[t]) /\ M[t][k].term = t
      BY <1>3 DEF Holds
    <3>6. k \in 1..Len(H[t])
      BY <1>5, <3>2, <3>3, <3>4, <3>5
    <3>7. Holds(H[t], t, k)
      BY <3>4, <3>5, <3>6 DEF Holds, SameUpTo
    <3> QED BY <1>5, <2>1, <3>2, <3>7 DEF Acked
  <2>2. CASE m \in e.out
    <3>1. /\ m.src = i /\ m.term = p.term /\ p.role = "follower" /\ p.term \in LedTerms
          /\ SameUpTo(p.log, H[p.term], m.match_index)
      BY <1>2, <1>5, <2>2 DEF SaysTruly
    <3>2. M[t] = H[t]
      BY <1>2, <3>1 DEF Grows
    <3>3. k \in 1..Len(H[t]) /\ H[t][k].term = t /\ t = p.term
      BY <1>3, <1>5, <3>1, <3>2 DEF Holds
    <3>4. m.match_index \in Nat
      BY <1>5, <2>2 DEF Moves, ElectionStep, GoodEffect, Message, IsAck
    <3>5. k \in 1..m.match_index
      BY <1>5, <3>3, <3>4
    <3>6. k \in 1..Len(p.log) /\ p.log[k] = H[t][k]
      BY <1>1, <3>1, <3>3, <3>4, <3>5 DEF SameUpTo
    <3> QED BY <1>5, <3>1, <3>3, <3>6 DEF Holds
  <2> QED BY <1>1, <2>1, <2>2
<1>6. \/ <<t, v>> \in leaders'
      \/ \E m \in msgs' : IsAck(m) /\ m.src = v /\ m.term = t /\ k <= m.match_index
  BY DEF Acked, IsAck
<1> QED BY <1>4, <1>5, <1>6

LEMMA CarriesStays ==
    ASSUME NEW H \in History, NEW M, NEW i \in Node, NEW e, Moves(H, M, i, e),
           NEW log, NEW v \in Node, NEW u \in Nat, NEW w \in Int, u <= node'[v].term,
           Carries(H, log, v, u, w)
    PROVE  Carries(M, log, v, u, w)'
<1>1. TypeOK /\ e.node.term \in Nat /\ node'[i] = e.node
  BY MoveFacts
<1>2. Grows(H, M, e.node)
  BY HistoryGrows
<1> SUFFICES ASSUME NEW t \in LedTerms', NEW k \in 1..Len(M[t]), t < u, Acked(M, v, t, k)'
             PROVE  Holds(log, t, k) \/ Overtaken(M, t, k, w)'
  BY DEF Carries, Holds
<1>3. ~(v = i /\ t = e.node.term)
  BY <1>1
<1>4. t \in LedTerms /\ Acked(H, v, t, k)
  BY <1>3, NewlyAcked
<1>5. k \in 1..Len(H[t])
  BY <1>4 DEF Acked, Holds
<1>6. Holds(log, t, k) \/ Overtaken(H, t, k, w)
  BY <1>4, <1>5 DEF Carries
<1>7. w <= w
  OBVIOUS
<1> QED BY <1>1, <1>2, <1>4, <1>6, <1>7, OvertakenStays

LEMMA AcksStay ==
    ASSUME NEW H \in History, NEW M, NEW i \in Node, NEW e, Moves(H, M, i, e)
    PROVE  AcksAreKept(M)'
<1> DEFINE p == e.node
<1>1. /\ TypeOK /\ TypeOK' /\ p.term \in Nat /\ node'[i] = p /\ p.log \in Seq(Entry)
      /\ Len(p.log) \in Nat
      /\ \A j \in Node : j # i => node'[j] = node[j]
      /\ \A j \in Node : node[j].term <= node'[j].term
  BY MoveFacts
<1>2. Inv(H) /\ Grows(H, M, p) /\ Keeps(H, node[i], p)
  BY HistoryGrows DEF Moves, SafeStep, LogStep
<1>3. ASSUME NEW v \in Node, NEW x, x = node'[v],
             NEW t \in LedTerms', NEW k \in 1..Len(M[t]), Acked(M, v, t, k)'
      PROVE  /\ t <= x.term
             /\ Holds(x.log, t, k) \/ Overtaken(M, t, k, x.term)'
  <2>1. CASE v = i /\ t = p.term /\ Holds(p.log, t, k)
    BY <1>1, <1>3, <2>1
  <2>2. CASE t \in LedTerms /\ Acked(H, v, t, k)
    <3> DEFINE n == node[v]
    <3>0. Holds(H[t], t, k) /\ k \in 1..Len(H[t]) /\ H[t] \in Seq(Entry) /\ t \in Nat
      BY <1>1, <2>2, LedLog DEF Acked, Holds
    <3>1. t <= n.term /\ (Holds(n.log, t, k) \/ Overtaken(H, t, k, n.term))
      BY <1>2, <2>2, <3>0 DEF Inv, AckInv, AcksAreKept
    <3>2. n.term \in Nat /\ x.term \in Nat /\ n.term <= x.term
      BY <1>1, <1>3 DEF TypeOK, NodeState
    <3>3. t <= x.term
      BY <3>0, <3>1, <3>2
    <3>4. CASE Overtaken(H, t, k, n.term)
      <4> DEFINE a == n.term
                 b == x.term
      <4>1. a \in Int /\ b \in Int /\ a <= b /\ Overtaken(H, t, k, a)
        BY <3>2, <3>4
      <4> HIDE DEF a, b, n
      <4>2. Overtaken(M, t, k, b)'
        BY <1>1, <1>2, <2>2, <4>1, OvertakenStays
      <4> QED BY <3>3, <4>2 DEF b
    <3>5. CASE Holds(n.log, t, k) /\ v # i
      BY <1>1, <1>3, <3>3, <3>5
    <3>6. CASE Holds(n.log, t, k) /\ v = i
      <4>1. n.log \in Seq(Entry) /\ Len(n.log) \in Nat /\ Backed(H, n.log) /\ x = p
        BY <1>1, <1>2, <1>3, <3>6, ServerFacts DEF ServerLog
      <4>2. k \in 1..Len(n.log) /\ n.log[k].term = t /\ k \in 0..Len(n.log)
        BY <3>6, <4>1 DEF Holds
      <4>3. CASE SameUpTo(n.log, p.log, k)
        <5>1. k \in 1..Len(p.log) /\ p.log[k] = n.log[k]
          BY <1>1, <4>1, <4>2, <4>3 DEF SameUpTo
        <5>2. Holds(x.log, t, k)
          BY <4>1, <4>2, <5>1 DEF Holds
        <5> QED BY <3>3, <5>2
      <4>4. CASE p.term \in LedTerms /\ ~SameUpTo(n.log, H[p.term], k)
        <5> DEFINE L == H[p.term]
        <5>1. L \in Seq(Entry) /\ Backed(H, L) /\ Len(L) \in Nat
          BY <1>1, <1>2, <4>4, LedLog DEF Inv, LogInv, LeadersLogs
        <5> HIDE DEF L, n
        <5>2. ~Holds(L, t, k)
          <6> SUFFICES ASSUME Holds(L, t, k) PROVE FALSE
            OBVIOUS
          <6>1. k \in 1..Len(L) /\ L[k].term = n.log[k].term /\ k <= Len(L)
            BY <4>2, <5>1 DEF Holds
          <6>2. SameUpTo(n.log, L, k)
            BY <4>1, <4>2, <5>1, <6>1, BothBacked
          <6> QED BY <4>4, <6>2 DEF L
        <5>3. t < p.term
          <6>1. t # p.term
            BY <3>0, <5>2 DEF L
          <6> QED BY <1>1, <3>0, <3>3, <4>1, <6>1
        <5>4. p.term <= p.term
          BY <1>1
        <5>5. Overtaken(H, t, k, p.term)
          BY <4>4, <5>2, <5>3, <5>4 DEF Overtaken, L
        <5>6. Overtaken(M, t, k, p.term)'
          BY <1>1, <1>2, <2>2, <5>4, <5>5, OvertakenStays
        <5> QED BY <3>3, <4>1, <5>6
      <4> QED BY <1>2, <3>6, <4>2, <4>3, <4>4 DEF Keeps
    <3> QED BY <3>1, <3>4, <3>5, <3>6
  <2> QED BY <1>3, <2>1, <2>2, NewlyAcked
<1> QED BY <1>3 DEF AcksAreKept, Holds

LEMMA CandidatesStay ==
    ASSUME NEW H \in History, NEW M, NEW i \in Node, NEW e, Moves(H, M, i, e)
    PROVE  CandidatesCarry(M)'
<1> DEFINE p == e.node
<1>1. /\ TypeOK /\ TypeOK' /\ VoteInv' /\ p.term \in Nat /\ node'[i] = p
      /\ msgs' = msgs \cup e.out
      /\ \A j \in Node : j # i => node'[j] = node[j]
  BY MoveFacts
<1>2. Inv(H) /\ LogStep(H, i, p, e.out)
  BY DEF Moves, SafeStep
<1>3. ASSUME NEW j \in Node, NEW x, x = node'[j], x.role = "candidate",
             NEW v \in Ballots(msgs', x.term, j)
      PROVE  Carries(M, x.log, v, x.term, x.term)'
  <2>1. v \in Node /\ x.term \in Nat
    BY <1>1, <1>3 DEF Ballots, TypeOK, NodeState
  <2>2. x.term <= node'[v].term
    <3>1. CASE v = j
      BY <1>3, <2>1, <3>1
    <3>2. ASSUME NEW m \in msgs', IsGrant(m), m.src = v, m.dst = j, m.term = x.term
          PROVE  x.term <= node'[v].term
      <4>1. Pledged(node'[m.src], msgs', m.src, m.term, m.dst)
        BY <1>1, <3>2 DEF VoteInv, GrantsArePledged
      <4> QED BY <3>2, <4>1 DEF Pledged
    <3> QED BY <1>3, <3>1, <3>2 DEF Ballots
  <2>3. Carries(H, x.log, v, x.term, x.term)
    <3>1. CASE j = i
      BY <1>1, <1>2, <1>3, <3>1, CampaignCarries DEF LogStep
    <3>2. CASE j # i
      <4>0. x = node[j]
        BY <1>1, <1>3, <3>2
      <4>1. CASE v \in Ballots(msgs, x.term, j)
        BY <1>2, <1>3, <4>0, <4>1 DEF Inv, AckInv, CandidatesCarry
      <4>2. CASE v \notin Ballots(msgs, x.term, j)
        <5>1. PICK r \in e.out : IsGrant(r) /\ r.src = v /\ r.dst = j /\ r.term = x.term
          BY <1>1, <1>3, <4>2 DEF Ballots
        <5>2. WellGranted(H, i, r) /\ v = i
          BY <1>2, <5>1 DEF LogStep, SaysTruly
        <5> QED BY <1>3, <4>0, <5>1, <5>2 DEF WellGranted
      <4> QED BY <4>1, <4>2
    <3> QED BY <3>1, <3>2
  <2> QED BY <2>1, <2>2, <2>3, CarriesStays
<1> QED BY <1>3 DEF CandidatesCarry

\* What the leader of term u stood with stays what it was.
LEMMA StoodWithStays ==
    ASSUME NEW H \in History, NEW M, NEW p, TypeOK, Grows(H, M, p), NEW u \in LedTerms,
           NEW b \in 0..Len(H[u])
    PROVE  /\ b \in 0..Len(M[u]) /\ VotersAt(M[u], b) = VotersAt(H[u], b)
           /\ StoodWith(H[u], u, b) => StoodWith(M[u], u, b)
<1> DEFINE L == H[u]
           N == M[u]
<1>1. /\ Len(L) <= Len(N) /\ Len(L) \in Nat /\ Len(N) \in Nat /\ u \in Nat /\ N \in Seq(Entry)
      /\ \A j \in 1..Len(L) : N[j] = L[j]
      /\ \A j \in 1..Len(N) : j > Len(L) => N[j].term = u
  BY LedLog DEF Grows, History, SameUpTo
<1>2. b \in Nat /\ b <= Len(L)
  BY LedLog
<1> HIDE DEF L, N
<1>3. b \in 0..Len(N) /\ SameUpTo(N, L, b)
  BY <1>1, <1>2 DEF SameUpTo
<1>4. VotersAt(N, b) = VotersAt(L, b)
  BY <1>2, <1>3, SameVoters
<1>5. ASSUME StoodWith(L, u, b) PROVE StoodWith(N, u, b)
  <2> SUFFICES ASSUME NEW k \in 1..Len(N) PROVE k <= b <=> N[k].term < u
    BY DEF StoodWith
  <2>1. CASE k \in 1..Len(L)
    BY <1>1, <1>5, <2>1 DEF StoodWith
  <2>2. CASE k \notin 1..Len(L)
    <3>1. k > Len(L)
      BY <1>1, <2>2
    <3> QED BY <1>1, <1>2, <3>1
  <2> QED BY <2>1, <2>2
<1> QED BY <1>3, <1>4, <1>5 DEF L, N

LEMMA LeadersStay ==
    ASSUME NEW H \in History, NEW M, NEW i \in Node, NEW e, Moves(H, M, i, e)
    PROVE  LeadersCarry(M)'
<1> DEFINE p == e.node
           n == node[i]
<1>1. /\ TypeOK /\ TypeOK' /\ VoteInv /\ VoteInv' /\ p.term \in Nat /\ node'[i] = p
      /\ \A j \in Node : node[j].term <= node'[j].term
      /\ \A x \in leaders' : x \in leaders \/ (x = <<p.term, i>> /\ p.role = "leader")
  BY MoveFacts
<1>2. Inv(H) /\ Grows(H, M, p) /\ LogStep(H, i, p, e.out)
  BY HistoryGrows DEF Moves, SafeStep
<1>3. ASSUME NEW x \in leaders', NEW u, u = x[1]
      PROVE  \E b \in 0..Len(M[u]) : \E Q \in SUBSET Ballots(msgs', u, x[2]) :
                /\ StoodWith(M[u], u, b)
                /\ IsMajority(Q, VotersAt(M[u], b))
                /\ \A v \in Q : u <= node'[v].term /\ Carries(M, M[u], v, u, u - 1)'
  <2>1. CASE x \in leaders
    <3>0. u \in LedTerms /\ u \in Nat
      BY <1>1, <1>3, <2>1, TermsAreNumbers DEF LedTerms
    <3>1. PICK b \in 0..Len(H[u]) : \E Q \in SUBSET Ballots(msgs, u, x[2]) : WonWith(H, x, b, Q)
      BY <1>2, <1>3, <2>1 DEF Inv, AckInv, LeadersCarry
    <3>2. PICK Q \in SUBSET Ballots(msgs, u, x[2]) : WonWith(H, x, b, Q)
      BY <3>1
    <3>3. /\ StoodWith(H[u], u, b) /\ IsMajority(Q, VotersAt(H[u], b))
          /\ \A v \in Q : u <= node[v].term /\ Carries(H, H[u], v, u, u - 1)
      BY <1>3, <3>2 DEF WonWith
    <3>4. ASSUME NEW v \in Q PROVE u <= node'[v].term /\ Carries(M, M[u], v, u, u - 1)'
      <4>0. v \in Node /\ node[v].term \in Nat /\ node'[v].term \in Nat
        BY <1>1 DEF TypeOK, NodeState, Ballots
      <4>1. u <= node'[v].term
        BY <1>1, <3>0, <3>3, <4>0
      <4>2. Carries(H, M[u], v, u, u - 1)
        <5> SUFFICES ASSUME NEW t \in LedTerms, NEW k \in 1..Len(H[t]), t < u, Acked(H, v, t, k)
                     PROVE  Holds(M[u], t, k) \/ Overtaken(H, t, k, u - 1)
          BY DEF Carries
        <5>1. Holds(H[u], t, k) \/ Overtaken(H, t, k, u - 1)
          BY <3>3 DEF Carries
        <5>2. t \in Nat
          BY <1>1, TermsAreNumbers
        <5> QED BY <1>1, <1>2, <3>0, <5>1, <5>2, HoldsStays
      <4> DEFINE L == M[u]
                 w == u - 1
      <4>3. w \in Int
        BY <3>0
      <4>4. Carries(H, L, v, u, w)
        BY <4>2
      <4> HIDE DEF L, w
      <4>5. Carries(M, L, v, u, w)'
        BY <3>0, <4>0, <4>1, <4>3, <4>4, CarriesStays
      <4> QED BY <4>1, <4>5 DEF L, w
    <3>5. /\ b \in 0..Len(M[u]) /\ StoodWith(M[u], u, b)
          /\ IsMajority(Q, VotersAt(M[u], b))
      BY <1>1, <1>2, <3>0, <3>1, <3>3, StoodWithStays
    <3>6. Ballots(msgs, u, x[2]) \subseteq Ballots(msgs', u, x[2])
      BY BallotsStay DEF Moves
    <3>7. Q \in SUBSET Ballots(msgs', u, x[2])
      BY <3>2, <3>6
    <3> QED BY <3>4, <3>5, <3>7
  <2>2. CASE x \notin leaders
    <3> DEFINE Q == Ballots(msgs', u, i)
               C == n.log
    <3>1. p.role = "leader" /\ x = <<p.term, i>> /\ u = p.term /\ x[2] = i /\ M[u] = p.log
      BY <1>1, <1>2, <1>3, <2>2 DEF Grows
    <3>2. Campaigning(n, p)
      <4>1. LeadsOn(n, p) => x \in leaders
        BY <1>1, <3>1 DEF LeadsOn, VoteInv
      <4> QED BY <1>2, <2>2, <3>1, <4>1 DEF LogStep
    <3>3. u \notin LedTerms
      BY <3>1, <3>2, CampaignIsFresh
    <3>4. /\ M[u] = C /\ Len(C) \in Nat /\ StoodWith(C, u, Len(C))
          /\ IsMajority(Q, VotersAt(C, Len(C)))
      BY <3>1, <3>2, CampaignHolds
    <3>5. ASSUME NEW v \in Q PROVE u <= node'[v].term /\ Carries(M, M[u], v, u, u - 1)'
      <4>0. v \in Node /\ u \in Nat
        BY <1>1, <3>1 DEF Ballots
      <4>1. u <= node'[v].term
        <5>1. CASE v = i
          BY <1>1, <3>1, <5>1
        <5>2. ASSUME NEW m \in msgs', IsGrant(m), m.src = v, m.dst = i, m.term = u
              PROVE  u <= node'[v].term
          <6>1. Pledged(node'[m.src], msgs', m.src, m.term, m.dst)
            BY <1>1, <5>2 DEF VoteInv, GrantsArePledged
          <6> QED BY <5>2, <6>1 DEF Pledged
        <5> QED BY <5>1, <5>2 DEF Ballots
      <4>2. Carries(H, p.log, v, u, u)
        BY <3>1, <3>2, CampaignCarries
      <4>3. Carries(H, p.log, v, u, u - 1)
        <5> SUFFICES ASSUME NEW t \in LedTerms, NEW k \in 1..Len(H[t]), t < u, Acked(H, v, t, k),
                            Overtaken(H, t, k, u)
                     PROVE  Overtaken(H, t, k, u - 1)
          BY <4>2 DEF Carries
        <5>1. PICK w \in LedTerms : t < w /\ w <= u /\ ~Holds(H[w], t, k)
          BY DEF Overtaken
        <5>2. w \in Nat /\ w # u
          BY <1>1, <3>3, TermsAreNumbers
        <5>3. w <= u - 1
          BY <4>0, <5>1, <5>2
        <5> QED BY <5>1, <5>3 DEF Overtaken
      <4> DEFINE L == M[u]
                 w == u - 1
      <4>4. Carries(H, L, v, u, w) /\ w \in Int
        BY <3>1, <4>0, <4>3
      <4> HIDE DEF L, w
      <4>5. Carries(M, L, v, u, w)'
        BY <4>0, <4>1, <4>4, CarriesStays
      <4> QED BY <4>1, <4>5 DEF L, w
    <3>6. Q \in SUBSET Ballots(msgs', u, x[2]) /\ Len(C) \in 0..Len(M[u])
      BY <3>1, <3>4
    <3> HIDE DEF Q, C
    <3> QED BY <3>4, <3>5, <3>6
  <2> QED BY <2>1, <2>2
<1>4. ASSUME NEW x \in leaders'
      PROVE  \E b \in 0..Len(M[x[1]]) : \E Q \in SUBSET Ballots(msgs', x[1], x[2]) :
                /\ StoodWith(M[x[1]], x[1], b)
                /\ IsMajority(Q, VotersAt(M[x[1]], b))
                /\ \A v \in Q : x[1] <= node'[v].term /\ Carries(M, M[x[1]], v, x[1], x[1] - 1)'
  BY <1>3
<1> QED BY <1>4 DEF LeadersCarry, WonWith, Ballots, StoodWith, VotersAt, IsMajority

---------------------------------------------------------------------------
(* What is chosen after a step. *)

LEMMA ChosenByStays ==
    ASSUME NEW H \in History, NEW M, NEW i \in Node, NEW e, Moves(H, M, i, e),
           NEW t \in LedTerms, NEW k, NEW m \in 0..Len(H[t]), ChosenBy(H, t, k, m)
    PROVE  ChosenBy(M, t, k, m)'
<1>1. TypeOK /\ leaders \subseteq leaders' /\ msgs \subseteq msgs' /\ Grows(H, M, e.node)
  BY MoveFacts, HistoryGrows
<1>2. t \in Nat
  BY <1>1, TermsAreNumbers
<1>3. Holds(M[t], t, k)
  BY <1>1, <1>2, HoldsStays DEF ChosenBy
<1>4. PICK Q \in SUBSET Node : IsMajority(Q, VotersAt(H[t], m)) /\ \A v \in Q : Acked(H, v, t, k)
  BY DEF ChosenBy
<1>5. \A v \in Q : Acked(M, v, t, k)'
  BY <1>1, <1>4, AckedStays
<1>6. IsMajority(Q, VotersAt(M[t], m))
  BY <1>1, <1>4, StoodWithStays
<1> QED BY <1>3, <1>5, <1>6 DEF ChosenBy, Holds, IsMajority, VotersAt

LEMMA ChosenStays ==
    ASSUME NEW H \in History, NEW M, NEW i \in Node, NEW e, Moves(H, M, i, e),
           NEW t \in LedTerms, NEW k, Chosen(H, t, k)
    PROVE  Chosen(M, t, k)'
<1>1. TypeOK /\ Grows(H, M, e.node)
  BY MoveFacts, HistoryGrows
<1>2. PICK m \in k..Len(H[t]) : ChosenBy(H, t, k, m)
  BY DEF Chosen
<1>3. Len(H[t]) \in Nat /\ k \in 1..Len(H[t])
  BY <1>1, <1>2, LedLog DEF ChosenBy, Holds
<1>4. Len(H[t]) <= Len(M[t]) /\ Len(M[t]) \in Nat
  BY <1>1, TermsAreNumbers DEF Grows, SameUpTo, History
<1>5. m \in 0..Len(H[t]) /\ m \in k..Len(M[t])
  BY <1>2, <1>3, <1>4
<1>6. ChosenBy(M, t, k, m)'
  BY <1>2, <1>5, ChosenByStays
<1> QED BY <1>5, <1>6 DEF Chosen

LEMMA GuardedStays ==
    ASSUME NEW H \in History, NEW M, NEW i \in Node, NEW e, Moves(H, M, i, e),
           NEW t \in LedTerms, NEW c \in 1..Len(H[t]), Guarded(H, t, c)
    PROVE  Guarded(M, t, c)'
<1>1. TypeOK /\ Grows(H, M, e.node)
  BY MoveFacts, HistoryGrows
<1>2. PICK j \in 1..(c - 1) :
        /\ \E m \in j..(c - 1) : ChosenBy(H, t, j, m)
        /\ \A d \in (j + 1)..(c - 1) : ~IsConfig(H[t][d].command)
        /\ OneApart(VotersAt(H[t], c - 1), H[t][c].command.voters)
  BY DEF Guarded
<1>3. PICK m \in j..(c - 1) : ChosenBy(H, t, j, m)
  BY <1>2
<1>4. Len(H[t]) \in Nat /\ \A k \in 1..Len(H[t]) : M[t][k] = H[t][k]
  BY <1>1, LedLog DEF Grows, SameUpTo
<1>5. m \in 0..Len(H[t]) /\ c - 1 \in 0..Len(H[t]) /\ \A d \in (j + 1)..(c - 1) : d \in 1..Len(H[t])
  BY <1>4
<1>6. ChosenBy(M, t, j, m)'
  BY <1>3, <1>5, ChosenByStays
<1>7. VotersAt(M[t], c - 1) = VotersAt(H[t], c - 1)
  BY <1>1, <1>5, StoodWithStays
<1>8. /\ \A d \in (j + 1)..(c - 1) : ~IsConfig(M[t][d].command)
      /\ OneApart(VotersAt(M[t], c - 1), M[t][c].command.voters)
  BY <1>2, <1>4, <1>5, <1>7
<1> QED BY <1>6, <1>8 DEF Guarded, VotersAt, OneApart

\* A leader that appends a configuration was allowed to.
LEMMA NewConfig ==
    ASSUME NEW H \in History, Inv(H), NEW i \in Node, NEW e, e.node \in NodeState, Shape(i, e),
           node[i].role = "leader", e.node.role = "leader", e.node.term = node[i].term,
           Len(node[i].log) < Len(e.node.log),
           IsConfig(e.node.log[Len(node[i].log) + 1].command)
    PROVE  MayChangeConfig(i, node[i], e.node.log[Len(node[i].log) + 1].command.voters)
<1>1. Len(node[i].log) \in Nat /\ node[i].term \in Nat
  BY ServerFacts
<1>2. ASSUME e.node.log = node[i].log PROVE FALSE
  BY <1>1, <1>2
<1>3. CASE Rests(i, node[i], e) \/ Competes(i, node[i], e) \/ Crashes(node[i], e)
  BY <1>2, <1>3 DEF Rests, Competes, Idles, Crashes
<1>4. CASE Appends(i, node[i], e)
  BY <1>1, <1>4 DEF Appends, AppendsEntry, Extends, ClientCommand, IsConfig
<1>5. CASE Reconfigures(i, node[i], e)
  <2>1. PICK V \in SUBSET Node :
           MayChangeConfig(i, node[i], V) /\ AppendsEntry(i, node[i], encode_config(V), e.node)
    BY <1>5 DEF Reconfigures
  <2>2. e.node.log[Len(node[i].log) + 1] = [term |-> node[i].term, command |-> encode_config(V)]
    BY <2>1 DEF AppendsEntry, Extends
  <2>3. e.node.log[Len(node[i].log) + 1].command.voters = V
    BY <2>2 DEF encode_config
  <2> QED BY <2>1, <2>3
<1>6. ASSUME NEW m, Votes(i, node[i], m, e) PROVE FALSE
  BY <1>2, <1>6 DEF Votes, Idles
<1>7. ASSUME NEW m, Takes(i, node[i], m, e) PROVE FALSE
  BY <1>7 DEF Takes
<1>8. ASSUME NEW m, Hears(node[i], m, e) PROVE FALSE
  BY <1>2, <1>8 DEF Hears
<1> QED BY <1>3, <1>4, <1>5, <1>6, <1>7, <1>8 DEF Shape

\* A leader that has committed an entry of its term has one chosen that is no
\* lower than its commit index.
LEMMA OwnIsChosen ==
    ASSUME NEW H \in History, Inv(H), NEW i \in Node, NEW n, n = node[i],
           n.role = "leader", n.committed_this_term
    PROVE  \E j \in 1..Len(n.log) : n.commit_index <= j /\ Chosen(H, n.term, j)
<1>1. /\ TypeOK /\ LogInv(H) /\ AckInv(H) /\ n.term \in LedTerms /\ H[n.term] = n.log
      /\ n.commit_index \in Nat /\ Len(n.log) \in Nat /\ n.term \in Nat
      /\ n.commit_index <= Len(n.log)
  BY ServerFacts, LeaderFacts DEF Inv, AppliedIsCommitted, Applied
<1>2. PICK k \in 1..n.commit_index : n.log[k].term = n.term
  BY DEF Inv, CommitInv, OwnCommits
<1>3. Settles(H, n.term, n.commit_index)
  BY ServerFacts DEF AppliedIsCommitted
<1>4. PICK s \in LedTerms : s <= n.term /\ \E j \in 1..Len(H[s]) : n.commit_index <= j /\ Chosen(H, s, j)
  BY <1>1, <1>2, <1>3 DEF Settles
<1>5. PICK j \in 1..Len(H[s]) : n.commit_index <= j /\ Chosen(H, s, j)
  BY <1>4
<1>6. SameUpTo(H[n.term], H[s], j) /\ j \in Nat
  BY <1>1, <1>4, <1>5, ChosenIsShared
<1>7. /\ s \in Nat /\ Len(H[s]) \in Nat
      /\ \A d \in 1..Len(H[s]) : H[s][d].term <= s
  BY <1>1, LedFacts
<1>8. k \in 1..j /\ k \in 1..Len(H[s])
  BY <1>1, <1>5, <1>7
<1>9. H[s][k].term = n.term
  BY <1>1, <1>2, <1>6, <1>8 DEF SameUpTo
<1>10. s = n.term
  BY <1>1, <1>4, <1>7, <1>8, <1>9
<1> QED BY <1>1, <1>5, <1>10

\* The first entry that a leader may append is guarded, if it is a configuration.
LEMMA NewConfigIsGuarded ==
    ASSUME NEW H \in History, NEW M, NEW i \in Node, NEW e, Moves(H, M, i, e),
           LeadsOn(node[i], e.node), e.node.role = "leader",
           NEW t, t = e.node.term, NEW c \in 1..Len(e.node.log),
           ~(c <= Len(node[i].log)), IsConfig(e.node.log[c].command)
    PROVE  Guarded(M, t, c)'
<1>0. PICK n : n = node[i]
  OBVIOUS
<1>1. PICK p : p = e.node
  OBVIOUS
<1>2. /\ Inv(H) /\ Shape(i, e) /\ p \in NodeState /\ Len(p.log) \in Nat /\ TypeOK
      /\ Grows(H, M, p)
  BY <1>1, MoveFacts, HistoryGrows DEF Moves
<1>3. /\ n.role = "leader" /\ p.term = n.term
      /\ \/ p.log = n.log
         \/ \E x \in Entry : x.term = n.term /\ Extends(n.log, x, p.log)
  BY <1>0, <1>1 DEF LeadsOn
<1>4. /\ n.log \in Seq(Entry) /\ Len(n.log) \in Nat /\ n \in NodeState /\ n.commit_index \in Nat
  BY <1>0, <1>2, ServerFacts
<1>5. Len(p.log) = Len(n.log) + 1 /\ c = Len(n.log) + 1 /\ \A k \in 1..Len(n.log) : p.log[k] = n.log[k]
  BY <1>0, <1>1, <1>2, <1>3, <1>4 DEF Extends
<1>6. MayChangeConfig(i, n, p.log[c].command.voters)
  BY <1>0, <1>1, <1>2, <1>3, <1>4, <1>5, NewConfig
<1>7. t \in LedTerms /\ H[t] = n.log /\ M[t] = p.log
  BY <1>0, <1>1, <1>2, <1>3, LeaderFacts DEF Grows
<1>8. PICK j \in 1..Len(n.log) : n.commit_index <= j /\ Chosen(H, n.term, j)
  BY <1>0, <1>2, <1>3, <1>6, OwnIsChosen DEF MayChangeConfig
<1>9. PICK m \in j..Len(n.log) : ChosenBy(H, t, j, m)
  BY <1>1, <1>3, <1>7, <1>8 DEF Chosen
<1>10. ChosenBy(M, t, j, m)'
  <2>1. m \in 0..Len(H[t])
    BY <1>4, <1>7
  <2> QED BY <1>7, <1>9, <2>1, ChosenByStays
<1>11. /\ n.voters = VotersAt(n.log, Len(n.log))
       /\ \A d \in 1..Len(n.log) : IsConfig(n.log[d].command) => d <= n.config_index
       /\ n.config_index \in Nat
  <2>1. Governs(n.log, n.voters, n.config_index)
    BY <1>0, <1>2 DEF Inv, ConfigInv
  <2>2. n.config_index \in Nat
    BY <1>4 DEF NodeState
  <2> QED BY <1>4, <2>1, <2>2, GoverningVoters
<1>12. \A d \in (j + 1)..(c - 1) : ~IsConfig(p.log[d].command)
  <2> SUFFICES ASSUME NEW d \in (j + 1)..(c - 1), IsConfig(p.log[d].command) PROVE FALSE
    OBVIOUS
  <2>1. d \in 1..Len(n.log) /\ d > j /\ n.config_index <= n.commit_index
    BY <1>4, <1>5, <1>6 DEF MayChangeConfig
  <2>2. d <= n.config_index
    BY <1>5, <1>11, <2>1
  <2> QED BY <1>4, <1>8, <1>11, <2>1, <2>2
<1>13. OneApart(VotersAt(p.log, c - 1), p.log[c].command.voters)
  <2>1. c - 1 = Len(n.log)
    BY <1>4, <1>5
  <2>2. SameUpTo(p.log, n.log, Len(n.log))
    BY <1>2, <1>4, <1>5 DEF SameUpTo
  <2>3. VotersAt(p.log, c - 1) = n.voters
    BY <1>4, <1>11, <2>1, <2>2, SameVoters
  <2> DEFINE V == p.log[c].command.voters
  <2>4. Cardinality((V \ n.voters) \cup (n.voters \ V)) = 1
    BY <1>6 DEF MayChangeConfig
  <2>5. (V \ n.voters) \cup (n.voters \ V) = (n.voters \ V) \cup (V \ n.voters)
    OBVIOUS
  <2> HIDE DEF V
  <2>6. OneApart(n.voters, V)
    BY <2>4, <2>5 DEF OneApart
  <2> QED BY <2>3, <2>6 DEF V
<1>14. j \in 1..(c - 1) /\ m \in j..(c - 1)
  BY <1>4, <1>5
<1> QED BY <1>7, <1>10, <1>12, <1>13, <1>14 DEF Guarded, VotersAt, OneApart

LEMMA ConfigsStayGuarded ==
    ASSUME NEW H \in History, NEW M, NEW i \in Node, NEW e, Moves(H, M, i, e)
    PROVE  ConfigsAreGuarded(M)'
<1> DEFINE p == e.node
<1>1. /\ TypeOK /\ Inv(H) /\ Grows(H, M, p) /\ ConfigsAreGuarded(H) /\ p.term \in Nat
      /\ p.log \in Seq(Entry)
  BY MoveFacts, HistoryGrows DEF Moves, Inv, AckInv
<1>2. ASSUME NEW t \in LedTerms', NEW c \in 1..Len(M[t]), M[t][c].term = t,
             IsConfig(M[t][c].command)
      PROVE  Guarded(M, t, c)'
  <2>1. ASSUME t \in LedTerms, c <= Len(H[t]) PROVE Guarded(M, t, c)'
    <3>1. Len(H[t]) \in Nat
      BY <1>1, <2>1, LedLog
    <3>2. c \in 1..Len(H[t])
      BY <2>1, <3>1
    <3>3. M[t][c] = H[t][c]
      BY <1>1, <2>1, <3>2 DEF Grows, SameUpTo
    <3>4. Guarded(H, t, c)
      BY <1>1, <1>2, <2>1, <3>2, <3>3 DEF ConfigsAreGuarded
    <3> QED BY <2>1, <3>2, <3>4, GuardedStays
  <2>2. CASE t \in LedTerms /\ M[t] = H[t]
    <3>1. Len(H[t]) \in Nat
      BY <1>1, <2>2, LedLog
    <3> QED BY <2>1, <2>2, <3>1
  <2>3. CASE p.role = "leader" /\ t = p.term /\ M[t] = p.log
    <3>1. CASE Campaigning(node[i], p)
      <4>1. StoodWith(p.log, t, Len(p.log))
        BY <2>3, <3>1, CampaignHolds
      <4> QED BY <1>1, <1>2, <2>3, <4>1 DEF StoodWith
    <3>2. CASE LeadsOn(node[i], p)
      <4>1. t \in LedTerms /\ H[t] = node[i].log
        BY <1>1, <2>3, <3>2, LeaderFacts DEF LeadsOn
      <4>2. CASE c <= Len(node[i].log)
        BY <2>1, <4>1, <4>2
      <4>3. CASE ~(c <= Len(node[i].log))
        BY <1>2, <2>3, <3>2, <4>3, NewConfigIsGuarded
      <4> QED BY <4>2, <4>3
    <3> QED BY <2>3, <3>1, <3>2 DEF Moves, SafeStep, LogStep
  <2> QED BY <1>1, <2>2, <2>3 DEF Grows
<1> QED BY <1>2 DEF ConfigsAreGuarded

---------------------------------------------------------------------------
(* What is committed after a step. *)

LEMMA SettlesStays ==
    ASSUME NEW H \in History, NEW M, NEW i \in Node, NEW e, Moves(H, M, i, e),
           NEW t, NEW c, Settles(H, t, c)
    PROVE  Settles(M, t, c)'
<1>1. TypeOK /\ Grows(H, M, e.node)
  BY MoveFacts, HistoryGrows
<1>2. CASE c = 0
  BY <1>2 DEF Settles
<1>3. CASE c # 0
  <2>1. PICK s \in LedTerms : s <= t /\ \E j \in 1..Len(H[s]) : c <= j /\ Chosen(H, s, j)
    BY <1>3 DEF Settles
  <2>2. PICK j \in 1..Len(H[s]) : c <= j /\ Chosen(H, s, j)
    BY <2>1
  <2>3. Chosen(M, s, j)'
    BY <2>2, ChosenStays
  <2>4. s \in LedTerms' /\ Len(H[s]) <= Len(M[s]) /\ Len(H[s]) \in Nat
    BY <1>1, LedLog DEF Grows, SameUpTo
  <2>5. Len(M[s]) \in Nat
    BY <1>1, TermsAreNumbers DEF Grows, History
  <2>6. j \in 1..Len(M[s])
    BY <2>4, <2>5
  <2> QED BY <2>1, <2>2, <2>3, <2>4, <2>6 DEF Settles
<1> QED BY <1>2, <1>3

\* What the observer records.
LEMMA CommittedGrows ==
    ASSUME NEW i \in Node, NEW e, TypeOK, TypeOK', Step(i, e), e.node \in NodeState
    PROVE  /\ Len(committed) \in Nat /\ Len(committed') \in Nat
           /\ Len(committed) <= Len(committed') /\ Len(e.node.machine) <= Len(committed')
           /\ Len(committed') = Larger(Len(committed), Len(e.node.machine))
           /\ \A k \in 1..Len(committed) : committed'[k] = committed[k]
           /\ \A k \in 1..Len(committed') : k > Len(committed) =>
                 committed'[k] = [entry |-> e.node.machine[k], term |-> e.node.term]
<1> DEFINE T == [entry : Entry, term : Nat]
           a == Len(committed)
           b == Len(e.node.machine)
           Seen(k) == [entry |-> e.node.machine[a + k], term |-> e.node.term]
           new == [k \in 1..Larger(0, b - a) |-> Seen(k)]
<1>1. /\ committed \in Seq(T) /\ a \in Nat
      /\ e.node.machine \in Seq(Entry) /\ b \in Nat /\ e.node.term \in Nat
  BY DEF TypeOK, NodeState
<1>2. committed' = committed \o new
  BY DEF Step, ObserveCommits
<1>3. Larger(0, b - a) \in Nat
  BY <1>1 DEF Larger
<1>4. new \in Seq(T) /\ Len(new) = Larger(0, b - a)
  <2>1. \A k \in 1..Larger(0, b - a) : Seen(k) \in T
    <3> TAKE k \in 1..Larger(0, b - a)
    <3>1. a + k \in 1..b
      BY <1>1 DEF Larger
    <3> QED BY <1>1, <3>1
  <2> HIDE DEF T, Seen
  <2> QED BY <1>3, <2>1
<1>5. \A k \in 1..Len(new) : new[k] = [entry |-> e.node.machine[a + k], term |-> e.node.term]
  BY <1>4
<1> HIDE DEF new, T, b
<1>6. /\ Len(committed') = a + Len(new)
      /\ \A k \in 1..a : committed'[k] = committed[k]
      /\ \A k \in 1..Len(new) : committed'[a + k] = new[k]
  <2> HIDE DEF a
  <2>1. /\ Len(committed \o new) = Len(committed) + Len(new)
        /\ \A k \in 1..Len(committed) : (committed \o new)[k] = committed[k]
        /\ \A k \in 1..Len(new) : (committed \o new)[Len(committed) + k] = new[k]
    BY <1>1, <1>4, Joined
  <2> QED BY <1>2, <2>1 DEF a
<1>7. ASSUME NEW k \in 1..Len(committed'), k > a
      PROVE  committed'[k] = [entry |-> e.node.machine[k], term |-> e.node.term]
  <2>1. k - a \in 1..Len(new) /\ a + (k - a) = k
    BY <1>1, <1>3, <1>4, <1>6, <1>7
  <2> QED BY <1>5, <1>6, <2>1
<1> QED BY <1>1, <1>3, <1>4, <1>6, <1>7 DEF Larger, b

LEMMA CommittedStaysSettled ==
    ASSUME NEW H \in History, NEW M, NEW i \in Node, NEW e, Moves(H, M, i, e)
    PROVE  CommittedIsSettled(M)'
<1> DEFINE p == e.node
           c == p.commit_index
<1>1. /\ TypeOK /\ TypeOK' /\ p \in NodeState /\ p.term \in Nat /\ c \in Nat
      /\ Len(p.log) \in Nat
  BY MoveFacts DEF NodeState
<1>2. Inv(H) /\ Grows(H, M, p) /\ CommitStep(H, i, p) /\ Step(i, e)
  BY HistoryGrows DEF Moves, SafeStep
<1>3. /\ Applied(p) /\ Settles(H, p.term, c)
      /\ c > Len(committed) => p.term \in LedTerms /\ SameUpTo(p.log, H[p.term], c)
  BY <1>2 DEF CommitStep
<1>4. /\ Len(committed) \in Nat /\ Len(committed') \in Nat
      /\ Len(committed') = Larger(Len(committed), Len(p.machine))
      /\ \A k \in 1..Len(committed) : committed'[k] = committed[k]
      /\ \A k \in 1..Len(committed') : k > Len(committed) =>
            committed'[k] = [entry |-> p.machine[k], term |-> p.term]
  BY <1>1, <1>2, CommittedGrows
<1> HIDE DEF p, c
<1>5. ASSUME NEW k \in 1..Len(committed'), NEW t, t = committed'[k].term
      PROVE  /\ t \in LedTerms' /\ k <= Len(M[t])
             /\ M[t][k] = committed'[k].entry
             /\ Settles(M, t, k)'
  <2>1. CASE k <= Len(committed)
    <3>1. k \in 1..Len(committed) /\ committed'[k] = committed[k]
      BY <1>4, <2>1
    <3>2. /\ t \in LedTerms /\ k <= Len(H[t]) /\ H[t][k] = committed[k].entry
          /\ Settles(H, t, k)
      BY <1>2, <1>5, <3>1 DEF Inv, CommitInv, CommittedIsSettled
    <3>3. /\ t \in LedTerms' /\ Len(H[t]) <= Len(M[t])
          /\ \A j \in 1..Len(H[t]) : M[t][j] = H[t][j]
      BY <1>2, <3>2 DEF Grows, SameUpTo
    <3>4. Len(H[t]) \in Nat /\ Len(M[t]) \in Nat
      BY <1>1, <1>2, <3>2, LedLog DEF Grows, History
    <3>5. k \in 1..Len(H[t]) /\ k <= Len(M[t])
      BY <3>2, <3>3, <3>4
    <3> QED BY <3>1, <3>2, <3>3, <3>5, SettlesStays
  <2>2. CASE k > Len(committed)
    <3>1. committed'[k] = [entry |-> p.machine[k], term |-> p.term] /\ t = p.term
      BY <1>4, <1>5, <2>2
    <3>2. k \in 1..c /\ c > Len(committed) /\ p.machine[k] = p.log[k]
      BY <1>1, <1>3, <1>4, <2>2 DEF Applied, Larger, c
    <3>3. t \in LedTerms /\ SameUpTo(p.log, H[t], c)
      BY <1>3, <3>1, <3>2
    <3>4. SameUpTo(p.log, M[t], c)
      BY <1>1, <1>2, <3>3, GrowingShares
    <3>5. t \in LedTerms' /\ Len(M[t]) \in Nat
      BY <1>1, <1>2, <3>3, LedLog DEF Grows, History
    <3>6. k <= Len(M[t]) /\ M[t][k] = p.log[k]
      BY <1>1, <3>2, <3>4, <3>5 DEF SameUpTo
    <3>7. Settles(H, t, k)
      <4>1. t <= t /\ k <= c /\ k \in Nat
        BY <1>1, <3>1, <3>2
      <4> QED BY <1>1, <1>3, <3>1, <4>1, SettlesDown
    <3> QED BY <3>1, <3>2, <3>5, <3>6, <3>7, SettlesStays
  <2> QED BY <1>4, <2>1, <2>2
<1> QED BY <1>5 DEF CommittedIsSettled

LEMMA ServersStayCommitted ==
    ASSUME NEW H \in History, NEW M, NEW i \in Node, NEW e, Moves(H, M, i, e),
           NEW j \in Node, NEW x, x = node'[j]
    PROVE  AppliedIsCommitted(M, x)' /\ Bookkeeping(j, x)'
<1> DEFINE p == e.node
           c == p.commit_index
<1>0. /\ TypeOK /\ TypeOK' /\ p \in NodeState /\ p.term \in Nat
      /\ node'[i] = p /\ (j # i => node'[j] = node[j]) /\ msgs \subseteq msgs'
  BY MoveFacts
<1>1. /\ TypeOK /\ TypeOK' /\ p \in NodeState /\ p.term \in Nat /\ c \in Nat
      /\ node'[i] = p /\ (j # i => node'[j] = node[j]) /\ msgs \subseteq msgs'
  BY <1>0 DEF NodeState
<1>2. Inv(H) /\ CommitStep(H, i, p) /\ Step(i, e)
  BY DEF Moves, SafeStep
<1>3. /\ Len(committed) \in Nat /\ Len(committed') \in Nat
      /\ Len(committed) <= Len(committed') /\ Len(p.machine) <= Len(committed')
      /\ \A k \in 1..Len(committed) : committed'[k] = committed[k]
      /\ \A k \in 1..Len(committed') : k > Len(committed) =>
            committed'[k] = [entry |-> p.machine[k], term |-> p.term]
  BY <1>1, <1>2, CommittedGrows
<1>4. ASSUME NEW n, Bookkeeping(j, n) PROVE Bookkeeping(j, n)'
  BY <1>1, <1>4 DEF Bookkeeping, IsAck
<1>5. CASE j # i
  <2>1. x = node[j] /\ node[j].commit_index \in Nat
    BY <1>1, <1>2, <1>5, ServerFacts
  <2>2. AppliedIsCommitted(H, x) /\ Bookkeeping(j, x)
    BY <1>2, <2>1, ServerFacts
  <2>3. Settles(M, x.term, x.commit_index)'
    BY <2>2, SettlesStays DEF AppliedIsCommitted
  <2>4. /\ Applied(x) /\ x.commit_index <= Len(committed) /\ x.commit_index \in Nat
        /\ \A k \in 1..x.commit_index : x.log[k] = committed[k].entry
    BY <2>1, <2>2 DEF AppliedIsCommitted
  <2>5. /\ x.commit_index <= Len(committed')
        /\ \A k \in 1..x.commit_index : x.log[k] = committed'[k].entry
    BY <1>3, <2>4
  <2>6. Bookkeeping(j, x)'
    BY <1>4, <2>2
  <2> QED BY <2>3, <2>4, <2>5, <2>6 DEF AppliedIsCommitted, Applied
<1>6. CASE j = i
  <2>1. x = p
    BY <1>1, <1>6
  <2>2. /\ Applied(p) /\ Settles(H, p.term, c) /\ Bookkeeping(i, p)
        /\ \A k \in 1..c : k <= Len(committed) => p.log[k] = committed[k].entry
    BY <1>2 DEF CommitStep
  <2>3. Settles(M, p.term, c)'
    BY <2>2, SettlesStays
  <2>4. Bookkeeping(i, p)'
    BY <1>4, <1>6, <2>2
  <2>5. Len(p.machine) = c /\ \A k \in 1..c : p.machine[k] = p.log[k]
    BY <2>2 DEF Applied
  <2> HIDE DEF p, c
  <2>6. ASSUME NEW k \in 1..c PROVE p.log[k] = committed'[k].entry
    <3>1. CASE k <= Len(committed)
      <4>1. k \in 1..Len(committed)
        BY <1>1, <1>3, <3>1
      <4> QED BY <1>3, <2>2, <3>1, <4>1
    <3>2. CASE k > Len(committed)
      <4>1. k \in 1..Len(committed')
        BY <1>1, <1>3, <2>5
      <4>2. committed'[k] = [entry |-> p.machine[k], term |-> p.term]
        BY <1>3, <3>2, <4>1
      <4>3. committed'[k].entry = p.machine[k]
        BY <4>2
      <4> QED BY <2>5, <4>3
    <3> QED BY <1>1, <1>3, <3>1, <3>2
  <2>7. AppliedIsCommitted(M, p)'
    BY <1>3, <2>2, <2>3, <2>5, <2>6 DEF AppliedIsCommitted, Applied, c
  <2> QED BY <1>6, <2>1, <2>4, <2>7
<1> QED BY <1>5, <1>6

\* A leader remembers what it committed of its own, and nobody else reads.
LEMMA OwnCommitsStay ==
    ASSUME NEW H \in History, NEW M, NEW i \in Node, NEW e, Moves(H, M, i, e),
           NEW j \in Node, NEW x, x = node'[j]
    PROVE  OwnCommits(x)
<1> DEFINE n == node[i]
           p == e.node
<1>1. /\ Inv(H) /\ Shape(i, e) /\ ReadShape(i, e) /\ p \in NodeState
      /\ node'[i] = p /\ \A k \in Node : k # i => node'[k] = node[k]
  BY MoveFacts DEF Moves
<1>2. OwnCommits(n) /\ OwnCommits(node[j])
  BY <1>1 DEF Inv, CommitInv
<1>3. /\ n.commit_index \in Nat /\ p.commit_index \in Nat
      /\ Len(n.log) \in Nat /\ n.commit_index <= Len(n.log)
  BY <1>1, ServerFacts DEF NodeState, AppliedIsCommitted, Applied
<1>4. ASSUME p.role = "leader", p.committed_this_term
      PROVE  \E k \in 1..p.commit_index : p.log[k].term = p.term
  <2>1. CASE Ignores(n, p)
    <3>1. n.role = "leader" /\ p.term = n.term
      BY <1>4, <2>1 DEF Ignores
    <3>2. n.committed_this_term \/ p.commit_index > n.commit_index
      BY <1>4, <2>1 DEF Ignores
    <3>3. /\ n.commit_index <= p.commit_index
          /\ \A k \in 1..Len(n.log) : p.log[k] = n.log[k]
          /\ p.commit_index > n.commit_index =>
                p.commit_index \in 1..Len(n.log) /\ n.log[p.commit_index].term = n.term
      BY <1>1, <1>4, <3>1, LeaderGoesOn
    <3>4. CASE p.commit_index > n.commit_index
      BY <1>3, <3>1, <3>3, <3>4
    <3>5. CASE n.committed_this_term
      <4>1. PICK k \in 1..n.commit_index : n.log[k].term = n.term
        BY <1>2, <3>1, <3>5 DEF OwnCommits
      <4>2. k \in 1..p.commit_index /\ k \in 1..Len(n.log)
        BY <1>3, <3>3
      <4> QED BY <3>1, <3>3, <4>1, <4>2
    <3> QED BY <3>2, <3>4, <3>5
  <2>2. CASE OnlyReads(n, p)
    BY <1>2, <1>4, <2>2 DEF OnlyReads, OwnCommits
  <2> QED BY <1>1, <2>1, <2>2 DEF ReadShape, Echoes, Confirms, Begins
<1>5. p.role # "leader" => p.pending_reads = {}
  BY <1>1 DEF ReadShape, Echoes, Confirms, Begins, Ignores, OnlyReads
<1> HIDE DEF n, p
<1>6. OwnCommits(p)
  BY <1>4, <1>5 DEF OwnCommits
<1> QED BY <1>1, <1>2, <1>6

LEMMA CommitsStay ==
    ASSUME NEW H \in History, NEW M, NEW i \in Node, NEW e, Moves(H, M, i, e)
    PROVE  CommitInv(M)'
<1> DEFINE p == e.node
<1>1. CommittedIsSettled(M)'
  BY CommittedStaysSettled
<1>2. ASSUME NEW j \in Node, NEW x, x = node'[j]
      PROVE  AppliedIsCommitted(M, x)' /\ Bookkeeping(j, x)' /\ OwnCommits(x)
  BY <1>2, ServersStayCommitted, OwnCommitsStay
<1>3. /\ TypeOK /\ TypeOK' /\ p \in NodeState /\ msgs' = msgs \cup e.out
  BY MoveFacts
<1>4. Inv(H) /\ LogStep(H, i, p, e.out) /\ CommitStep(H, i, p) /\ Step(i, e)
  BY DEF Moves, SafeStep
<1>5. /\ Len(committed) \in Nat /\ Len(committed') \in Nat
      /\ Len(committed) <= Len(committed') /\ Len(p.machine) <= Len(committed')
  BY <1>3, <1>4, CommittedGrows
<1>6. ASSUME NEW m \in msgs', m.type = "AppendEntries"
      PROVE  m.leader_commit <= Len(committed') /\ Settles(M, m.term, m.leader_commit)'
  <2>1. CASE m \in msgs
    <3>1. m.leader_commit <= Len(committed) /\ Settles(H, m.term, m.leader_commit)
      BY <1>4, <1>6, <2>1 DEF Inv, CommitInv
    <3>2. m.leader_commit \in Nat
      BY <1>3, <1>6, <2>1 DEF TypeOK, Message
    <3> QED BY <1>5, <3>1, <3>2, SettlesStays
  <2>2. CASE m \in e.out
    <3>1. m.leader_commit = p.commit_index /\ m.term = p.term
      BY <1>4, <1>6, <2>2 DEF LogStep, SaysTruly
    <3>2. Settles(H, p.term, p.commit_index) /\ Len(p.machine) = p.commit_index
      BY <1>4 DEF CommitStep, Applied
    <3> QED BY <1>5, <3>1, <3>2, SettlesStays
  <2> QED BY <1>3, <2>1, <2>2
<1> QED BY <1>1, <1>2, <1>6 DEF CommitInv, OwnCommits

LEMMA RequestsStay ==
    ASSUME NEW H \in History, NEW M, NEW i \in Node, NEW e, Moves(H, M, i, e)
    PROVE  RequestInv(M)'
<1> DEFINE p == e.node
<1>1. /\ node'[i] = p /\ \A j \in Node : j # i => node'[j] = node[j]
  BY MoveFacts
<1>2. Inv(H) /\ Grows(H, M, p) /\ RequestStep(p)
  BY HistoryGrows DEF Moves, SafeStep
<1>3. ASSUME NEW t \in LedTerms'
      PROVE  OncePerLog(M[t]) /\ ClientsOwn(M[t])
  BY <1>2 DEF Grows, Inv, RequestInv, RequestStep, ClientsOwn
<1>4. ASSUME NEW j \in Node, NEW x, x = node'[j], x.role = "leader" PROVE Indexed(x)
  BY <1>1, <1>2, <1>4 DEF Inv, RequestInv, RequestStep
<1> QED BY <1>3, <1>4 DEF RequestInv, OncePerLog, Indexed, ClientsOwn

---------------------------------------------------------------------------
(* The invariant holds of some history initially, and after every step. *)

LEMMA InvBegins == Init => \E H \in History : Inv(H)
<1> SUFFICES ASSUME Init PROVE \E H \in History : Inv(H)
  OBVIOUS
<1> DEFINE H == [t \in Nat |-> <<>>]
<1>1. /\ \A i \in Node : node[i] = InitNode
      /\ msgs = {} /\ leaders = {} /\ committed = <<>>
  BY DEF Init
<1>2. H \in History /\ LedTerms = {}
  BY <1>1 DEF History, LedTerms
<1> HIDE DEF H
<1>3. /\ InitNode.snapshot = NoSnapshot /\ InitNode.log = <<>> /\ InitNode.machine = <<>>
      /\ InitNode.role = "follower" /\ InitNode.commit_index = 0
      /\ InitNode.pending_reads = {}
  BY DEF InitNode
<1>4. VoteInv /\ ConfigInv
  BY ElectionsBegin, ConfigBegins DEF ElectionInv
<1>5. \A i \in Node : ServerLog(H, i, node[i])
  BY <1>1, <1>3 DEF ServerLog, Bare, Backed
<1>6. LogInv(H)
  BY <1>1, <1>2, <1>5 DEF LogInv, LeadersLogs
<1>7. AckInv(H)
  BY <1>1, <1>2, <1>3
     DEF AckInv, AcksAreKept, CandidatesCarry, LeadersCarry, ConfigsAreGuarded
<1>8. \A i \in Node : /\ AppliedIsCommitted(H, node[i]) /\ Bookkeeping(i, node[i])
                      /\ OwnCommits(node[i])
  BY <1>1, <1>3 DEF AppliedIsCommitted, Applied, Settles, Bookkeeping, OwnCommits
<1>9. CommitInv(H)
  BY <1>1, <1>8 DEF CommitInv, CommittedIsSettled
<1>10. RequestInv(H)
  BY <1>1, <1>2, <1>3 DEF RequestInv
<1> QED BY <1>2, <1>4, <1>6, <1>7, <1>9, <1>10 DEF Inv

\* A step that changes nothing.
LEMMA InvStutters ==
    ASSUME SnapshotThreshold = 0, NEW H \in History, Inv(H), UNCHANGED vars
    PROVE  Inv(H)'
<1>1. node' = node /\ msgs' = msgs /\ leaders' = leaders /\ committed' = committed
  BY DEF vars
<1>2. VoteInv' /\ ConfigInv'
  BY VotesStutter, ConfigStays DEF Inv
<1>3. /\ LogInv(H) /\ AckInv(H) /\ CommitInv(H) /\ RequestInv(H)
  BY DEF Inv
<1>4. LedTerms' = LedTerms
  BY <1>1 DEF LedTerms
<1>5. LogInv(H)'
  BY <1>1, <1>3, <1>4
     DEF LogInv, LeadersLogs, ServerLog, MessageIsTrue, TrueAck, TrueRequest, Backed
<1>6. AcksAreKept(H)'
  BY <1>1, <1>3, <1>4 DEF AckInv, AcksAreKept, Acked, Overtaken
<1>7. CandidatesCarry(H)'
  BY <1>1, <1>3, <1>4 DEF AckInv, CandidatesCarry, Ballots, Carries, Acked, Overtaken
<1>8. LeadersCarry(H)'
  <2>1. \A log, v, u, w : Carries(H, log, v, u, w) => Carries(H, log, v, u, w)'
    BY <1>1, <1>4 DEF Carries, Acked, Overtaken
  <2>3. ASSUME NEW x, NEW b, NEW Q, WonWith(H, x, b, Q) PROVE WonWith(H, x, b, Q)'
    BY <1>1, <2>1, <2>3 DEF WonWith
  <2>2. \A t, x : Ballots(msgs, t, x)' = Ballots(msgs, t, x)
    BY <1>1 DEF Ballots
  <2> QED BY <1>1, <1>3, <2>2, <2>3 DEF AckInv, LeadersCarry
<1>9. ASSUME NEW t, NEW k, NEW m, ChosenBy(H, t, k, m) PROVE ChosenBy(H, t, k, m)'
  BY <1>1, <1>9 DEF ChosenBy, Acked
<1>10. AckInv(H)'
  <2>1. ConfigsAreGuarded(H)'
    BY <1>1, <1>3, <1>4, <1>9 DEF AckInv, ConfigsAreGuarded, Guarded, OneApart, VotersAt
  <2> QED BY <1>6, <1>7, <1>8, <2>1 DEF AckInv
<1>11. CommitInv(H)'
  <2>1. \A t, c : Settles(H, t, c) => Settles(H, t, c)'
    BY <1>4, <1>9 DEF Settles, Chosen
  <2>2. CommittedIsSettled(H)'
    BY <1>1, <1>3, <1>4, <2>1 DEF CommitInv, CommittedIsSettled
  <2>3. ASSUME NEW i \in Node
        PROVE  /\ AppliedIsCommitted(H, node[i])' /\ Bookkeeping(i, node[i])'
               /\ OwnCommits(node[i])'
    BY <1>1, <1>3, <2>1 DEF CommitInv, AppliedIsCommitted, Applied, Bookkeeping, OwnCommits
  <2>4. \A m \in msgs' : m.type = "AppendEntries" =>
            m.leader_commit <= Len(committed') /\ Settles(H, m.term, m.leader_commit)'
    BY <1>1, <1>3, <2>1 DEF CommitInv
  <2> QED BY <2>2, <2>3, <2>4 DEF CommitInv
<1>12. RequestInv(H)'
  BY <1>1, <1>3, <1>4 DEF RequestInv
<1> QED BY <1>2, <1>5, <1>10, <1>11, <1>12 DEF Inv

\* What a step does to the history.
LEMMA EveryMove ==
    ASSUME SnapshotThreshold = 0, NEW H \in History, Inv(H), Next
    PROVE  \E i \in Node : \E e :
              Moves(H, After(H, e.node), i, e) /\ Shape(i, e) /\ Performs(i, e)
<1>1. VoteInv /\ ConfigInv /\ TypeOK
  BY DEF Inv, VoteInv
<1>2. PICK i \in Node : \E e : Step(i, e) /\ Performs(i, e) /\ ElectionStep(i, node[i], e)
  BY <1>1, EveryStep
<1>3. PICK e : Step(i, e) /\ Performs(i, e) /\ ElectionStep(i, node[i], e)
  BY <1>2
<1>4. VoteInv' /\ ConfigInv'
  BY <1>1, <1>3, VotesStay, ConfigStays
<1>5. e.node \in NodeState
  BY <1>3 DEF ElectionStep, GoodEffect
<1>6. SafeStep(H, i, e)
  BY <1>3, <1>5, EverySafeStep
<1>7. Shape(i, e)
  BY <1>3, EveryShape
<1>8. Unread(node[i])
  BY DEF Inv, CommitInv, OwnCommits, Unread
<1>9. ReadShape(i, e)
  BY <1>1, <1>3, <1>8, EveryRead
<1> QED BY <1>3, <1>4, <1>6, <1>7, <1>9 DEF Moves

LEMMA InvStays ==
    ASSUME NEW H \in History, NEW M, NEW i \in Node, NEW e, Moves(H, M, i, e)
    PROVE  M \in History /\ Inv(M)'
<1>1. M \in History
  BY HistoryGrows DEF Grows
<1>2. AckInv(M)'
  BY AcksStay, CandidatesStay, LeadersStay, ConfigsStayGuarded DEF AckInv
<1>3. VoteInv' /\ ConfigInv'
  BY DEF Moves
<1> QED BY <1>1, <1>2, <1>3, LogsStay, CommitsStay, RequestsStay DEF Inv

\* The inductive invariant: there is a history that explains the state.
Explained == \E H \in History : Inv(H)

LEMMA ExplainedStays ==
    ASSUME SnapshotThreshold = 0, Explained, [Next]_vars
    PROVE  Explained'
<1>1. PICK H \in History : Inv(H)
  BY DEF Explained
<1>2. CASE Next
  <2>1. PICK i \in Node : \E e : Moves(H, After(H, e.node), i, e)
    BY <1>1, <1>2, EveryMove
  <2>2. PICK e : Moves(H, After(H, e.node), i, e)
    BY <2>1
  <2>3. PICK M : M = After(H, e.node)
    OBVIOUS
  <2>4. M \in History /\ Inv(M)'
    BY <2>2, <2>3, InvStays
  <2> QED BY <2>4 DEF Explained
<1>3. CASE UNCHANGED vars
  BY <1>1, <1>3, InvStutters DEF Explained
<1> QED BY <1>2, <1>3

---------------------------------------------------------------------------
(* What the invariant says of the servers. *)

LEMMA BareLog ==
    ASSUME NEW H \in History, Inv(H), NEW i \in Node
    PROVE  FullLog(node[i]) = node[i].log
<1>1. Bare(node[i]) /\ node[i].log \in Seq(Entry)
  BY ServerFacts DEF ServerLog
<1>2. node[i].snapshot.image = <<>>
  BY <1>1 DEF Bare, NoSnapshot
<1> QED BY <1>1, <1>2 DEF FullLog

LEMMA SamePrefix ==
    ASSUME NEW a \in Seq(Entry), NEW b \in Seq(Entry), NEW k \in Nat, SameUpTo(a, b, k)
    PROVE  /\ SubSeq(a, 1, k) = SubSeq(b, 1, k)
           /\ IsPrefixOf(SubSeq(a, 1, k), b)
<1>1. k <= Len(a) /\ k <= Len(b) /\ Len(a) \in Nat /\ Len(b) \in Nat
  BY DEF SameUpTo
<1>2. /\ SubSeq(a, 1, k) \in Seq(Entry) /\ Len(SubSeq(a, 1, k)) = k
      /\ \A j \in 1..k : SubSeq(a, 1, k)[j] = a[j]
  BY <1>1
<1>3. /\ SubSeq(b, 1, k) \in Seq(Entry) /\ Len(SubSeq(b, 1, k)) = k
      /\ \A j \in 1..k : SubSeq(b, 1, k)[j] = b[j]
  BY <1>1
<1>4. \A j \in 1..k : a[j] = b[j]
  BY DEF SameUpTo
<1> DEFINE A == SubSeq(a, 1, k)
           B == SubSeq(b, 1, k)
<1>5. A \in Seq(Entry) /\ B \in Seq(Entry) /\ Len(A) = Len(B) /\ \A j \in 1..Len(A) : A[j] = B[j]
  BY <1>2, <1>3, <1>4
<1> HIDE DEF A, B
<1>6. A = B
  BY <1>5
<1> QED BY <1>1, <1>2, <1>6 DEF A, B, IsPrefixOf

LEMMA LogsMatch ==
    ASSUME NEW H \in History, Inv(H)
    PROVE  LogMatching
<1> SUFFICES ASSUME NEW i \in Node, NEW j \in Node,
                    NEW k \in DOMAIN FullLog(node[i]) \cap DOMAIN FullLog(node[j]),
                    FullLog(node[i])[k].term = FullLog(node[j])[k].term
             PROVE  SubSeq(FullLog(node[i]), 1, k) = SubSeq(FullLog(node[j]), 1, k)
  BY DEF LogMatching
<1> DEFINE a == node[i].log
           b == node[j].log
<1>1. FullLog(node[i]) = a /\ FullLog(node[j]) = b
  BY BareLog
<1>2. a \in Seq(Entry) /\ b \in Seq(Entry) /\ Backed(H, a) /\ Backed(H, b)
  BY ServerFacts DEF ServerLog
<1> HIDE DEF a, b
<1>3. k \in 1..Len(a) /\ k <= Len(b) /\ a[k].term = b[k].term /\ k \in Nat
  BY <1>1, <1>2
<1>4. SameUpTo(a, b, k)
  BY <1>2, <1>3, BothBacked
<1> QED BY <1>1, <1>2, <1>3, <1>4, SamePrefix

LEMMA LeadersAreComplete ==
    ASSUME NEW H \in History, Inv(H)
    PROVE  LeaderCompleteness
<1> SUFFICES ASSUME NEW i \in Node, NEW k \in 1..Len(committed),
                    node[i].role = "leader", committed[k].term <= node[i].term
             PROVE  k \in DOMAIN FullLog(node[i]) /\ FullLog(node[i])[k] = committed[k].entry
  BY DEF LeaderCompleteness
<1> DEFINE t == node[i].term
           s == committed[k].term
<1>1. TypeOK /\ t \in Nat /\ FullLog(node[i]) = node[i].log /\ node[i].log \in Seq(Entry)
  BY ServerFacts, BareLog
<1>2. t \in LedTerms /\ H[t] = node[i].log
  BY LeaderFacts
<1>3. LogInv(H) /\ AckInv(H) /\ CommittedIsSettled(H)
  BY DEF Inv, CommitInv
<1>4. s \in LedTerms /\ Settles(H, s, k)
  BY <1>3 DEF CommittedIsSettled
<1>5. k \in Nat /\ k <= k /\ k <= Len(committed) /\ k \in 1..k /\ s \in Nat
  BY <1>1, <1>4, TermsAreNumbers DEF TypeOK
<1> HIDE DEF t
<1>6. Settles(H, t, k)
  BY <1>1, <1>4, <1>5, SettlesDown DEF t
<1>7. k \in 1..Len(H[t]) /\ H[t][k] = committed[k].entry
  BY <1>1, <1>2, <1>3, <1>5, <1>6, SettledIsCommitted
<1> QED BY <1>1, <1>2, <1>7

LEMMA MachinesAgree ==
    ASSUME NEW H \in History, Inv(H)
    PROVE  StateMachineSafety
<1> SUFFICES ASSUME NEW i \in Node
             PROVE  /\ Len(node[i].machine) <= Len(committed)
                    /\ \A k \in 1..Len(node[i].machine) : node[i].machine[k] = committed[k].entry
  BY DEF StateMachineSafety
<1> QED BY ServerFacts DEF AppliedIsCommitted, Applied

LEMMA MatchesAreHeld ==
    ASSUME NEW H \in History, Inv(H)
    PROVE  MatchIsHeld
<1> SUFFICES ASSUME NEW i \in Node, NEW v \in Node, Leads(i), node[v].term = node[i].term,
                    NEW k \in 1..node[i].match_index[v]
             PROVE  /\ k \in DOMAIN FullLog(node[i]) \cap DOMAIN FullLog(node[v])
                    /\ FullLog(node[i])[k] = FullLog(node[v])[k]
  BY DEF MatchIsHeld
<1> DEFINE a == node[i].log
           b == node[v].log
           c == node[i].match_index[v]
           t == node[i].term
<1>1. /\ FullLog(node[i]) = a /\ FullLog(node[v]) = b /\ a \in Seq(Entry) /\ b \in Seq(Entry)
      /\ node[i] \in NodeState /\ Bookkeeping(i, node[i]) /\ TypeOK
  BY ServerFacts, BareLog
<1>2. node[i].role = "leader" /\ H[t] = a
  BY LeaderFacts DEF Leads
<1>3. c \in Nat /\ c # 0
  BY <1>1 DEF NodeState
<1>4. \/ v = i /\ c <= Len(a)
      \/ \E m \in msgs : IsAck(m) /\ m.src = v /\ m.term = t /\ c <= m.match_index
  BY <1>1, <1>2, <1>3 DEF Bookkeeping
<1> HIDE DEF a, b, c
<1>5. CASE v = i /\ c <= Len(a)
  <2>1. a = b
    BY <1>5 DEF a, b
  <2>2. k \in 1..Len(a)
    BY <1>1, <1>3, <1>5 DEF c
  <2> QED BY <1>1, <2>1, <2>2
<1>6. ASSUME NEW m \in msgs, IsAck(m), m.src = v, m.term = t, c <= m.match_index
      PROVE  k \in 1..Len(a) /\ k \in 1..Len(b) /\ a[k] = b[k]
  <2>1. TrueAck(H, m) /\ m \in Message
    BY <1>1, <1>6 DEF Inv, LogInv, MessageIsTrue, TypeOK
  <2>2. m.match_index \in Nat
    BY <1>6, <2>1 DEF Message, IsAck
  <2>3. SameUpTo(b, a, m.match_index)
    BY <1>2, <1>6, <2>1 DEF TrueAck, b
  <2>4. k \in 1..m.match_index
    BY <1>3, <1>6, <2>2 DEF c
  <2> HIDE DEF t
  <2> QED BY <1>1, <2>2, <2>3, <2>4 DEF SameUpTo
<1> QED BY <1>1, <1>4, <1>5, <1>6

LEMMA NoLookupFails ==
    ASSUME NEW H \in History, Inv(H)
    PROVE  NoIndexError
<1>1. ASSUME NEW m \in msgs, m.type = "AppendEntries" PROVE m.prev_term # -1
  <2>1. /\ m.term \in LedTerms /\ StretchOf(H[m.term], m) /\ Backed(H, H[m.term])
        /\ Len(H[m.term]) \in Nat /\ m.prev_index \in Nat /\ m.entries \in Seq(Entry)
    BY <1>1, ReplicatedFacts
  <2>2. CASE m.prev_index = 0
    BY <2>1, <2>2 DEF StretchOf
  <2>3. CASE m.prev_index # 0
    <3>1. m.prev_index \in 1..Len(H[m.term]) /\ m.prev_term = H[m.term][m.prev_index].term
      BY <2>1, <2>3 DEF StretchOf, Match
    <3>2. m.prev_term \in LedTerms /\ TypeOK
      BY <2>1, <3>1 DEF Backed, Inv, VoteInv
    <3>3. m.prev_term \in Nat
      BY <3>2, TermsAreNumbers
    <3> QED BY <3>3
  <2> QED BY <2>2, <2>3
<1>2. ASSUME NEW i \in Node, NEW k \in 1..Len(node[i].machine)
      PROVE  node[i].machine[k] # RaisedEntry
  <2>1. /\ TypeOK /\ Backed(H, node[i].log) /\ Applied(node[i])
        /\ Len(node[i].log) \in Nat /\ node[i].commit_index \in Nat
    BY ServerFacts DEF ServerLog, AppliedIsCommitted
  <2>2. k \in 1..Len(node[i].log) /\ node[i].machine[k] = node[i].log[k]
    BY <2>1 DEF Applied
  <2>3. node[i].log[k].term \in LedTerms
    BY <2>1, <2>2 DEF Backed
  <2>4. node[i].log[k].term \in Nat
    BY <2>1, <2>3, TermsAreNumbers
  <2> QED BY <2>2, <2>4 DEF RaisedEntry
<1> QED BY <1>1, <1>2 DEF NoIndexError

LEMMA RequestsAreUnique ==
    ASSUME NEW H \in History, Inv(H)
    PROVE  NoDuplicateRequest
<1>1. \A i \in Node : node[i].log \in Seq(Entry) /\ Backed(H, node[i].log)
  BY ServerFacts DEF ServerLog
<1>2. \A i \in Node : OncePerLog(node[i].log)
  BY <1>1, BackedOnce
<1> QED BY <1>2 DEF NoDuplicateRequest, OncePerLog

---------------------------------------------------------------------------
(* What the invariant says of a step. *)

\* Only a crash takes back what was applied, and then all of it.
LEMMA ShapeIsForward ==
    ASSUME NEW H \in History, Inv(H), NEW i \in Node, NEW e, e.node \in NodeState, Shape(i, e)
    PROVE  \/ node[i].commit_index <= e.node.commit_index
           \/ ~e.node.alive /\ e.node.machine = <<>>
<1>1. node[i].commit_index \in Nat /\ e.node.commit_index \in Nat
  BY ServerFacts DEF NodeState
<1>2. CASE Rests(i, node[i], e)
  BY <1>1, <1>2 DEF Rests, Idles
<1>3. CASE Competes(i, node[i], e)
  BY <1>1, <1>3 DEF Competes, Idles
<1>4. CASE Appends(i, node[i], e) \/ Reconfigures(i, node[i], e)
  <2>1. PICK command : AppendsEntry(i, node[i], command, e.node)
    BY <1>4 DEF Appends, Reconfigures
  <2> QED BY <1>1, <2>1 DEF AppendsEntry
<1>5. CASE Crashes(node[i], e)
  BY <1>5 DEF Crashes
<1>6. ASSUME NEW m, Votes(i, node[i], m, e) PROVE node[i].commit_index <= e.node.commit_index
  BY <1>1, <1>6 DEF Votes, Idles
<1>7. ASSUME NEW m, Takes(i, node[i], m, e) PROVE node[i].commit_index <= e.node.commit_index
  BY <1>1, <1>7 DEF Takes
<1>8. ASSUME NEW m, Hears(node[i], m, e) PROVE node[i].commit_index <= e.node.commit_index
  BY <1>1, <1>8 DEF Hears
<1> QED BY <1>2, <1>3, <1>4, <1>5, <1>6, <1>7, <1>8 DEF Shape

\* Every step of the cluster, seen from one server.
LEMMA EveryStepSeen ==
    ASSUME SnapshotThreshold = 0, NEW H \in History, Inv(H), [Next]_vars,
           NEW i \in Node
    PROVE  \/ node'[i] = node[i]
           \/ \E e : /\ Moves(H, After(H, e.node), i, e) /\ Shape(i, e)
                     /\ node'[i] = e.node /\ e.node \in NodeState
<1>1. CASE UNCHANGED vars
  BY <1>1 DEF vars
<1>2. CASE Next
  <2>1. PICK j \in Node : \E e : Moves(H, After(H, e.node), j, e) /\ Shape(j, e)
    BY <1>2, EveryMove
  <2>2. PICK e : Moves(H, After(H, e.node), j, e) /\ Shape(j, e)
    BY <2>1
  <2>3. PICK M : M = After(H, e.node)
    OBVIOUS
  <2>4. /\ node'[j] = e.node /\ e.node \in NodeState
        /\ i # j => node'[i] = node[i]
    BY <2>2, <2>3, MoveFacts
  <2> QED BY <2>2, <2>4
<1> QED BY <1>1, <1>2

LEMMA CommitsRise ==
    ASSUME SnapshotThreshold = 0, NEW H \in History, Inv(H), [Next]_vars,
           NEW i \in Node, node[i].alive, node'[i].alive
    PROVE  node[i].commit_index <= node'[i].commit_index
<1>1. node[i].commit_index \in Nat
  BY ServerFacts
<1>2. CASE node'[i] = node[i]
  BY <1>1, <1>2
<1>3. ASSUME NEW e, Shape(i, e), node'[i] = e.node, e.node \in NodeState
      PROVE  node[i].commit_index <= node'[i].commit_index
  BY <1>3, ShapeIsForward
<1> QED BY <1>2, <1>3, EveryStepSeen

LEMMA LogsAppend ==
    ASSUME SnapshotThreshold = 0, NEW H \in History, Inv(H), [Next]_vars,
           NEW M \in History, Inv(M)', NEW i \in Node
    PROVE  KeepsItsLog(i)
<1> SUFFICES ASSUME node[i].role = "leader", node'[i].role = "leader",
                    node'[i].term = node[i].term
             PROVE  IsPrefixOf(FullLog(node[i]), FullLog(node'[i]))
  BY DEF KeepsItsLog
<1>1. PICK n : n = node[i]
  OBVIOUS
<1>2. PICK p : p = node'[i]
  OBVIOUS
<1>3. FullLog(n) = n.log /\ n.log \in Seq(Entry) /\ Len(n.log) \in Nat /\ n.term \in Nat
  BY <1>1, BareLog, ServerFacts
<1>4. FullLog(p) = p.log /\ p.log \in Seq(Entry)
  <2>1. Bare(p) /\ p.log \in Seq(Entry)
    BY <1>2 DEF Inv, LogInv, ServerLog, VoteInv, TypeOK, NodeState
  <2>2. p.snapshot.image = <<>>
    BY <2>1 DEF Bare, NoSnapshot
  <2> QED BY <2>1, <2>2 DEF FullLog
<1>5. p = n \/ LeadsOn(n, p) \/ Campaigning(n, p)
  <2>1. CASE node'[i] = node[i]
    BY <1>1, <1>2, <2>1
  <2>2. ASSUME NEW e, Moves(H, After(H, e.node), i, e), node'[i] = e.node
        PROVE  LeadsOn(n, p) \/ Campaigning(n, p)
    BY <1>1, <1>2, <2>2 DEF Moves, SafeStep, LogStep
  <2> QED BY <2>1, <2>2, EveryStepSeen
<1>6. SameUpTo(n.log, p.log, Len(n.log))
  BY <1>3, <1>5 DEF LeadsOn, Campaigning, Extends, SameUpTo
<1>7. SubSeq(n.log, 1, Len(n.log)) = n.log
  BY <1>3
<1>8. IsPrefixOf(n.log, p.log)
  BY <1>3, <1>4, <1>6, <1>7, SamePrefix
<1> QED BY <1>1, <1>2, <1>3, <1>4, <1>8

LEMMA KeepsCommitted ==
    ASSUME SnapshotThreshold = 0, NEW H \in History, Inv(H), [Next]_vars,
           NEW M \in History, Inv(M)', NEW i \in Node
    PROVE  IsPrefixOf(SubSeq(FullLog(node[i]), 1, node[i].commit_index), FullLog(node'[i]))
<1>1. PICK n : n = node[i]
  OBVIOUS
<1>2. PICK p : p = node'[i]
  OBVIOUS
<1> DEFINE c == n.commit_index
<1>3. /\ FullLog(n) = n.log /\ n.log \in Seq(Entry) /\ Len(n.log) \in Nat /\ n.term \in Nat
      /\ c \in Nat /\ c <= Len(n.log)
  BY <1>1, BareLog, ServerFacts DEF AppliedIsCommitted, Applied
<1>4. FullLog(p) = p.log /\ p.log \in Seq(Entry)
  <2>1. Bare(p) /\ p.log \in Seq(Entry)
    BY <1>2 DEF Inv, LogInv, ServerLog, VoteInv, TypeOK, NodeState
  <2>2. p.snapshot.image = <<>>
    BY <2>1 DEF Bare, NoSnapshot
  <2> QED BY <2>1, <2>2 DEF FullLog
<1>5. SameUpTo(n.log, p.log, c)
  <2>1. CASE node'[i] = node[i]
    BY <1>1, <1>2, <1>3, <2>1 DEF SameUpTo
  <2>2. ASSUME NEW e, Moves(H, After(H, e.node), i, e), node'[i] = e.node
        PROVE  SameUpTo(n.log, p.log, c)
    <3>1. n.term <= p.term /\ Keeps(H, n, p)
      BY <1>1, <1>2, <2>2 DEF Moves, SafeStep, LogStep
    <3>2. p.term \in LedTerms => SameUpTo(n.log, H[p.term], c)
      BY <1>1, <3>1, CommittedIsShared
    <3>3. c \in 0..Len(n.log)
      BY <1>3
    <3> QED BY <3>1, <3>2, <3>3 DEF Keeps
  <2> QED BY <2>1, <2>2, EveryStepSeen
<1>6. IsPrefixOf(SubSeq(n.log, 1, c), p.log)
  BY <1>3, <1>4, <1>5, SamePrefix
<1> QED BY <1>1, <1>2, <1>3, <1>4, <1>6

(***************************************************************************)
(* At any time, what a leader may count a majority for is on a majority,   *)
(* although a server that acknowledged it may have moved on to a later     *)
(* term: it can have lost nothing that is chosen.                          *)
(***************************************************************************)
CountedIsHeld ==
    \A i \in Node : \A c \in 1..Len(node[i].log) :
        /\ node[i].role = "leader" /\ node[i].log[c].term = node[i].term
        /\ IsMajority({v \in Node : node[i].match_index[v] >= c}, node[i].voters)
        => \A k \in 1..c : IsMajority(Holders(node, k, node[i].log[k]), node[i].voters)

LEMMA CountedAreHolders ==
    ASSUME NEW H \in History, Inv(H)
    PROVE  CountedIsHeld
<1> SUFFICES ASSUME NEW i \in Node, NEW n, n = node[i], NEW c \in 1..Len(n.log),
                    n.role = "leader", n.log[c].term = n.term,
                    IsMajority({v \in Node : n.match_index[v] >= c}, n.voters),
                    NEW k \in 1..c
             PROVE  IsMajority(Holders(node, k, n.log[k]), n.voters)
  BY DEF CountedIsHeld
<1> DEFINE t == n.term
           L == n.log
           Q == {v \in Node : n.match_index[v] >= c}
<1>1. /\ TypeOK /\ LogInv(H) /\ AckInv(H) /\ AcksAreKept(H) /\ VoteInv /\ ConfigInv
      /\ n \in NodeState /\ t \in Nat /\ L \in Seq(Entry) /\ Len(L) \in Nat
      /\ Bookkeeping(i, n) /\ n.voters \in SUBSET Node /\ n.config_index \in Nat
  BY ServerFacts DEF Inv, AckInv, NodeState
<1>2. t \in LedTerms /\ H[t] = L /\ <<t, i>> \in leaders
  BY <1>1, LeaderFacts DEF VoteInv
<1>3. Holds(L, t, c)
  BY DEF Holds
<1>4. \A v \in Q : Acked(H, v, t, c)
  <2> SUFFICES ASSUME NEW v \in Node, n.match_index[v] >= c PROVE Acked(H, v, t, c)
    OBVIOUS
  <2>1. n.match_index[v] \in Nat
    BY <1>1 DEF NodeState
  <2>2. CASE v = i
    BY <1>2, <1>3, <2>2 DEF Acked
  <2>3. CASE v # i
    <3>1. PICK m \in msgs : IsAck(m) /\ m.src = v /\ m.term = t /\ n.match_index[v] <= m.match_index
      BY <1>1, <2>1, <2>3 DEF Bookkeeping
    <3>2. m.match_index \in Nat
      BY <1>1, <3>1 DEF TypeOK, Message, IsAck
    <3>3. c <= m.match_index
      BY <2>1, <3>1, <3>2
    <3> QED BY <1>2, <1>3, <3>1, <3>3 DEF Acked
  <2> QED BY <2>2, <2>3
<1>5. n.voters = VotersAt(L, Len(L))
  BY <1>1, GoverningVoters DEF ConfigInv
<1> HIDE DEF t, L, Q
<1>6. Chosen(H, t, c)
  <2>1. Q \in SUBSET Node /\ IsMajority(Q, VotersAt(L, Len(L))) /\ Len(L) \in c..Len(L)
    BY <1>1, <1>5 DEF Q, L
  <2> QED BY <1>2, <1>3, <1>4, <2>1 DEF Chosen, ChosenBy
<1>7. ASSUME NEW v \in Q
      PROVE  k \in DOMAIN FullLog(node[v]) /\ FullLog(node[v])[k] = L[k]
  <2>1. /\ v \in Node /\ FullLog(node[v]) = node[v].log /\ node[v].log \in Seq(Entry)
        /\ node[v].term \in Nat /\ Backed(H, node[v].log) /\ Len(node[v].log) \in Nat
    BY BareLog, ServerFacts DEF ServerLog, Q
  <2>2. Holds(node[v].log, t, c) \/ Overtaken(H, t, c, node[v].term)
    <3>1. c \in 1..Len(H[t])
      BY <1>2 DEF L
    <3> QED BY <1>1, <1>2, <1>4, <2>1, <3>1 DEF AcksAreKept
  <2>3. ~Overtaken(H, t, c, node[v].term)
    BY <1>1, <1>2, <1>6, ChosenIsHeld DEF Overtaken
  <2>4. c \in 1..Len(node[v].log) /\ node[v].log[c].term = t
    BY <2>2, <2>3 DEF Holds
  <2>5. SameUpTo(node[v].log, L, c)
    BY <1>2, <2>1, <2>4 DEF Backed
  <2>6. k \in 1..Len(node[v].log) /\ node[v].log[k] = L[k]
    BY <2>1, <2>4, <2>5 DEF SameUpTo
  <2> QED BY <2>1, <2>6
<1> DEFINE S == Holders(node, k, L[k])
<1>8. Q \subseteq S
  <2>1. Q \subseteq Node
    BY DEF Q
  <2> QED BY <1>7, <2>1 DEF Holders
<1> HIDE DEF S
<1>9. IsMajority(S, n.voters)
  BY <1>1, <1>8, MoreIsMajority DEF Q
<1> QED BY <1>9 DEF S, L

\* What is seen committed for the first time, its leader has just counted.
LEMMA CommitsAreCounted ==
    ASSUME SnapshotThreshold = 0, NEW H \in History, Inv(H), [Next]_vars, CountedIsHeld',
           NEW i \in Node, NEW k \in (Len(committed) + 1)..Len(node'[i].machine)
    PROVE  IsMajority(Holders(node', k, node'[i].machine[k]), node'[i].voters)
<1>1. /\ Len(committed) \in Nat /\ node[i].machine \in Seq(Entry)
      /\ Len(node[i].machine) = node[i].commit_index
      /\ node[i].commit_index \in Nat /\ node[i].commit_index <= Len(committed)
  BY ServerFacts DEF AppliedIsCommitted, Applied, NodeState
<1>2. CASE node'[i] = node[i]
  BY <1>1, <1>2
<1>3. ASSUME NEW e, Moves(H, After(H, e.node), i, e), Shape(i, e),
             node'[i] = e.node, e.node \in NodeState
      PROVE  IsMajority(Holders(node', k, node'[i].machine[k]), node'[i].voters)
  <2>0. PICK n : n = node[i]
    OBVIOUS
  <2>1. PICK p : p = e.node
    OBVIOUS
  <2> DEFINE c == p.commit_index
             Counted == /\ p.role = "leader" /\ p.log = n.log /\ c \in 1..Len(p.log)
                        /\ p.log[c].term = p.term
                        /\ IsMajority({v \in Node : p.match_index[v] >= c}, n.voters)
  <2>2. /\ Applied(p) /\ p.machine \in Seq(Entry) /\ c \in Nat /\ p.log \in Seq(Entry)
        /\ Len(p.log) \in Nat
    BY <1>3, <2>1 DEF Moves, SafeStep, CommitStep, NodeState
  <2>3. /\ Len(p.machine) = c /\ k \in 1..c /\ p.machine[k] = p.log[k]
        /\ c > Len(committed) /\ c > n.commit_index
    BY <1>1, <1>3, <2>0, <2>1, <2>2 DEF Applied
  <2> HIDE DEF c
  <2>4. Counted
    <3>1. ASSUME Idles(n, p) PROVE FALSE
      BY <1>1, <2>0, <2>2, <2>3, <3>1 DEF Idles, c
    <3>2. CASE Rests(i, n, e) \/ Competes(i, n, e)
      BY <2>1, <3>1, <3>2 DEF Rests, Competes
    <3>3. CASE Appends(i, n, e) \/ Reconfigures(i, n, e)
      <4>1. PICK command : AppendsEntry(i, n, command, e.node)
        BY <3>3 DEF Appends, Reconfigures
      <4> QED BY <1>1, <2>0, <2>1, <2>2, <2>3, <4>1 DEF AppendsEntry, c
    <3>4. CASE Crashes(n, e)
      BY <1>1, <2>0, <2>1, <2>2, <2>3, <3>4 DEF Crashes, c
    <3>5. ASSUME NEW m, Votes(i, n, m, e) PROVE FALSE
      BY <2>1, <3>1, <3>5 DEF Votes
    <3>6. ASSUME NEW m, Takes(i, n, m, e) PROVE FALSE
      <4>1. p.role = "leader"
        BY <1>3, <2>1, <2>3, LeadersCommitFirst DEF c
      <4> QED BY <2>1, <3>6, <4>1 DEF Takes
    <3>7. ASSUME NEW m, Hears(n, m, e) PROVE Counted
      <4>1. /\ p.role = "leader" /\ p.term = n.term /\ p.log = n.log
            /\ p.commit_index <= Len(n.log)
            /\ \A j \in p.commit_index..Len(n.log) : n.log[j].term = n.term
            /\ IsMajority({v \in Node : p.match_index[v] >= p.commit_index}, n.voters)
        BY <1>1, <2>0, <2>1, <2>2, <2>3, <3>7 DEF Hears, c
      <4>2. c \in 1..Len(p.log) /\ c \in c..Len(n.log)
        BY <1>1, <2>2, <2>3, <4>1 DEF c
      <4> QED BY <4>1, <4>2 DEF c
    <3> QED BY <1>3, <2>0, <3>2, <3>3, <3>4, <3>5, <3>6, <3>7 DEF Shape
  <2>5. p.voters = n.voters
    <3>1. ConfigInv /\ ConfigInv'
      BY <1>3 DEF Moves, Inv
    <3>2. /\ Governs(n.log, n.voters, n.config_index) /\ Governs(p.log, p.voters, p.config_index)
          /\ n.log \in Seq(Entry)
      BY <1>3, <2>0, <2>1, <3>1, ServerFacts DEF ConfigInv, Governs
    <3>3. n.config_index \in Nat /\ p.config_index \in Nat
      BY <1>3, <2>0, <2>1, ServerFacts DEF NodeState
    <3>4. n.voters = VotersAt(n.log, Len(n.log))
      BY <3>2, <3>3, GoverningVoters
    <3>5. p.voters = VotersAt(p.log, Len(p.log))
      BY <2>2, <3>2, <3>3, GoverningVoters
    <3> QED BY <2>4, <3>4, <3>5
  <2>6. IsMajority(Holders(node', k, p.log[k]), p.voters)
    <3>1. \A d \in 1..Len(node'[i].log) :
            /\ node'[i].role = "leader" /\ node'[i].log[d].term = node'[i].term
            /\ IsMajority({v \in Node : node'[i].match_index[v] >= d}, node'[i].voters)
            => \A l \in 1..d : IsMajority(Holders(node', l, node'[i].log[l]), node'[i].voters)
      BY DEF CountedIsHeld, IsMajority, Holders
    <3> QED BY <1>3, <2>1, <2>3, <2>4, <2>5, <3>1
  <2> QED BY <1>3, <2>1, <2>3, <2>6
<1> QED BY <1>2, <1>3, EveryStepSeen

---------------------------------------------------------------------------
(***************************************************************************)
(* The theorems.  The invariant is inductive: every state of a cluster in  *)
(* which nothing is compacted has a history that explains it.              *)
(***************************************************************************)
LEMMA AlwaysExplained ==
    ASSUME SnapshotThreshold = 0
    PROVE  Spec => []Explained
<1>1. Init => Explained
  BY InvBegins DEF Explained
<1>2. Explained /\ [Next]_vars => Explained'
  BY ExplainedStays
<1> QED BY <1>1, <1>2, PTL DEF Spec

(***************************************************************************)
(* Election Safety: no two servers are ever seen leading the same term,    *)
(* although servers may be added and removed while others campaign         *)
(* (RaftNode.change_config, _adopt_config, start_election).                *)
(***************************************************************************)
THEOREM OneLeaderAcrossChanges ==
    ASSUME SnapshotThreshold = 0
    PROVE  Spec => []ElectionSafety
<1>1. Explained => ElectionSafety
  BY LeadersAreAlone DEF Explained
<1> QED BY <1>1, AlwaysExplained, PTL

(***************************************************************************)
(* A server that is up always waits for what its role makes it wait for,   *)
(* a server that was removed from the configuration included: no handler   *)
(* leaves one with nothing to wake it, or with the wrong alarm             *)
(* (RaftNode._become_follower, _become_leader, resume).                    *)
(***************************************************************************)
THEOREM AwakeAcrossChanges ==
    ASSUME SnapshotThreshold = 0
    PROVE  Spec => []TimerMatchesRole
<1>1. Explained /\ TimerInv /\ [Next]_vars => TimerInv'
  <2> SUFFICES ASSUME Explained, TimerInv, [Next]_vars PROVE TimerInv'
    OBVIOUS
  <2>1. CASE UNCHANGED vars
    <3>1. node' = node /\ msgs' = msgs /\ leaders' = leaders
      BY <2>1 DEF vars
    <3> QED BY <3>1 DEF TimerInv, Waits, CallsOthers
  <2>2. CASE Next
    <3>1. PICK H \in History : Inv(H)
      BY DEF Explained
    <3>2. PICK i \in Node : \E e : Moves(H, After(H, e.node), i, e) /\ Performs(i, e)
      BY <2>2, <3>1, EveryMove
    <3>3. PICK e : Moves(H, After(H, e.node), i, e) /\ Performs(i, e)
      BY <3>2
    <3>4. VoteInv /\ ElectionSafety /\ GoodEffect(e) /\ Step(i, e)
      BY <3>1, <3>3, LeadersAreAlone DEF Moves, Inv, ElectionStep
    <3>5. StaysAwake(i, e) \/ e = Silent(pause(node[i]))
      BY <3>3, <3>4, PerformsAwake
    <3> QED BY <3>4, <3>5, TimersStay
  <2> QED BY <2>1, <2>2
<1>2. TimerInv => TimerMatchesRole
  BY DEF TimerInv, Waits, TimerMatchesRole
<1> QED BY <1>1, <1>2, TimersBegin, AlwaysExplained, PTL DEF Spec

(***************************************************************************)
(* Log Matching: two logs that have entries of the same term at an index   *)
(* are identical up to it (RaftNode._on_append_entries).                   *)
(***************************************************************************)
THEOREM LogsAlwaysMatch ==
    ASSUME SnapshotThreshold = 0
    PROVE  Spec => []LogMatching
<1>1. Explained => LogMatching
  BY LogsMatch DEF Explained
<1> QED BY <1>1, AlwaysExplained, PTL

(***************************************************************************)
(* Leader Completeness: no entry that was seen committed is missing in a   *)
(* leader of that term or a later one, so that no election loses a write   *)
(* (RaftNode._on_request_vote and _log_up_to_date).                        *)
(***************************************************************************)
THEOREM LeadersHaveTheCommitted ==
    ASSUME SnapshotThreshold = 0
    PROVE  Spec => []LeaderCompleteness
<1>1. Explained => LeaderCompleteness
  BY LeadersAreComplete DEF Explained
<1> QED BY <1>1, AlwaysExplained, PTL

(***************************************************************************)
(* State Machine Safety: no two servers ever apply different entries at an *)
(* index, in whatever terms and incarnations (RaftNode._set_commit_index). *)
(***************************************************************************)
THEOREM MachinesNeverDiverge ==
    ASSUME SnapshotThreshold = 0
    PROVE  Spec => []StateMachineSafety
<1>1. Explained => StateMachineSafety
  BY MachinesAgree DEF Explained
<1> QED BY <1>1, AlwaysExplained, PTL

(***************************************************************************)
(* What a leader counts towards a majority its followers hold, whatever    *)
(* replies were lost, repeated or overtaken (RaftNode._on_append_reply).   *)
(***************************************************************************)
THEOREM MatchesAreReal ==
    ASSUME SnapshotThreshold = 0
    PROVE  Spec => []MatchIsHeld
<1>1. Explained => MatchIsHeld
  BY MatchesAreHeld DEF Explained
<1> QED BY <1>1, AlwaysExplained, PTL

(***************************************************************************)
(* No handler looks up an entry beyond a log: IndexError never ends the    *)
(* run (RaftNode._send_append_entries and _set_commit_index).              *)
(***************************************************************************)
THEOREM NoIndexIsOutside ==
    ASSUME SnapshotThreshold = 0
    PROVE  Spec => []NoIndexError
<1>1. Explained => NoIndexError
  BY NoLookupFails DEF Explained
<1> QED BY <1>1, AlwaysExplained, PTL

(***************************************************************************)
(* No log has a request twice, however often and wherever it is retried    *)
(* (RaftNode.client_command and _rebuild_client_index).                    *)
(***************************************************************************)
THEOREM RequestsAreLoggedOnce ==
    ASSUME SnapshotThreshold = 0
    PROVE  Spec => []NoDuplicateRequest
<1>1. Explained => NoDuplicateRequest
  BY RequestsAreUnique DEF Explained
<1> QED BY <1>1, AlwaysExplained, PTL

(***************************************************************************)
(* The commit index of a server that is not crashing never falls.          *)
(***************************************************************************)
THEOREM CommitIndexNeverFalls ==
    ASSUME SnapshotThreshold = 0
    PROVE  Spec => CommitIndexMonotonic
<1> DEFINE Rises == \A i \in Node : node[i].alive /\ node'[i].alive =>
                        node[i].commit_index <= node'[i].commit_index
<1>1. Explained /\ [Next]_vars => [Rises]_vars
  BY CommitsRise DEF Explained
<1> QED BY <1>1, AlwaysExplained, PTL DEF Spec, CommitIndexMonotonic

(***************************************************************************)
(* A leader never overwrites or deletes an entry of its own log.           *)
(***************************************************************************)
THEOREM LeadersOnlyAppend ==
    ASSUME SnapshotThreshold = 0
    PROVE  Spec => LeaderAppendOnly
<1> DEFINE Appended == \A i \in Node : KeepsItsLog(i)
<1>1. Explained /\ Explained' /\ [Next]_vars => [Appended]_vars
  BY LogsAppend DEF Explained
<1> QED BY <1>1, AlwaysExplained, PTL DEF Spec, LeaderAppendOnly

(***************************************************************************)
(* No step takes or changes an entry that a server knows to be committed,  *)
(* the truncation of a conflicting log included                            *)
(* (RaftNode._on_append_entries).                                          *)
(***************************************************************************)
THEOREM CommittedIsNeverLost ==
    ASSUME SnapshotThreshold = 0
    PROVE  Spec => CommittedIsKept
<1> DEFINE Kept == \A i \in Node :
        IsPrefixOf(SubSeq(FullLog(node[i]), 1, node[i].commit_index), FullLog(node'[i]))
<1>1. Explained /\ Explained' /\ [Next]_vars => [Kept]_vars
  BY KeepsCommitted DEF Explained
<1> QED BY <1>1, AlwaysExplained, PTL DEF Spec, CommittedIsKept

(***************************************************************************)
(* Whatever is seen committed for the first time is on a majority at that  *)
(* moment (RaftNode._advance_commit).                                      *)
(***************************************************************************)
THEOREM CommittedByMajority ==
    ASSUME SnapshotThreshold = 0
    PROVE  Spec => CommitQuorum
<1> DEFINE Quorum == \A i \in Node : \A k \in (Len(committed) + 1)..Len(node'[i].machine) :
                       IsMajority(Holders(node', k, node'[i].machine[k]), node'[i].voters)
<1>1. Explained => CountedIsHeld
  BY CountedAreHolders DEF Explained
<1>2. Explained /\ CountedIsHeld' /\ [Next]_vars => [Quorum]_vars
  BY CommitsAreCounted DEF Explained
<1> HIDE DEF Quorum
<1>3. Spec => [][Quorum]_vars
  BY <1>1, <1>2, AlwaysExplained, PTL DEF Spec
<1> QED BY <1>3 DEF CommitQuorum, Quorum

---------------------------------------------------------------------------
(* The cluster implements the replicated log. *)

LEMMA AgreedType ==
    ASSUME TypeOK
    PROVE  /\ AgreedEntries \in Seq(Entry) /\ Len(AgreedEntries) = Len(committed)
           /\ \A k \in 1..Len(committed) : AgreedEntries[k] = committed[k].entry
<1>1. /\ Len(committed) \in Nat
      /\ \A k \in 1..Len(committed) : committed[k].entry \in Entry
  <2> DEFINE T == [entry : Entry, term : Nat]
  <2>1. committed \in Seq(T)
    BY DEF TypeOK
  <2>2. \A x \in T : x.entry \in Entry
    OBVIOUS
  <2> HIDE DEF T
  <2>3. Len(committed) \in Nat /\ \A k \in 1..Len(committed) : committed[k] \in T
    BY <2>1
  <2> QED BY <2>2, <2>3
<1> DEFINE E(k) == committed[k].entry
<1>2. AgreedEntries = [k \in 1..Len(committed) |-> E(k)] /\ \A k \in 1..Len(committed) : E(k) \in Entry
  BY <1>1 DEF AgreedEntries
<1>3. \A k \in 1..Len(committed) : E(k) = committed[k].entry
  OBVIOUS
<1> HIDE DEF E
<1> QED BY <1>1, <1>2, <1>3

LEMMA AgreedTypeNext ==
    TypeOK' => /\ AgreedEntries' \in Seq(Entry) /\ Len(AgreedEntries') = Len(committed')
               /\ \A k \in 1..Len(committed') : AgreedEntries'[k] = committed'[k].entry
<1> DEFINE Good == /\ AgreedEntries \in Seq(Entry) /\ Len(AgreedEntries) = Len(committed)
                   /\ \A k \in 1..Len(committed) : AgreedEntries[k] = committed[k].entry
<1>1. TypeOK => Good
  BY AgreedType
<1> HIDE DEF Good
<1>2. TypeOK' => Good'
  BY <1>1, PTL
<1> QED BY <1>2 DEF Good

\* A sequence that agrees with all of another up to its end is a prefix of it.
LEMMA IsPrefixOfAgreed ==
    ASSUME NEW s \in Seq(Entry), NEW t \in Seq(Entry), Len(s) <= Len(t),
           \A k \in 1..Len(s) : s[k] = t[k]
    PROVE  s = SubSeq(t, 1, Len(s))
<1>1. SameUpTo(s, t, Len(s)) /\ Len(s) \in Nat
  BY DEF SameUpTo
<1>2. SubSeq(s, 1, Len(s)) = s
  OBVIOUS
<1>3. SubSeq(s, 1, Len(s)) = SubSeq(t, 1, Len(s))
  BY <1>1, SamePrefix
<1> QED BY <1>2, <1>3

LEMMA StepImplements ==
    ASSUME SnapshotThreshold = 0, NEW H \in History, Inv(H), Next,
           StateMachineSafety'
    PROVE  Log!Next
<1>1. PICK i \in Node : \E e : Moves(H, After(H, e.node), i, e) /\ Shape(i, e)
  BY EveryMove
<1>2. PICK e : Moves(H, After(H, e.node), i, e) /\ Shape(i, e)
  BY <1>1
<1>3. PICK M : M = After(H, e.node)
  OBVIOUS
<1> DEFINE n == node[i]
           p == e.node
           a == AgreedEntries
           b == AgreedEntries'
           machines == [j \in Node |-> node[j].machine]
           images == [j \in Node |-> node[j].snapshot.image]
<1>4. /\ TypeOK /\ TypeOK' /\ p \in NodeState /\ Step(i, e)
      /\ node'[i] = p /\ \A j \in Node : j # i => node'[j] = node[j]
  BY <1>2, <1>3, MoveFacts DEF Moves
<1>5. /\ n.machine \in Seq(Entry) /\ Len(n.machine) \in Nat /\ n.commit_index = Len(n.machine)
      /\ p.machine \in Seq(Entry) /\ Len(p.machine) \in Nat /\ p.commit_index = Len(p.machine)
      /\ Len(n.machine) <= Len(committed)
  <2>1. n \in NodeState /\ AppliedIsCommitted(H, n) /\ Applied(p)
    BY <1>2, ServerFacts DEF Moves, SafeStep, CommitStep
  <2> QED BY <1>4, <2>1 DEF NodeState, AppliedIsCommitted, Applied
<1>6. images' = images /\ images[i] = <<>>
  <2>1. Bare(p) /\ \A j \in Node : Bare(node[j])
    BY <1>2, ServerFacts DEF Moves, SafeStep, LogStep, ServerLog
  <2>2. p.snapshot.image = <<>> /\ \A j \in Node : node[j].snapshot.image = <<>>
    BY <2>1 DEF Bare, NoSnapshot
  <2>3. \A j \in Node : node'[j].snapshot.image = <<>>
    BY <1>4, <2>2
  <2> QED BY <2>2, <2>3
<1>7. machines' = [machines EXCEPT ![i] = p.machine] /\ machines[i] = n.machine
  BY <1>4
<1>8. /\ a \in Seq(Entry) /\ Len(a) = Len(committed)
      /\ \A k \in 1..Len(committed) : a[k] = committed[k].entry
      /\ b \in Seq(Entry) /\ Len(b) = Len(committed')
      /\ \A k \in 1..Len(committed') : b[k] = committed'[k].entry
  BY <1>4, AgreedType, AgreedTypeNext
<1>9. /\ Len(committed) \in Nat /\ Len(committed') \in Nat
      /\ Len(committed') = Larger(Len(committed), Len(p.machine))
      /\ \A k \in 1..Len(committed) : committed'[k] = committed[k]
  BY <1>4, CommittedGrows
<1>10. Len(p.machine) <= Len(b) /\ \A k \in 1..Len(p.machine) : p.machine[k] = b[k]
  BY <1>4, <1>5, <1>8, <1>9 DEF StateMachineSafety, Larger
<1>11. p.machine = SubSeq(b, 1, Len(p.machine))
  BY <1>5, <1>8, <1>10, IsPrefixOfAgreed
<1> HIDE DEF n, p, a, b, machines, images
<1>12. a = SubSeq(b, 1, Len(a))
  <2>1. Len(a) <= Len(b) /\ \A k \in 1..Len(a) : a[k] = b[k]
    BY <1>5, <1>8, <1>9 DEF Larger
  <2> QED BY <1>8, <2>1, IsPrefixOfAgreed
<1>13. CASE Len(p.machine) > Len(committed)
  <2>1. Len(p.machine) = Len(b) /\ Len(b) > Len(a)
    BY <1>5, <1>8, <1>9, <1>13 DEF Larger
  <2>2. SubSeq(b, 1, Len(b)) = b
    BY <1>8
  <2>3. p.machine = b
    BY <1>11, <2>1, <2>2
  <2>4. Log!Agree(i)
    BY <1>6, <1>7, <1>8, <1>12, <2>1, <2>3
       DEF Log!Agree, Log!MaySave, a, b, machines, images
  <2> QED BY <2>4 DEF Log!Next
<1>14. CASE Len(p.machine) <= Len(committed)
  <2>1. Len(b) = Len(a)
    BY <1>5, <1>8, <1>9, <1>14 DEF Larger
  <2>2. SubSeq(b, 1, Len(b)) = b
    BY <1>8
  <2>3. b = a
    BY <1>12, <2>1, <2>2
  <2>4. CASE Len(n.machine) <= Len(p.machine)
    <3>1. Len(p.machine) \in Len(n.machine)..Len(a)
      BY <1>5, <1>8, <1>14, <2>4
    <3>2. p.machine = SubSeq(a, 1, Len(p.machine))
      BY <1>11, <2>3
    <3>3. Log!CatchUp(i)
      BY <1>6, <1>7, <2>3, <3>1, <3>2
         DEF Log!CatchUp, Log!MaySave, Log!Prefix, a, b, machines, images
    <3> QED BY <3>3 DEF Log!Next
  <2>5. CASE Len(n.machine) > Len(p.machine)
    <3>1. p.machine = <<>>
      BY <1>2, <1>4, <1>5, <2>5, ShapeIsForward DEF n, p
    <3>2. Log!Crash(i)
      BY <1>6, <1>7, <2>3, <3>1 DEF Log!Crash, a, b, machines, images
    <3> QED BY <3>2 DEF Log!Next
  <2> QED BY <1>5, <2>4, <2>5
<1> QED BY <1>5, <1>9, <1>13, <1>14

(***************************************************************************)
(* The cluster implements the replicated log: whatever it does, the state  *)
(* machines consume one sequence that only grows, each a prefix of it, and *)
(* go back only in a crash (RaftNode._set_commit_index, _reset_volatile).  *)
(***************************************************************************)
THEOREM ClusterImplementsLog ==
    ASSUME SnapshotThreshold = 0
    PROVE  Spec => ImplementsReplicatedLog
<1>1. Init => Log!Init
  <2> SUFFICES ASSUME Init PROVE Log!Init
    OBVIOUS
  <2>1. /\ \A i \in Node : node[i].machine = <<>> /\ node[i].snapshot.image = <<>>
        /\ committed = <<>>
    BY DEF Init, InitNode, NoSnapshot
  <2>2. AgreedEntries = <<>>
    BY <2>1 DEF AgreedEntries
  <2> QED BY <2>1, <2>2 DEF Log!Init
<1>2. Explained => StateMachineSafety
  BY MachinesAgree DEF Explained
<1>3. ASSUME Explained, [Next]_vars, StateMachineSafety' PROVE [Log!Next]_(Log!absvars)
  <2>1. CASE Next
    BY <1>3, <2>1, StepImplements DEF Explained
  <2>2. CASE UNCHANGED vars
    BY <2>2 DEF vars, Log!absvars, AgreedEntries
  <2> QED BY <1>3, <2>1, <2>2
<1> QED BY <1>1, <1>2, <1>3, AlwaysExplained, PTL
        DEF Spec, ImplementsReplicatedLog, Log!Spec
=============================================================================
