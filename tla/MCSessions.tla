----------------------------- MODULE MCSessions -----------------------------
(***************************************************************************)
(* Small instances of ClientSessions: one register, two clients.           *)
(***************************************************************************)
EXTENDS ClientSessions, TLC

CONSTANTS s1, s2, c1, c2

Operation(op, value, expected) == [op |-> op, key |-> "x", value |-> value, expected |-> expected]

\* A write, a read, and a swap that would fail if it were executed again.
AllKinds == {Operation("put", "a", ""), Operation("get", "", ""), Operation("cas", "b", "a")}
\* One client comes back with a second request.
ThreeRequests == {<<c1, 0>>, <<c1, 1>>, <<c2, 0>>}
SymmetricServers == Permutations(Server)
=============================================================================
