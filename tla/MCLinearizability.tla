------------------------- MODULE MCLinearizability -------------------------
(***************************************************************************)
(* Small instances of the oracle: every history of three operations on one *)
(* register, by clients that may all be under way at once, with every      *)
(* combination of results.                                                 *)
(***************************************************************************)
EXTENDS Linearizability

CONSTANT x

Cmd(op, value, expected) == [op |-> op, key |-> x, value |-> value, expected |-> expected]

\* Two writes that can be told apart, a read, and a swap that one of them enables.
AllKinds == {Cmd("put", "a", ""), Cmd("put", "b", ""), Cmd("get", "", ""), Cmd("cas", "b", "a")}
=============================================================================
