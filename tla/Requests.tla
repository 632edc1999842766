------------------------------ MODULE Requests ------------------------------
(***************************************************************************)
(* The requests of the protocol and what the functions of ATCD that they   *)
(* stand for may return.                                                   *)
(***************************************************************************)
EXTENDS Integers, Sequences

CONSTANTS
  MaxList,    \* bound: the longest list that a function returns
  ScanFails   \* whether get_airplanes may fail

ASSUME RequestAssumption == MaxList \in Nat \ {0} /\ ScanFails \in BOOLEAN

(* get_count stands for get_landed and get_crashed. *)
ListOp == {"get_airplanes", "get_airports"}
Op == ListOp \cup {"set", "get_count", "create_plane"}

(* A request; `id' says which call of the client it is, and is on no wire. *)
Request == [op : Op \cup {"leave"}, id : Nat]

(* What a function returns: a list's length, and the list, is tagged with   *)
(* the call, to tell one answer from another.                              *)
Listed(id, n) == [of |-> id, code |-> n, list |-> [i \in 1..n |-> <<id, i>>]]
Code(id, n) == [of |-> id, code |-> n, list |-> << >>]

Outcome(r) ==
  CASE r.op = "get_airplanes" ->
         {Listed(r.id, n) : n \in 0..MaxList}
           \cup (IF ScanFails THEN {Code(r.id, -1)} ELSE {})
    [] r.op = "get_airports" -> {Listed(r.id, MaxList)}
    [] r.op = "set" -> {Code(r.id, 0), Code(r.id, -1)}
    [] r.op = "get_count" -> {Code(r.id, n) : n \in (IF ScanFails THEN -1 ELSE 0)..1}
    [] OTHER -> {Code(r.id, 0)}

=============================================================================
