------------------------------- MODULE MCGame -------------------------------
(* Game for TLC: the planes that the random generator makes. *)
EXTENDS Game, TLC

CONSTANTS a, b, c, d

(* A new plane at (x, y), 1000 metres high. *)
New(id, x, y, heading, speed) ==
  [id |-> id,
   flight |-> [x |-> x, y |-> y, z |-> 1000, time |-> 0, heading |-> heading,
               elevation |-> 0, speed |-> speed, status |-> "flying"]]

(* Slow enough to land at once; over the first airport; flying North. *)
OneSlow == [t \in 0..MaxTime |-> New(a, 1000, 1000, 0, 42)]

(* A second plane, a third and a fourth one, from their own seconds. *)
Few == [t \in 0..MaxTime |->
  IF t = 0 THEN New(a, 1000, 1000, 0, 42)
  ELSE IF t <= 30 THEN New(b, 3999, 0, 225, 238)
  ELSE IF t <= 50 THEN New(c, 2000, 2000, 315, 140)
  ELSE New(d, 0, 0, 270, 224)]

(* A plane of its own from every 30 seconds. *)
Many == [t \in 0..MaxTime |->
  New(IF t < 30 THEN a ELSE IF t < 60 THEN b ELSE IF t < 90 THEN c ELSE d,
      0, 0, 270, 224)]

ProcSymmetry == Permutations(Proc)

=============================================================================
