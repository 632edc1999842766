------------------------------- MODULE Flight -------------------------------
(***************************************************************************)
(* How a plane moves, obeys and comes down: the arithmetic of atcd.c.      *)
(*                                                                         *)
(* The code's coefficients have four decimals and are kept here in units   *)
(* of 1/10000.  It works them out in float and double and truncates        *)
(* towards zero; here they are exact, so a coordinate may differ by the    *)
(* one metre that a float's rounding costs.                                *)
(***************************************************************************)
EXTENDS Integers

CONSTANTS
  Clipped,   \* where a coordinate too large for an int may end up
  LongAgo    \* the time that stands for one too small for an int

MAX_LEN == 4000
MAX_HEIGHT == 4000
LANDING_TOLERANCE == 500

XRange == 0..(MAX_LEN - 1)
YRange == 0..(MAX_HEIGHT - 1)

ASSUME ClippedAssumption ==
  Clipped # {} /\ Clipped \subseteq XRange /\ Clipped \subseteq YRange
ASSUME LongAgoAssumption == LongAgo \in Int

Heading == {0, 45, 90, 135, 180, 225, 270, 315}
Elevation == {-30, -20, -10, 0, 10, 20, 30}
Speed == {42 + 14 * n : n \in 0..17}
Status == {"landed", "crashed", "flying"}
Command == {"speed_up", "speed_down", "climb", "descend", "turn_right",
            "turn_left"}

(* The record of a plane that is in the air, struct atc_plane without id. *)
Airborne == [x : XRange, y : YRange, z : Nat, time : Int,
             heading : Heading, elevation : Elevation, speed : Speed,
             status : {"flying"}]

(* A record of zeros, its status 0 being `landed'. *)
ZeroFlight == [x |-> 0, y |-> 0, z |-> 0, time |-> 0, heading |-> 0,
               elevation |-> 0, speed |-> 0, status |-> "landed"]

-----------------------------------------------------------------------------
(* _sin and _cos, which have each other's values. *)

Sin(angle) ==
  CASE angle = 0 -> 10000
    [] angle \in {45, 315} -> 7071
    [] angle \in {135, 225} -> -7071
    [] angle = 180 -> -10000
    [] OTHER -> 0

Cos(angle) ==
  CASE angle = -30 -> -5000
    [] angle = -20 -> -3420
    [] angle = -10 -> -1736
    [] angle = 10 -> 1736
    [] angle = 20 -> 3420
    [] angle = 30 -> 5000
    [] angle \in {45, 135} -> 7071
    [] angle = 90 -> 10000
    [] angle \in {225, 315} -> -7071
    [] angle = 270 -> -10000
    [] OTHER -> 0

(* The cast to int of n/10000. *)
Trunc(n) == IF n >= 0 THEN n \div 10000 ELSE -((-n) \div 10000)

(* (int)(coefficient * speed * time + from) *)
Travel(coefficient, speed, time, from) ==
  Trunc(coefficient * speed * time + 10000 * from)

-----------------------------------------------------------------------------
(* calculate_position                                                      *)

Altitude(f, t) == Travel(Cos(f.elevation), f.speed, t - f.time, f.z)

ComesDown(f, t) == Altitude(f, t) < 0

(* Mutant: planes leave the map. *)
MovedOffMap(f, t) ==
  [f EXCEPT !.z = Altitude(f, t),
            !.x = Travel(Cos(f.heading), f.speed, t - f.time, f.x),
            !.y = Travel(Sin(f.heading), f.speed, t - f.time, f.y)]

(* In the air at time t.  The map is a torus: % and the correction of a    *)
(* negative remainder are one modulo.                                      *)
Moved(f, t) ==
  [f EXCEPT
     !.z = Altitude(f, t),
     !.x = Travel(Cos(f.heading), f.speed, t - f.time, f.x) % MAX_LEN,
     !.y = Travel(Sin(f.heading), f.speed, t - f.time, f.y) % MAX_HEIGHT]

(* The airports are at (1000, 1000) and (2000, 2000). *)
Airports == {[x |-> 1000, y |-> 1000], [x |-> 2000, y |-> 2000]}

(* _in_da_zone, which is 0 in a landing zone and -1 elsewhere. *)
InDaZone(f) ==
  IF \E a \in Airports :
       /\ f.x > a.x - LANDING_TOLERANCE /\ f.x < a.x + LANDING_TOLERANCE
       /\ f.y > a.y - LANDING_TOLERANCE /\ f.y < a.y + LANDING_TOLERANCE
    THEN 0 ELSE -1

(* _crashed_or_landed: `!_in_da_zone(plane)' holds IN the zone. *)
CrashedOrLanded(f) ==
  IF f.elevation # -10 \/ f.speed > 56 \/ InDaZone(f) = 0
    THEN "crashed" ELSE "landed"

(* A coordinate of a plane that came down.  The time of the crash divides  *)
(* by _sin(elevation), 0 for every elevation a plane comes down at, and    *)
(* the cast of an infinity to int is undefined: INT_MIN where gcc compiles *)
(* to cvttsd2si.  A coefficient of 0 undoes it; with another the position  *)
(* overflows too, and INT_MIN is 352 modulo 4000 (INT_MAX, where casts     *)
(* saturate, 3647).                                                        *)
Fallen(coefficient, from) == IF coefficient = 0 THEN {from} ELSE Clipped

(* Every record a plane that comes down may be left with. *)
Down(f) ==
  {LET g == [f EXCEPT !.time = LongAgo, !.x = at[1], !.y = at[2]]
   IN  [g EXCEPT !.status = CrashedOrLanded(g)] :
     at \in Fallen(Cos(f.heading), f.x) \X Fallen(Sin(f.heading), f.y)}

-----------------------------------------------------------------------------
(* set                                                                     *)

(* Mutant: nothing stops a plane from diving. *)
RefusedButDives(cmd, f) ==
  \/ cmd = "speed_up" /\ f.speed >= 280
  \/ cmd = "speed_down" /\ f.speed <= 42
  \/ cmd = "climb" /\ f.elevation = 30

(* The commands that set turns down with -1. *)
Refused(cmd, f) ==
  \/ cmd = "speed_up" /\ f.speed >= 280
  \/ cmd = "speed_down" /\ f.speed <= 42
  \/ cmd = "climb" /\ f.elevation = 30
  \/ cmd = "descend" /\ f.elevation = -30

Steer(cmd, f) ==
  CASE cmd = "speed_up" -> [f EXCEPT !.speed = @ + 14]
    [] cmd = "speed_down" -> [f EXCEPT !.speed = @ - 14]
    [] cmd = "climb" -> [f EXCEPT !.elevation = @ + 10]
    [] cmd = "descend" -> [f EXCEPT !.elevation = @ - 10]
    [] cmd = "turn_right" ->
         [f EXCEPT !.heading = (IF @ = 0 THEN 360 ELSE @) - 45]
    [] cmd = "turn_left" -> [f EXCEPT !.heading = (@ + 45) % 360]

(* What set may store for a plane it was passed as f at time t: the clock  *)
(* is written into the plane before calculate_position sees it.            *)
Commanded(cmd, f, t) ==
  LET g == [f EXCEPT !.time = t] IN
  IF ComesDown(g, t) THEN Down(g)
  ELSE IF Refused(cmd, g) THEN {}
  ELSE {Steer(cmd, Moved(g, t))}

=============================================================================
