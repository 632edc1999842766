----------------------------- MODULE GameProofs -----------------------------
(***************************************************************************)
(* Proofs about Flight and Game for any players, planes, clock and bounds. *)
(***************************************************************************)
EXTENDS Game, FiniteSetTheorems, TLAPS

-----------------------------------------------------------------------------
(* Arithmetic                                                              *)

LEMMA TruncIsInt == \A n \in Int : Trunc(n) \in Int
BY DEF Trunc

(* Nothing moves in no time. *)
LEMMA TruncWhole == \A n \in Nat : Trunc(10000 * n) = n
BY DEF Trunc

LEMMA TrigIsInt == \A angle \in Int : Sin(angle) \in Int /\ Cos(angle) \in Int
BY DEF Sin, Cos

LEMMA TravelIsInt ==
  \A c, s, t, from \in Int : Travel(c, s, t, from) \in Int
<1> SUFFICES ASSUME NEW c \in Int, NEW s \in Int, NEW t \in Int, NEW from \in Int
             PROVE  Travel(c, s, t, from) \in Int
  OBVIOUS
<1>1. c * s \in Int
  OBVIOUS
<1>2. (c * s) * t \in Int
  BY <1>1
<1> QED
  BY <1>2, TruncIsInt DEF Travel

LEMMA TravelInNoTime ==
  \A c, s \in Int, from \in Nat : Travel(c, s, 0, from) = from
<1> SUFFICES ASSUME NEW c \in Int, NEW s \in Int, NEW from \in Nat
             PROVE  Travel(c, s, 0, from) = from
  OBVIOUS
<1>1. c * s \in Int
  OBVIOUS
<1>2. (c * s) * 0 + 10000 * from = 10000 * from
  BY <1>1
<1> QED
  BY <1>2, TruncWhole DEF Travel

LEMMA Levels ==
  /\ Heading \subseteq Int /\ Elevation \subseteq Int /\ Speed \subseteq Int
  /\ \A h \in Heading : (IF h = 0 THEN 360 ELSE h) - 45 \in Heading
  /\ \A h \in Heading : (h + 45) % 360 \in Heading
  /\ \A e \in Elevation : e # 30 => e + 10 \in Elevation
  /\ \A e \in Elevation : e # -30 => e - 10 \in Elevation
<1>1. Heading \subseteq Int /\ Elevation \subseteq Int /\ Speed \subseteq Int
  BY DEF Heading, Elevation, Speed
<1>2. \A h \in Heading : (IF h = 0 THEN 360 ELSE h) - 45 \in Heading
  BY DEF Heading
<1>3. \A h \in Heading : (h + 45) % 360 \in Heading
  BY DEF Heading
<1>4. \A e \in Elevation : e # 30 => e + 10 \in Elevation
  BY DEF Elevation
<1>5. \A e \in Elevation : e # -30 => e - 10 \in Elevation
  BY DEF Elevation
<1> QED
  BY <1>1, <1>2, <1>3, <1>4, <1>5

(* The speeds set reaches from a speed the generator makes. *)
LEMMA Speeds ==
  \A s \in Speed : /\ s < 280 => s + 14 \in Speed
                   /\ s > 42 => s - 14 \in Speed
<1> SUFFICES ASSUME NEW s \in Speed
             PROVE  /\ s < 280 => s + 14 \in Speed
                    /\ s > 42 => s - 14 \in Speed
  OBVIOUS
<1>1. PICK n \in 0..17 : s = 42 + 14 * n
  BY DEF Speed
<1>2. ASSUME s < 280 PROVE s + 14 \in Speed
  <2>1. n + 1 \in 0..17 /\ s + 14 = 42 + 14 * (n + 1)
    BY <1>1, <1>2
  <2> QED
    BY <2>1 DEF Speed
<1>3. ASSUME s > 42 PROVE s - 14 \in Speed
  <2>1. n - 1 \in 0..17 /\ s - 14 = 42 + 14 * (n - 1)
    BY <1>1, <1>3
  <2> QED
    BY <2>1 DEF Speed
<1> QED
  BY <1>2, <1>3

-----------------------------------------------------------------------------
(* Flights                                                                 *)

LEMMA AirborneIsFlightData == Airborne \subseteq FlightData
BY Levels DEF Airborne, FlightData, Status

LEMMA ZeroIsFlightData == ZeroFlight \in FlightData
<1>1. 0 \in XRange /\ 0 \in YRange
  BY DEF XRange, YRange, MAX_LEN, MAX_HEIGHT
<1> QED
  BY <1>1 DEF ZeroFlight, FlightData, Status, Heading, Elevation

LEMMA Ranges ==
  /\ XRange \subseteq Int /\ YRange \subseteq Int
  /\ \A n \in Int : n % MAX_LEN \in XRange /\ n % MAX_HEIGHT \in YRange
BY DEF XRange, YRange, MAX_LEN, MAX_HEIGHT

LEMMA FlightFields ==
  \A f \in FlightData :
    /\ f.x \in XRange /\ f.y \in YRange /\ f.z \in Nat /\ f.time \in Int
    /\ f.heading \in Heading /\ f.elevation \in Elevation /\ f.speed \in Int
    /\ f.heading \in Int /\ f.elevation \in Int /\ f.x \in Int /\ f.y \in Int
<1> SUFFICES ASSUME NEW f \in FlightData
             PROVE  /\ f.x \in XRange /\ f.y \in YRange /\ f.z \in Nat
                    /\ f.time \in Int /\ f.heading \in Heading
                    /\ f.elevation \in Elevation /\ f.speed \in Int
                    /\ f.heading \in Int /\ f.elevation \in Int
                    /\ f.x \in Int /\ f.y \in Int
  OBVIOUS
<1>1. /\ f.x \in XRange /\ f.y \in YRange /\ f.z \in Nat /\ f.time \in Int
      /\ f.heading \in Heading /\ f.elevation \in Elevation /\ f.speed \in Int
  BY DEF FlightData
<1>2. /\ f.heading \in Int /\ f.elevation \in Int /\ f.x \in Int /\ f.y \in Int
  BY <1>1, Levels, Ranges
<1> QED
  BY <1>1, <1>2

LEMMA FallenOnMap ==
  \A c : /\ \A from \in XRange : Fallen(c, from) \subseteq XRange
         /\ \A from \in YRange : Fallen(c, from) \subseteq YRange
BY ClippedAssumption DEF Fallen

LEMMA AltitudeIsInt ==
  \A f \in FlightData, t \in Int : Altitude(f, t) \in Int
<1> SUFFICES ASSUME NEW f \in FlightData, NEW t \in Int
             PROVE  Altitude(f, t) \in Int
  OBVIOUS
<1>1. /\ f.elevation \in Int /\ f.speed \in Int /\ t - f.time \in Int
      /\ f.z \in Int
  BY FlightFields
<1>2. Cos(f.elevation) \in Int
  BY <1>1, TrigIsInt
<1> QED
  BY <1>1, <1>2, TravelIsInt DEF Altitude

LEMMA MovedStaysOnMap ==
  \A f \in FlightData, t \in Int :
    ~ComesDown(f, t) =>
      /\ Moved(f, t) \in FlightData
      /\ f \in Airborne => Moved(f, t) \in Airborne
      /\ Moved(f, t).heading = f.heading
      /\ Moved(f, t).elevation = f.elevation
      /\ Moved(f, t).speed = f.speed
      /\ Moved(f, t).status = f.status
<1> SUFFICES ASSUME NEW f \in FlightData, NEW t \in Int, ~ComesDown(f, t)
             PROVE  /\ Moved(f, t) \in FlightData
                    /\ f \in Airborne => Moved(f, t) \in Airborne
                    /\ Moved(f, t).heading = f.heading
                    /\ Moved(f, t).elevation = f.elevation
                    /\ Moved(f, t).speed = f.speed
                    /\ Moved(f, t).status = f.status
  OBVIOUS
<1>1. /\ f.heading \in Int /\ f.speed \in Int /\ t - f.time \in Int
      /\ f.x \in Int /\ f.y \in Int
  <2>1. /\ f.heading \in Int /\ f.speed \in Int /\ f.time \in Int
        /\ f.x \in Int /\ f.y \in Int
    BY FlightFields
  <2>2. t - f.time \in Int
    BY <2>1
  <2> QED
    BY <2>1, <2>2
<1>2. Cos(f.heading) \in Int /\ Sin(f.heading) \in Int
  BY <1>1, TrigIsInt
<1> DEFINE tx == Travel(Cos(f.heading), f.speed, t - f.time, f.x)
           ty == Travel(Sin(f.heading), f.speed, t - f.time, f.y)
           nx == tx % MAX_LEN
           ny == ty % MAX_HEIGHT
           nz == Altitude(f, t)
<1>3. tx \in Int /\ ty \in Int
  BY <1>1, <1>2, TravelIsInt
<1>4. nx \in XRange /\ ny \in YRange
  BY <1>3, Ranges
<1>5. nz \in Nat
  BY AltitudeIsInt DEF ComesDown
<1>6. Moved(f, t) = [f EXCEPT !.z = nz, !.x = nx, !.y = ny]
  BY DEF Moved
<1> HIDE DEF nx, ny, nz
<1> QED
  BY <1>4, <1>5, <1>6 DEF FlightData, Airborne

(* What comes down is crashed or landed; what landed was descending gently, *)
(* and not in a landing zone.                                              *)
LEMMA DownIsDown ==
  \A f \in FlightData : \A g \in Down(f) :
    /\ g \in FlightData
    /\ g.status \in {"crashed", "landed"}
    /\ g.elevation = f.elevation
    /\ g.status = "landed" =>
         g.elevation = -10 /\ g.speed <= 56 /\ InDaZone(g) # 0
<1> SUFFICES ASSUME NEW f \in FlightData, NEW g \in Down(f)
             PROVE  /\ g \in FlightData
                    /\ g.status \in {"crashed", "landed"}
                    /\ g.elevation = f.elevation
                    /\ g.status = "landed" =>
                         g.elevation = -10 /\ g.speed <= 56 /\ InDaZone(g) # 0
  OBVIOUS
<1> DEFINE X == Fallen(Cos(f.heading), f.x)
           Y == Fallen(Sin(f.heading), f.y)
           H(at) == [f EXCEPT !.time = LongAgo, !.x = at[1], !.y = at[2]]
<1>1. X \subseteq XRange /\ Y \subseteq YRange
  BY FlightFields, FallenOnMap, Zenon
<1>2. PICK at \in X \X Y : g = [H(at) EXCEPT !.status = CrashedOrLanded(H(at))]
  BY DEF Down
<1>3. at[1] \in XRange /\ at[2] \in YRange
  BY <1>1, <1>2
<1> DEFINE h == H(at)
<1>4. h \in FlightData /\ h.elevation = f.elevation
  <2>1. \A x \in XRange, y \in YRange :
          LET k == [f EXCEPT !.time = LongAgo, !.x = x, !.y = y]
          IN  k \in FlightData /\ k.elevation = f.elevation
    BY LongAgoAssumption DEF FlightData
  <2> QED
    BY <1>3, <2>1, Zenon
<1> HIDE DEF h, H, X, Y
<1>5. CrashedOrLanded(h) \in {"crashed", "landed"}
  BY DEF CrashedOrLanded
<1>6. /\ g \in FlightData /\ g.status = CrashedOrLanded(h)
      /\ g.elevation = h.elevation /\ g.speed = h.speed
      /\ g.x = h.x /\ g.y = h.y
  BY <1>2, <1>4, <1>5 DEF h, FlightData, Status
<1>7. InDaZone(g) = InDaZone(h)
  BY <1>6 DEF InDaZone
<1> QED
  BY <1>4, <1>5, <1>6, <1>7 DEF CrashedOrLanded, FlightData

(* set never finds that its plane came down: it has just written the       *)
(* present into the plane's time.                                          *)
LEMMA NoTimeNoFall ==
  \A f \in FlightData, t \in Int : ~ComesDown([f EXCEPT !.time = t], t)
<1> SUFFICES ASSUME NEW f \in FlightData, NEW t \in Int
             PROVE  ~ComesDown([f EXCEPT !.time = t], t)
  OBVIOUS
<1> DEFINE g == [f EXCEPT !.time = t]
<1>1. /\ g.time = t /\ g.z = f.z /\ g.speed = f.speed
      /\ g.elevation = f.elevation
      /\ f.z \in Nat /\ f.speed \in Int /\ f.elevation \in Int
  BY FlightFields DEF FlightData
<1> HIDE DEF g
<1>2. Altitude(g, t) = Travel(Cos(f.elevation), f.speed, 0, f.z)
  BY <1>1 DEF Altitude
<1>c. Cos(f.elevation) \in Int
  BY <1>1, TrigIsInt
<1>3. Altitude(g, t) = f.z
  BY <1>1, <1>2, <1>c, TravelInNoTime
<1>4. ~ComesDown(g, t)
  BY <1>1, <1>3 DEF ComesDown
<1> QED
  BY <1>4 DEF g

(* So what it stores is a plane that flies, within its envelope. *)
LEMMA CommandedFlies ==
  \A f \in Airborne, t \in Int, cmd \in Command :
    \A g \in Commanded(cmd, f, t) : g \in Airborne
<1> SUFFICES ASSUME NEW f \in Airborne, NEW t \in Int, NEW cmd \in Command,
                    NEW g \in Commanded(cmd, f, t)
             PROVE  g \in Airborne
  OBVIOUS
<1> DEFINE f1 == [f EXCEPT !.time = t]
           f2 == Moved(f1, t)
<1>1. f1 \in Airborne /\ f1 \in FlightData /\ f \in FlightData
  BY AirborneIsFlightData DEF Airborne
<1>2. ~ComesDown(f1, t)
  BY <1>1, NoTimeNoFall
<1>3. /\ f2 \in Airborne
      /\ f2.speed = f1.speed /\ f2.elevation = f1.elevation
  BY <1>1, <1>2, MovedStaysOnMap
<1>4. ~Refused(cmd, f1) /\ g = Steer(cmd, f2)
  BY <1>2 DEF Commanded
<1> HIDE DEF f1, f2
<1>s. f2.speed \in Speed /\ f2.speed \in Int
  BY <1>3, Levels DEF Airborne
<1>5. CASE cmd = "speed_up"
  <2>1. f2.speed < 280
    BY <1>3, <1>4, <1>5, <1>s DEF Refused
  <2>2. f2.speed + 14 \in Speed
    BY <1>s, <2>1, Speeds
  <2> QED
    BY <1>3, <1>4, <1>5, <2>2 DEF Steer, Airborne
<1>6. CASE cmd = "speed_down"
  <2>1. f2.speed > 42
    BY <1>3, <1>4, <1>6, <1>s DEF Refused
  <2>2. f2.speed - 14 \in Speed
    BY <1>s, <2>1, Speeds
  <2> QED
    BY <1>3, <1>4, <1>6, <2>2 DEF Steer, Airborne
<1>7. CASE cmd = "climb"
  <2>1. f2.elevation + 10 \in Elevation
    BY <1>3, <1>4, <1>7, Levels DEF Refused, Airborne
  <2> QED
    BY <1>3, <1>4, <1>7, <2>1 DEF Steer, Airborne
<1>8. CASE cmd = "descend"
  <2>1. f2.elevation - 10 \in Elevation
    BY <1>3, <1>4, <1>8, Levels DEF Refused, Airborne
  <2> QED
    BY <1>3, <1>4, <1>8, <2>1 DEF Steer, Airborne
<1>9. CASE cmd = "turn_right"
  <2>1. (IF f2.heading = 0 THEN 360 ELSE f2.heading) - 45 \in Heading
    BY <1>3, Levels DEF Airborne
  <2> QED
    BY <1>3, <1>4, <1>9, <2>1 DEF Steer, Airborne
<1>10. CASE cmd = "turn_left"
  <2>1. (f2.heading + 45) % 360 \in Heading
    BY <1>3, Levels DEF Airborne
  <2> QED
    BY <1>3, <1>4, <1>10, <2>1 DEF Steer, Airborne
<1> QED
  BY <1>5, <1>6, <1>7, <1>8, <1>9, <1>10 DEF Command

(* A command to an empty slot stores a record that is no longer empty, but *)
(* passes for a landed plane.                                              *)
LEMMA CommandedZero ==
  \A t \in Int, cmd \in Command :
    \A g \in Commanded(cmd, ZeroFlight, t) :
      g \in FlightData /\ g.status = "landed"
<1> SUFFICES ASSUME NEW t \in Int, NEW cmd \in Command,
                    NEW g \in Commanded(cmd, ZeroFlight, t)
             PROVE  g \in FlightData /\ g.status = "landed"
  OBVIOUS
<1> DEFINE f1 == [ZeroFlight EXCEPT !.time = t]
           f2 == Moved(f1, t)
<1>1. /\ f1 \in FlightData /\ f1.speed = 0 /\ f1.elevation = 0
      /\ f1.heading = 0 /\ f1.status = "landed"
  BY ZeroIsFlightData DEF ZeroFlight, FlightData
<1>2. ~ComesDown(f1, t)
  BY ZeroIsFlightData, NoTimeNoFall
<1>3. /\ f2 \in FlightData /\ f2.speed = 0 /\ f2.elevation = 0
      /\ f2.heading = 0 /\ f2.status = "landed"
  BY <1>1, <1>2, MovedStaysOnMap
<1>4. g = Steer(cmd, f2)
  BY <1>2 DEF Commanded
<1> HIDE DEF f1, f2
<1>5. 10 \in Elevation /\ -10 \in Elevation /\ 315 \in Heading /\ 45 \in Heading
  BY DEF Elevation, Heading
<1> QED
  BY <1>3, <1>4, <1>5 DEF Steer, FlightData, Command

-----------------------------------------------------------------------------
(* The inductive invariant: about the table ...                            *)

(* A record that the game may store or be given. *)
Sound(d) ==
  /\ d \in Tbl!Datum
  /\ d.down <=> d.val.status # "flying"
  /\ ~d.down => d.val \in Airborne

Known(k) == \E i \in 1..Len(rows) : rows[i].key = k

RowsSound ==
  \A i \in 1..Len(rows) : /\ Sound(rows[i].data)
                           /\ rows[i].data.key \in {rows[i].key, EmptyKey}

(* The zeroed record is only ever commanded once there is a first row. *)
ReqSound ==
  \A p \in Proc : req[p] # None =>
    /\ Sound(req[p])
    /\ req[p].key = EmptyKey => rows # << >>

GotSound ==
  \A p \in Proc : got[p] # None =>
    /\ Sound(got[p])
    /\ got[p].key = EmptyKey \/ Known(got[p].key)

BusyScans == \A p \in Proc : busy[p] => pos[p] # Tbl!NoScan

TableOK == Tbl!TypeOK /\ RowsSound /\ ReqSound /\ GotSound /\ BusyScans

(* ... and about the players. *)
ViewSound ==
  \A p \in Proc : \A i \in 1..Len(view[p]) :
    /\ Sound(view[p][i])
    /\ view[p][i].val.status = "flying"
    /\ Known(view[p][i].key)

CmdKnown ==
  \A p \in Proc : pc[p] = "store_cmd" =>
    (req[p].key = EmptyKey /\ rows # << >>) \/ Known(req[p].key)

GInv == TypeOK /\ TableOK /\ ViewSound /\ CmdKnown

-----------------------------------------------------------------------------
(* Records                                                                 *)

LEMMA SoundFields ==
  \A d : Sound(d) =>
    /\ d.key \in Key \cup {EmptyKey} /\ d.val \in FlightData /\ d # None
    /\ d.val.status = "flying" => d.key \in Key /\ d.val \in Airborne
BY IdAssumption DEF Sound, Tbl!Datum

LEMMA PlaneSound ==
  \A k \in Key \cup {EmptyKey}, f \in FlightData :
    /\ f.status = "flying" => k # EmptyKey /\ f \in Airborne
    => Sound(Plane(k, f)) /\ Plane(k, f).key = k
<1> SUFFICES ASSUME NEW k \in Key \cup {EmptyKey}, NEW f \in FlightData,
                    f.status = "flying" => k # EmptyKey /\ f \in Airborne
             PROVE  Sound(Plane(k, f)) /\ Plane(k, f).key = k
  OBVIOUS
<1>1. CASE f.status = "flying"
  <2>1. Plane(k, f) = [key |-> k, val |-> f, down |-> FALSE]
    BY <1>1 DEF Plane
  <2> QED
    BY <1>1, <2>1 DEF Sound, Tbl!Datum
<1>2. CASE f.status # "flying"
  <2>1. Plane(k, f) = [key |-> k, val |-> f, down |-> TRUE]
    BY <1>2 DEF Plane
  <2> QED
    BY <1>2, <2>1 DEF Sound, Tbl!Datum
<1> QED
  BY <1>1, <1>2

LEMMA NewPlaneSound ==
  ASSUME clock \in 0..MaxTime
  PROVE  Sound(NewPlane) /\ NewPlane.key # EmptyKey
<1> DEFINE f == [Roll[clock].flight EXCEPT !.time = clock]
<1>1. Roll[clock].id \in Key /\ Roll[clock].flight \in Airborne
  BY RollAssumption
<1>2. clock \in Int
  BY GameBoundAssumption
<1>3. f \in Airborne /\ f.status = "flying"
  BY <1>1, <1>2 DEF Airborne
<1>4. f \in FlightData
  BY <1>3, AirborneIsFlightData
<1>5. Roll[clock].id # EmptyKey
  BY <1>1, IdAssumption
<1> HIDE DEF f
<1>6. Sound(Plane(Roll[clock].id, f)) /\ Plane(Roll[clock].id, f).key = Roll[clock].id
  BY <1>1, <1>3, <1>4, <1>5, PlaneSound
<1> QED
  BY <1>5, <1>6 DEF NewPlane, f

-----------------------------------------------------------------------------
(* What Table's actions preserve                                           *)

(* Rows stay, with their keys. *)
Grows == /\ \A k : Known(k) => Known(k)'
         /\ rows # << >> => rows' # << >>

LEMMA SameRowsGrow == rows' = rows => Grows
BY DEF Grows, Known

LEMMA TableSame == ASSUME TableOK, UNCHANGED table PROVE TableOK' /\ Grows
BY DEF TableOK, Tbl!TypeOK, Tbl!NoScan, RowsSound, ReqSound, GotSound, Sound,
       BusyScans, Known, Grows, table

LEMMA RequestKeeps ==
  ASSUME TableOK, NEW p \in Proc, NEW d, Sound(d), Tbl!Request(p, d)
  PROVE  TableOK' /\ Grows
<1>1. rows' = rows /\ pos' = pos /\ got' = got /\ busy' = busy
  BY DEF Tbl!Request
<1>2. req' = [req EXCEPT ![p] = d] /\ (d.key = EmptyKey => rows # << >>)
  BY DEF Tbl!Request
<1>3. d \in Tbl!Datum
  BY DEF Sound
<1>4. Tbl!TypeOK'
  BY <1>1, <1>2, <1>3 DEF TableOK, Tbl!TypeOK
<1>5. RowsSound' /\ GotSound' /\ BusyScans' /\ Grows
  BY <1>1 DEF TableOK, RowsSound, GotSound, Sound, BusyScans, Tbl!NoScan, Known, Grows
<1>6. ReqSound'
  <2> SUFFICES ASSUME NEW q \in Proc, req'[q] # None
               PROVE  Sound(req'[q]) /\ (req'[q].key = EmptyKey => rows' # << >>)
    BY DEF ReqSound, Sound
  <2>1. CASE q = p
    BY <1>1, <1>2, <2>1 DEF TableOK, Tbl!TypeOK
  <2>2. CASE q # p
    BY <1>1, <1>2, <2>2 DEF TableOK, ReqSound, Tbl!TypeOK
  <2> QED
    BY <2>1, <2>2
<1> QED
  BY <1>4, <1>5, <1>6 DEF TableOK

LEMMA WriteBackKeeps ==
  ASSUME TableOK, NEW p \in Proc, NEW d, Sound(d), Tbl!WriteBack(p, d)
  PROVE  TableOK' /\ Grows
<1>1. rows' = rows /\ pos' = pos /\ busy' = busy
  BY DEF Tbl!WriteBack
<1>2. req' = [req EXCEPT ![p] = d] /\ got' = [got EXCEPT ![p] = None]
  BY DEF Tbl!WriteBack
<1>3. d \in Tbl!Datum /\ d.key # EmptyKey
  <2>1. got[p] # None /\ ~got[p].down /\ d.key = got[p].key
    BY DEF Tbl!WriteBack
  <2>2. got[p] \in Tbl!Datum
    BY <2>1 DEF TableOK, GotSound, Sound
  <2>3. got[p].key # EmptyKey
    BY <2>1, <2>2 DEF Tbl!Datum
  <2> QED
    BY <2>1, <2>3 DEF Sound
<1>4. Tbl!TypeOK'
  BY <1>1, <1>2, <1>3 DEF TableOK, Tbl!TypeOK
<1>5. RowsSound' /\ BusyScans' /\ Grows
  BY <1>1 DEF TableOK, RowsSound, Sound, BusyScans, Tbl!NoScan, Known, Grows
<1>6. ReqSound'
  <2> SUFFICES ASSUME NEW q \in Proc, req'[q] # None
               PROVE  Sound(req'[q]) /\ (req'[q].key = EmptyKey => rows' # << >>)
    BY DEF ReqSound, Sound
  <2>1. CASE q = p
    BY <1>1, <1>2, <1>3, <2>1 DEF TableOK, Tbl!TypeOK
  <2>2. CASE q # p
    BY <1>1, <1>2, <2>2 DEF TableOK, ReqSound, Tbl!TypeOK
  <2> QED
    BY <2>1, <2>2
<1>7. GotSound'
  <2> SUFFICES ASSUME NEW q \in Proc, got'[q] # None
               PROVE  (Sound(got[q]) /\ (got[q].key = EmptyKey \/ Known(got[q].key)))'
    BY DEF GotSound
  <2>1. q # p /\ got'[q] = got[q]
    BY <1>2 DEF TableOK, Tbl!TypeOK
  <2>2. Sound(got[q]) /\ (got[q].key = EmptyKey \/ Known(got[q].key))
    BY <2>1 DEF TableOK, GotSound
  <2> QED
    BY <1>1, <2>1, <2>2 DEF Known, Sound
<1> QED
  BY <1>4, <1>5, <1>6, <1>7 DEF TableOK

(* Steps of a scan that store nothing. *)
LEMMA ScanKeeps ==
  ASSUME TableOK, NEW p \in Proc,
         \/ Tbl!StartScan(p) \/ Tbl!Attach(p) \/ Tbl!Detach(p) \/ Tbl!EndScan(p)
  PROVE  TableOK' /\ Grows
<1> USE DEF Tbl!NoScan
<1>1. rows' = rows /\ req' = req /\ got' = got
  BY DEF Tbl!StartScan, Tbl!Attach, Tbl!Detach, Tbl!EndScan
<1>2. /\ pos \in [Proc -> Nat \cup {Tbl!NoScan}] /\ busy \in [Proc -> BOOLEAN]
      /\ BusyScans
  BY DEF TableOK, Tbl!TypeOK
<1>3. /\ pos' \in [Proc -> Nat \cup {Tbl!NoScan}] /\ busy' \in [Proc -> BOOLEAN]
      /\ BusyScans'
  <2>1. CASE Tbl!StartScan(p)
    BY <1>2, <2>1 DEF Tbl!StartScan, BusyScans
  <2>2. CASE Tbl!Attach(p)
    BY <1>2, <2>2 DEF Tbl!Attach, BusyScans
  <2>3. CASE Tbl!Detach(p)
    BY <1>2, <2>3 DEF Tbl!Detach, BusyScans
  <2>4. CASE Tbl!EndScan(p)
    BY <1>2, <2>4 DEF Tbl!EndScan, BusyScans
  <2> QED
    BY <2>1, <2>2, <2>3, <2>4
<1>4. Tbl!TypeOK'
  BY <1>1, <1>3 DEF TableOK, Tbl!TypeOK
<1>5. RowsSound' /\ ReqSound' /\ GotSound' /\ Grows
  BY <1>1 DEF TableOK, RowsSound, ReqSound, GotSound, Sound, Known, Grows
<1> QED
  BY <1>3, <1>4, <1>5 DEF TableOK

LEMMA DeliverKeeps ==
  ASSUME TableOK, NEW p \in Proc, Tbl!Deliver(p) \/ Tbl!Consume(p)
  PROVE  TableOK' /\ Grows
<1>1. rows' = rows /\ req' = req /\ busy' = busy
  BY DEF Tbl!Deliver, Tbl!Consume
<1>2. PICK g : /\ got' = [got EXCEPT ![p] = g]
               /\ g # None => /\ Sound(g)
                              /\ g.key = EmptyKey \/ Known(g.key)
  <2>1. CASE Tbl!Consume(p)
    BY <2>1 DEF Tbl!Consume
  <2>2. CASE Tbl!Deliver(p)
    <3> DEFINE i == pos[p] + 1
    <3>1. got' = [got EXCEPT ![p] = rows[i].data] /\ pos[p] < Len(rows)
      BY <2>2 DEF Tbl!Deliver
    <3>2. pos[p] \in Nat \cup {Tbl!NoScan} /\ Len(rows) \in Nat
      BY DEF TableOK, Tbl!TypeOK
    <3>3. ASSUME pos[p] \in Nat
          PROVE  /\ Sound(rows[i].data)
                 /\ rows[i].data.key = EmptyKey \/ Known(rows[i].data.key)
      <4>1. i \in 1..Len(rows)
        BY <3>1, <3>2, <3>3
      <4>2. /\ Sound(rows[i].data)
            /\ rows[i].data.key \in {rows[i].key, EmptyKey}
        BY <4>1 DEF TableOK, RowsSound
      <4> HIDE DEF i
      <4> QED
        BY <4>1, <4>2 DEF Known
    <3>4. pos[p] \in Nat
      BY <2>2, <3>2 DEF Tbl!Deliver, TableOK, BusyScans
    <3> QED
      BY <3>1, <3>3, <3>4
  <2> QED
    BY <2>1, <2>2
<1>3. pos' \in [Proc -> Nat \cup {Tbl!NoScan}] /\ BusyScans'
  <2>1. CASE Tbl!Consume(p)
    BY <2>1 DEF Tbl!Consume, TableOK, Tbl!TypeOK, BusyScans, Tbl!NoScan
  <2>2. CASE Tbl!Deliver(p)
    <3>1. busy[p] /\ pos' = [pos EXCEPT ![p] = @ + 1]
      BY <2>2 DEF Tbl!Deliver
    <3>2. pos[p] \in Nat /\ pos[p] + 1 \in Nat
      BY <3>1 DEF TableOK, Tbl!TypeOK, BusyScans, Tbl!NoScan
    <3> QED
      BY <1>1, <3>1, <3>2 DEF TableOK, Tbl!TypeOK, BusyScans, Tbl!NoScan
  <2> QED
    BY <2>1, <2>2
<1>4. g \in Tbl!Datum \cup {None}
  BY <1>2 DEF Sound
<1>5. Tbl!TypeOK'
  BY <1>1, <1>2, <1>3, <1>4 DEF TableOK, Tbl!TypeOK
<1>6. RowsSound' /\ ReqSound' /\ Grows
  BY <1>1 DEF TableOK, RowsSound, ReqSound, Sound, Known, Grows
<1>7. GotSound'
  <2> SUFFICES ASSUME NEW q \in Proc, got'[q] # None
               PROVE  (Sound(got[q]) /\ (got[q].key = EmptyKey \/ Known(got[q].key)))'
    BY DEF GotSound
  <2>1. Sound(got'[q]) /\ (got'[q].key = EmptyKey \/ Known(got'[q].key))
    BY <1>2 DEF TableOK, GotSound, Tbl!TypeOK
  <2> QED
    BY <1>1, <2>1 DEF Known
<1> QED
  BY <1>3, <1>5, <1>6, <1>7 DEF TableOK

(* sto_set takes effect: the row keeps its key, and a new row has one. *)
LEMMA StoredKeeps ==
  ASSUME TableOK, NEW p \in Proc, Stored(p)
  PROVE  TableOK' /\ Grows
<1> DEFINE d == req[p]
<1>1. /\ pos' = pos /\ got' = got /\ busy' = busy
      /\ req' = [req EXCEPT ![p] = None]
  BY DEF Stored, Tbl!Overwrite, Tbl!Insert
<1>2. req[p] # None /\ Sound(d) /\ (d.key = EmptyKey => rows # << >>)
  BY DEF Stored, Tbl!Overwrite, Tbl!Insert, TableOK, ReqSound
<1>3. /\ d \in Tbl!Datum /\ rows \in Seq([key : Key, data : Tbl!Datum])
      /\ RowsSound
  BY <1>2 DEF Sound, TableOK, Tbl!TypeOK
<1> HIDE DEF d
<1>4. rows' \in Seq([key : Key, data : Tbl!Datum]) /\ RowsSound' /\ Grows
  <2>1. CASE Tbl!Overwrite(p)
    <3>1. PICK i \in 1..Len(rows) : /\ Tbl!Matches(rows[i].key, d.key)
                                    /\ rows' = [rows EXCEPT ![i].data = d]
      BY <2>1 DEF Tbl!Overwrite, d
    <3> DEFINE S == [key : Key, data : Tbl!Datum]
    <3>2. rows[i] \in [key : Key, data : Tbl!Datum]
      <4>1. rows \in Seq(S)
        BY <1>3
      <4> HIDE DEF S
      <4>2. rows[i] \in S
        BY <3>1, <4>1
      <4> QED
        BY <4>2 DEF S
    <3>3. d.key \in {rows[i].key, EmptyKey}
      BY <3>1 DEF Tbl!Matches
    <3>4. /\ rows' \in Seq([key : Key, data : Tbl!Datum]) /\ Len(rows') = Len(rows)
          /\ rows'[i] = [rows[i] EXCEPT !.data = d]
          /\ \A j \in 1..Len(rows) : j # i => rows'[j] = rows[j]
      BY <1>3, <3>1, <3>2, SMTT(30)
    <3>5. rows'[i].data = d /\ rows'[i].key = rows[i].key
      BY <3>2, <3>4
    <3>6. RowsSound'
      <4> SUFFICES ASSUME NEW j \in 1..Len(rows')
                   PROVE  /\ Sound(rows'[j].data)
                          /\ rows'[j].data.key \in {rows'[j].key, EmptyKey}
        BY DEF RowsSound, Sound
      <4>1. CASE j = i
        BY <1>2, <3>3, <3>5, <4>1
      <4>2. CASE j # i
        BY <1>3, <3>4, <4>2 DEF RowsSound
      <4> QED
        BY <4>1, <4>2
    <3>7. Grows
      BY <1>3, <3>1, <3>4, <3>5 DEF Grows, Known
    <3> QED
      BY <3>4, <3>6, <3>7
  <2>2. CASE Tbl!Insert(p)
    <3> DEFINE r == [key |-> d.key, data |-> d]
    <3>1. rows' = Append(rows, r)
      BY <2>2 DEF Tbl!Insert, d
    <3>2. d.key # EmptyKey
      <4>1. \A i \in 1..Len(rows) : ~Tbl!Matches(rows[i].key, d.key)
        BY <2>2 DEF Tbl!Insert, d
      <4>2. rows # << >> => 1 \in 1..Len(rows)
        BY <1>3
      <4> QED
        BY <1>2, <4>1, <4>2 DEF Tbl!Matches
    <3>3. r \in [key : Key, data : Tbl!Datum] /\ r.key = d.key /\ r.data = d
      BY <1>3, <3>2 DEF Tbl!Datum
    <3> HIDE DEF r
    <3>4. /\ rows' \in Seq([key : Key, data : Tbl!Datum]) /\ Len(rows') = Len(rows) + 1
          /\ rows'[Len(rows) + 1] = r
          /\ \A j \in 1..Len(rows) : rows'[j] = rows[j]
      BY <1>3, <3>1, <3>3
    <3>5. RowsSound'
      BY <1>2, <1>3, <3>3, <3>4 DEF RowsSound, Sound
    <3>6. Grows
      BY <1>3, <3>4 DEF Grows, Known
    <3> QED
      BY <3>4, <3>5, <3>6
  <2> QED
    BY <2>1, <2>2 DEF Stored
<1>5. Tbl!TypeOK'
  BY <1>1, <1>4 DEF TableOK, Tbl!TypeOK
<1>6. ReqSound'
  <2> SUFFICES ASSUME NEW q \in Proc, req'[q] # None
               PROVE  Sound(req'[q]) /\ (req'[q].key = EmptyKey => rows' # << >>)
    BY DEF ReqSound, Sound
  <2>1. q # p /\ req'[q] = req[q]
    BY <1>1 DEF TableOK, Tbl!TypeOK
  <2> QED
    BY <1>4, <2>1 DEF TableOK, ReqSound, Grows
<1>7. GotSound' /\ BusyScans'
  BY <1>1, <1>4 DEF TableOK, GotSound, BusyScans, Tbl!NoScan, Sound, Grows
<1> QED
  BY <1>4, <1>5, <1>6, <1>7 DEF TableOK

-----------------------------------------------------------------------------
(* What the players' steps preserve                                        *)

LEMMA ViewSame ==
  ASSUME ViewSound, Grows, view' = view
  PROVE  ViewSound'
BY DEF ViewSound, Grows, Sound

(* Another player's command is still a command to a plane of the table. *)
LEMMA CmdElsewhere ==
  ASSUME CmdKnown, Grows, NEW p \in Proc,
         \A q \in Proc \ {p} : pc'[q] = pc[q] /\ req'[q] = req[q],
         pc'[p] # "store_cmd"
  PROVE  CmdKnown'
<1> SUFFICES ASSUME NEW q \in Proc, pc'[q] = "store_cmd"
             PROVE  ((req[q].key = EmptyKey /\ rows # << >>) \/ Known(req[q].key))'
  BY DEF CmdKnown
<1>1. q # p /\ req'[q] = req[q] /\ pc[q] = "store_cmd"
  OBVIOUS
<1> QED
  BY <1>1, ZenonT(30) DEF CmdKnown, Grows, Known

(* A table action of p leaves the other players' requests alone. *)
LEMMA OthersRequests ==
  ASSUME TableOK, NEW p \in Proc, NEW d,
         \/ Tbl!Request(p, d) \/ Tbl!WriteBack(p, d) \/ Tbl!StartScan(p)
         \/ Tbl!Attach(p) \/ Tbl!Detach(p) \/ Tbl!EndScan(p) \/ Tbl!Deliver(p)
         \/ Tbl!Consume(p) \/ Stored(p) \/ UNCHANGED table
  PROVE  \A q \in Proc \ {p} : req'[q] = req[q]
<1>1. req' = req \/ \E v : req' = [req EXCEPT ![p] = v]
  BY DEF Tbl!Request, Tbl!WriteBack, Tbl!StartScan, Tbl!Attach, Tbl!Detach,
         Tbl!EndScan, Tbl!Deliver, Tbl!Consume, Stored, Tbl!Overwrite,
         Tbl!Insert, table
<1> QED
  BY <1>1 DEF TableOK, Tbl!TypeOK

(* What a command to a slot of the list may store. *)
LEMMA CommandSound ==
  ASSUME GInv, NEW p \in Proc, NEW i \in Selectable(p), NEW cmd \in Commands,
         NEW f \in Commanded(cmd, Slot(p, i).val, clock)
  PROVE  /\ Sound(Plane(Slot(p, i).key, f))
         /\ Plane(Slot(p, i).key, f).key = EmptyKey \/ Known(Plane(Slot(p, i).key, f).key)
<1> DEFINE s == Slot(p, i)
<1>1. clock \in Int /\ cmd \in Command /\ view[p] \in Seq(Tbl!Datum)
  BY PlayAssumption, GameBoundAssumption DEF GInv, TypeOK
<1>2. i \in Nat \ {0}
  <2>1. \A a, b \in Nat : a * b \in Nat
    OBVIOUS
  <2>2. PICK page \in Nat, digit \in 0..9 : i = page * PLANES_PER_PAGE + digit + 1
    BY <1>1 DEF Selectable
  <2>3. page * PLANES_PER_PAGE \in Nat
    BY <2>1, ListAssumption
  <2> QED
    BY <2>2, <2>3
<1>3. CASE i <= Len(view[p])
  <2>1. s = view[p][i] /\ i \in 1..Len(view[p])
    BY <1>1, <1>2, <1>3 DEF Slot
  <2>2. Sound(s) /\ s.val.status = "flying" /\ Known(s.key)
    BY <2>1 DEF GInv, ViewSound
  <2>3. s.key \in Key /\ s.val \in Airborne
    BY <2>2, SoundFields
  <2> HIDE DEF s
  <2>4. f \in Airborne
    BY <1>1, <2>3, CommandedFlies DEF s
  <2>5. f \in FlightData /\ s.key # EmptyKey
    BY <2>3, <2>4, AirborneIsFlightData, IdAssumption
  <2>6. Sound(Plane(s.key, f)) /\ Plane(s.key, f).key = s.key
    BY <2>3, <2>4, <2>5, PlaneSound
  <2> QED
    BY <2>2, <2>6 DEF s
<1>4. CASE ~(i <= Len(view[p]))
  <2>1. s.key = EmptyKey /\ s.val = ZeroFlight
    BY <1>4 DEF Slot, ZeroPlane, Plane
  <2> HIDE DEF s
  <2>2. f \in FlightData /\ f.status = "landed"
    BY <1>1, <2>1, CommandedZero DEF s
  <2>3. Sound(Plane(s.key, f)) /\ Plane(s.key, f).key = s.key
    BY <2>1, <2>2, PlaneSound
  <2> QED
    BY <2>1, <2>3 DEF s
<1> QED
  BY <1>3, <1>4

LEMMA CreateKeeps ==
  ASSUME GInv, NEW p \in Proc, CreatePlane(p), UNCHANGED view
  PROVE  /\ TableOK' /\ ViewSound' /\ CmdKnown'
         /\ pc' \in [Proc -> PC]
<1>1. PICK l \in {"input", "store_new"} : pc' = [pc EXCEPT ![p] = l]
  BY DEF CreatePlane, Goto
<1>2. TableOK /\ clock \in 0..MaxTime /\ pc \in [Proc -> PC]
  BY DEF GInv, TypeOK
<1>3. UNCHANGED table \/ Tbl!Request(p, NewPlane)
  BY DEF CreatePlane
<1>4. TableOK' /\ Grows
  <2>1. CASE UNCHANGED table
    BY <1>2, <2>1, TableSame
  <2>2. CASE Tbl!Request(p, NewPlane)
    BY <1>2, <2>2, NewPlaneSound, RequestKeeps
  <2> QED
    BY <1>3, <2>1, <2>2
<1>5. \A q \in Proc \ {p} : req'[q] = req[q]
  BY <1>2, <1>3, OthersRequests
<1>6. pc' \in [Proc -> PC] /\ pc'[p] # "store_cmd"
  BY <1>1, <1>2 DEF PC
<1>7. \A q \in Proc \ {p} : pc'[q] = pc[q] /\ req'[q] = req[q]
  BY <1>1, <1>2, <1>5
<1>8. CmdKnown'
  BY <1>4, <1>6, <1>7, CmdElsewhere DEF GInv
<1>9. ViewSound'
  BY <1>4, ViewSame DEF GInv
<1> QED
  BY <1>4, <1>6, <1>8, <1>9

-----------------------------------------------------------------------------
(* The induction                                                           *)

LEMMA Appended ==
  ASSUME NEW S, NEW s \in Seq(S), NEW m \in S, NEW t, t = Append(s, m)
  PROVE  /\ t \in Seq(S)
         /\ \A i \in 1..Len(t) : t[i] = m \/ (i \in 1..Len(s) /\ t[i] = s[i])
<1>1. t \in Seq(S) /\ Len(t) = Len(s) + 1 /\ Len(s) \in Nat
  OBVIOUS
<1>2. t[Len(s) + 1] = m /\ \A i \in 1..Len(s) : t[i] = s[i]
  OBVIOUS
<1>3. ASSUME NEW i \in 1..Len(t)
      PROVE  t[i] = m \/ (i \in 1..Len(s) /\ t[i] = s[i])
  <2>1. i = Len(s) + 1 \/ i \in 1..Len(s)
    BY <1>1, <1>3
  <2> QED
    BY <1>2, <2>1
<1> QED
  BY <1>1, <1>3

LEMMA Replaced ==
  ASSUME NEW S, NEW s \in Seq(S), NEW m \in S, NEW n \in 1..Len(s),
         NEW t, t = [s EXCEPT ![n] = m]
  PROVE  /\ t \in Seq(S)
         /\ \A i \in 1..Len(t) : t[i] = m \/ (i \in 1..Len(s) /\ t[i] = s[i])
<1>1. t \in Seq(S) /\ Len(t) = Len(s)
  OBVIOUS
<1>2. \A i \in 1..Len(s) : t[i] = IF i = n THEN m ELSE s[i]
  OBVIOUS
<1> QED
  BY <1>1, <1>2

(* The types of what is not Table's. *)
LocalOK ==
  /\ clock \in 0..MaxTime
  /\ pc \in [Proc -> PC]
  /\ now \in [Proc -> 0..MaxTime]
  /\ count \in [Proc -> 0..MAX_PLANES]
  /\ view \in [Proc -> Seq(Tbl!Datum)]
  /\ planes_count \in [Proc -> 0..MAX_PLANES]
  /\ crashed \in [Proc -> Nat]
  /\ landed \in [Proc -> Nat]
  /\ tick_time \in [Proc -> 0..MaxTime]
  /\ given \in 0..MaxCommands
  /\ quits \in 0..MaxQuits

LEMMA Parts ==
  /\ LocalOK /\ TableOK /\ ViewSound /\ CmdKnown => GInv
  /\ LocalOK' /\ TableOK' /\ ViewSound' /\ CmdKnown' => GInv'
<1>1. LocalOK /\ TableOK => TypeOK
  BY DEF TypeOK, LocalOK, TableOK
<1>2. LocalOK' /\ TableOK' => TypeOK'
  BY DEF TypeOK, LocalOK, TableOK
<1> QED
  BY <1>1, <1>2 DEF GInv

(* A step that only moves p's program counter, and the table. *)
LEMMA PlainStep ==
  ASSUME GInv, NEW p \in Proc, TableOK', Grows,
         \A q \in Proc \ {p} : req'[q] = req[q],
         NEW l \in PC \ {"store_cmd"}, pc' = [pc EXCEPT ![p] = l],
         UNCHANGED view
  PROVE  ViewSound' /\ CmdKnown' /\ pc' \in [Proc -> PC]
<1>1. pc \in [Proc -> PC]
  BY DEF GInv, TypeOK
<1>2. ViewSound'
  BY ViewSame DEF GInv
<1>3. pc' \in [Proc -> PC] /\ pc'[p] # "store_cmd"
  BY <1>1
<1>4. \A q \in Proc \ {p} : pc'[q] = pc[q] /\ req'[q] = req[q]
  BY <1>1
<1>5. CmdKnown'
  BY <1>3, <1>4, CmdElsewhere DEF GInv
<1> QED
  BY <1>2, <1>3, <1>5

(* A step of p's scan. *)
LEMMA ScanStep ==
  ASSUME GInv, NEW p \in Proc, TableOK', Grows, UNCHANGED <<req, pc>>,
         pc[p] = "scan"
  PROVE  CmdKnown'
<1>1. \A q \in Proc \ {p} : pc'[q] = pc[q] /\ req'[q] = req[q]
  OBVIOUS
<1> QED
  BY <1>1, CmdElsewhere DEF GInv

LEMMA InitGInv == Init => GInv
<1> SUFFICES ASSUME Init PROVE GInv
  OBVIOUS
<1>1. LocalOK
  BY ListAssumption, GameBoundAssumption DEF Init, LocalOK, PC
<1>2. TableOK
  BY DEF Init, Tbl!Init, TableOK, Tbl!TypeOK, RowsSound, ReqSound, GotSound, BusyScans
<1>3. ViewSound /\ CmdKnown
  BY DEF Init, ViewSound, CmdKnown
<1> QED
  BY <1>1, <1>2, <1>3, Parts

LEMMA StartStep ==
  ASSUME GInv, NEW p \in Proc, Start(p) \/ TickPlane(p)
  PROVE  GInv'
<1>1. CreatePlane(p) /\ UNCHANGED view
  BY DEF Start, TickPlane
<1>2. TableOK' /\ ViewSound' /\ CmdKnown' /\ pc' \in [Proc -> PC]
  BY <1>1, CreateKeeps
<1>3. LocalOK'
  BY <1>2 DEF GInv, TypeOK, LocalOK, Start, TickPlane
<1> QED
  BY <1>2, <1>3, Parts

LEMMA StoreStep ==
  ASSUME GInv, NEW p \in Proc, StoreNew(p) \/ StoreCmd(p) \/ StoreDown(p)
  PROVE  GInv'
<1>1. PICK l \in {"input", "update", "close"} : pc' = [pc EXCEPT ![p] = l]
  BY DEF StoreNew, StoreCmd, StoreDown, Goto
<1>2. Stored(p) /\ UNCHANGED view
  BY DEF StoreNew, StoreCmd, StoreDown, Stored
<1>3. TableOK' /\ Grows
  BY <1>2, StoredKeeps DEF GInv
<1>4. \A q \in Proc \ {p} : req'[q] = req[q]
  BY <1>2, OthersRequests DEF GInv
<1>5. l \in PC \ {"store_cmd"}
  BY DEF PC
<1>6. ViewSound' /\ CmdKnown' /\ pc' \in [Proc -> PC]
  BY <1>1, <1>2, <1>3, <1>4, <1>5, PlainStep
<1>7. LocalOK'
  BY <1>6 DEF GInv, TypeOK, LocalOK, StoreNew, StoreCmd, StoreDown
<1> QED
  BY <1>3, <1>6, <1>7, Parts

LEMMA InputStep ==
  ASSUME GInv, NEW p \in Proc, Input(p)
  PROVE  GInv'
<1>1. PICK i \in Selectable(p), cmd \in Commands :
        LET plane == Slot(p, i)
        IN  \/ /\ Commanded(cmd, plane.val, clock) = {}
               /\ Goto(p, "update")
               /\ UNCHANGED table
            \/ \E f \in Commanded(cmd, plane.val, clock) :
                 /\ Tbl!Request(p, Plane(plane.key, f))
                 /\ Goto(p, "store_cmd")
  BY DEF Input
<1>2. pc \in [Proc -> PC] /\ TableOK /\ view' = view
  BY DEF GInv, TypeOK, Input
<1>3. TableOK' /\ ViewSound' /\ CmdKnown' /\ pc' \in [Proc -> PC]
  <2>1. CASE Goto(p, "update") /\ UNCHANGED table
    <3>1. TableOK' /\ Grows
      BY <1>2, <2>1, TableSame
    <3>2. \A q \in Proc \ {p} : req'[q] = req[q]
      BY <1>2, <2>1, OthersRequests
    <3>3. "update" \in PC \ {"store_cmd"} /\ pc' = [pc EXCEPT ![p] = "update"]
      BY <2>1 DEF PC, Goto
    <3> QED
      BY <1>2, <3>1, <3>2, <3>3, PlainStep
  <2>2. ASSUME NEW f \in Commanded(cmd, Slot(p, i).val, clock),
               Tbl!Request(p, Plane(Slot(p, i).key, f)),
               Goto(p, "store_cmd")
        PROVE  TableOK' /\ ViewSound' /\ CmdKnown' /\ pc' \in [Proc -> PC]
    <3> DEFINE d == Plane(Slot(p, i).key, f)
    <3>1. Sound(d) /\ (d.key = EmptyKey \/ Known(d.key))
      BY CommandSound
    <3>2. Tbl!Request(p, d)
      BY <2>2
    <3> HIDE DEF d
    <3>3. TableOK' /\ Grows
      BY <1>2, <3>1, <3>2, RequestKeeps
    <3>4. req' = [req EXCEPT ![p] = d] /\ (d.key = EmptyKey => rows # << >>)
      BY <3>2 DEF Tbl!Request
    <3>5. pc' = [pc EXCEPT ![p] = "store_cmd"]
      BY <2>2 DEF Goto
    <3>6. pc' \in [Proc -> PC]
      BY <1>2, <3>5 DEF PC
    <3>7. ViewSound'
      BY <1>2, <3>3, ViewSame DEF GInv
    <3>8. CmdKnown'
      <4> SUFFICES ASSUME NEW q \in Proc, pc'[q] = "store_cmd"
                   PROVE  ((req[q].key = EmptyKey /\ rows # << >>) \/ Known(req[q].key))'
        BY DEF CmdKnown
      <4>1. CASE q = p
        <5>1. req'[q] = d
          BY <1>2, <3>4, <4>1 DEF TableOK, Tbl!TypeOK
        <5>2. (d.key = EmptyKey /\ rows' # << >>) \/ \E j \in 1..Len(rows') : rows'[j].key = d.key
          BY <3>1, <3>3, <3>4 DEF Grows, Known
        <5> QED
          BY <5>1, <5>2 DEF Known
      <4>2. CASE q # p
        <5>1. req'[q] = req[q] /\ pc[q] = "store_cmd"
          BY <1>2, <3>4, <3>5, <4>2 DEF TableOK, Tbl!TypeOK
        <5>2. (req[q].key = EmptyKey /\ rows # << >>) \/ Known(req[q].key)
          BY <5>1 DEF GInv, CmdKnown
        <5>3. \/ (req[q].key = EmptyKey /\ rows' # << >>)
              \/ \E j \in 1..Len(rows') : rows'[j].key = req[q].key
          BY <3>3, <5>2 DEF Grows, Known
        <5> QED
          BY <5>1, <5>3 DEF Known
      <4> QED
        BY <4>1, <4>2
    <3> QED
      BY <3>3, <3>6, <3>7, <3>8
  <2> QED
    BY <1>1, <2>1, <2>2
<1>4. given' \in 0..MaxCommands
  BY GameBoundAssumption DEF GInv, TypeOK, Input
<1>5. LocalOK'
  BY <1>3, <1>4 DEF GInv, TypeOK, LocalOK, Input
<1> QED
  BY <1>3, <1>5, Parts

LEMMA BeginScanStep ==
  ASSUME GInv, NEW p \in Proc, BeginScan(p)
  PROVE  GInv'
<1>1. TableOK /\ Tbl!StartScan(p) /\ UNCHANGED view
  BY DEF BeginScan, GInv
<1>2. pc' = [pc EXCEPT ![p] = "scan"] /\ "scan" \in PC \ {"store_cmd"}
  BY DEF BeginScan, Goto, PC
<1>3. TableOK' /\ Grows
  BY <1>1, ScanKeeps
<1>4. \A q \in Proc \ {p} : req'[q] = req[q]
  BY <1>1, OthersRequests
<1>5. ViewSound' /\ CmdKnown' /\ pc' \in [Proc -> PC]
  BY <1>1, <1>2, <1>3, <1>4, PlainStep
<1>6. LocalOK'
  <2>1. 0 \in 0..MAX_PLANES /\ LocalOK
    BY ListAssumption DEF GInv, TypeOK, LocalOK
  <2>2. /\ UNCHANGED <<clock, view, planes_count, tick_time, given, quits>>
        /\ now' = [now EXCEPT ![p] = clock] /\ count' = [count EXCEPT ![p] = 0]
        /\ crashed' = [crashed EXCEPT ![p] = 0] /\ landed' = [landed EXCEPT ![p] = 0]
    BY DEF BeginScan
  <2>3. crashed' \in [Proc -> Nat] /\ landed' \in [Proc -> Nat]
    BY <2>1, <2>2 DEF LocalOK
  <2>4. now' \in [Proc -> 0..MaxTime] /\ count' \in [Proc -> 0..MAX_PLANES]
    BY <2>1, <2>2 DEF LocalOK
  <2> QED
    BY <1>5, <2>1, <2>2, <2>3, <2>4 DEF LocalOK
<1> QED
  BY <1>3, <1>5, <1>6, Parts

LEMMA GetStep ==
  ASSUME GInv, NEW p \in Proc, GetLock(p) \/ GetRow(p)
  PROVE  GInv'
<1>1. TableOK /\ UNCHANGED <<clock, local, given, quits>> /\ pc[p] = "scan"
  BY DEF GetLock, GetRow, GInv
<1>2. TableOK' /\ Grows
  BY <1>1, ScanKeeps, DeliverKeeps DEF GetLock, GetRow
<1>3. UNCHANGED <<req, pc>>
  BY <1>1 DEF GetLock, GetRow, Tbl!Attach, Tbl!Deliver, local
<1>4. CmdKnown'
  BY <1>1, <1>2, <1>3, ScanStep
<1>5. ViewSound'
  BY <1>1, <1>2, ViewSame DEF GInv, local
<1>6. LocalOK'
  BY <1>1 DEF GInv, TypeOK, LocalOK, local
<1> QED
  BY <1>2, <1>4, <1>5, <1>6, Parts

LEMMA ListStep ==
  ASSUME GInv, NEW p \in Proc, ListPlane(p)
  PROVE  GInv'
<1> DEFINE m == [got[p] EXCEPT !.val = Moved(@, now[p])]
           n == count[p] + 1
<1>1. /\ TableOK /\ Tbl!Consume(p) /\ pc[p] = "scan" /\ got[p] # None
      /\ got[p].val.status = "flying" /\ ~ComesDown(got[p].val, now[p])
  BY DEF ListPlane, GInv
<1>2. TableOK' /\ Grows
  BY <1>1, DeliverKeeps
<1>3. UNCHANGED <<req, pc>>
  BY DEF ListPlane, Tbl!Consume
<1>4. CmdKnown'
  BY <1>1, <1>2, <1>3, ScanStep
<1>5. Sound(m) /\ m.val.status = "flying" /\ Known(m.key) /\ m \in Tbl!Datum
  <2> DEFINE g == got[p]
             v == Moved(g.val, now[p])
  <2>1. Sound(g) /\ (g.key = EmptyKey \/ Known(g.key))
    BY <1>1 DEF TableOK, GotSound
  <2>2. g.key \in Key /\ g.val \in Airborne /\ g.val \in FlightData /\ g.key # EmptyKey
    BY <1>1, <2>1, SoundFields, IdAssumption
  <2>3. now[p] \in Int
    BY GameBoundAssumption DEF GInv, TypeOK
  <2>4. v \in Airborne /\ v \in FlightData
    BY <1>1, <2>2, <2>3, MovedStaysOnMap
  <2>5. v.status = "flying"
    BY <2>4 DEF Airborne
  <2>6. g \in [key : Key \cup {EmptyKey}, val : FlightData, down : BOOLEAN]
    BY <2>1 DEF Sound, Tbl!Datum
  <2>7. m = [g EXCEPT !.val = v]
    OBVIOUS
  <2>8. ~g.down
    BY <1>1, <2>1 DEF Sound
  <2> HIDE DEF m, g, v
  <2>9. /\ m \in [key : Key \cup {EmptyKey}, val : FlightData, down : BOOLEAN]
        /\ m.key = g.key /\ m.val = v /\ m.down = g.down
    BY <2>4, <2>6, <2>7
  <2>10. m \in Tbl!Datum
    BY <2>2, <2>9 DEF Tbl!Datum
  <2>11. Sound(m)
    BY <2>4, <2>5, <2>8, <2>9, <2>10 DEF Sound
  <2> QED
    BY <2>1, <2>2, <2>5, <2>9, <2>10, <2>11
<1>6. /\ count' \in [Proc -> 0..MAX_PLANES]
      /\ view' \in [Proc -> Seq(Tbl!Datum)]
      /\ \A q \in Proc : \A i \in 1..Len(view'[q]) :
           view'[q][i] = m \/ (i \in 1..Len(view[q]) /\ view'[q][i] = view[q][i])
  <2>1. /\ count \in [Proc -> 0..MAX_PLANES] /\ view \in [Proc -> Seq(Tbl!Datum)]
        /\ MAX_PLANES \in Nat
    BY ListAssumption DEF GInv, TypeOK
  <2>2. CASE count[p] < MAX_PLANES
    <3>1. count' = [count EXCEPT ![p] = n]
      BY <2>2 DEF ListPlane
    <3>2. view' = [view EXCEPT ![p] = IF n > Len(view[p]) THEN Append(view[p], m)
                                      ELSE [view[p] EXCEPT ![n] = m]]
      BY <2>2 DEF ListPlane
    <3>3. n \in 1..MAX_PLANES
      BY <2>1, <2>2
    <3> HIDE DEF m, n
    <3>4. count' \in [Proc -> 0..MAX_PLANES]
      BY <2>1, <3>1, <3>3
    <3> DEFINE w == IF n > Len(view[p]) THEN Append(view[p], m)
                    ELSE [view[p] EXCEPT ![n] = m]
    <3>5. view[p] \in Seq(Tbl!Datum) /\ view' = [view EXCEPT ![p] = w]
      BY <2>1, <3>2
    <3>6. /\ w \in Seq(Tbl!Datum)
          /\ \A i \in 1..Len(w) : w[i] = m \/ (i \in 1..Len(view[p]) /\ w[i] = view[p][i])
      <4>1. CASE n > Len(view[p])
        <5>1. w = Append(view[p], m)
          BY <4>1
        <5> QED
          BY <1>5, <3>5, <5>1, Appended
      <4>2. CASE ~(n > Len(view[p]))
        <5>1. w = [view[p] EXCEPT ![n] = m]
          BY <4>2
        <5>2. n \in 1..Len(view[p])
          BY <3>3, <3>5, <4>2
        <5>3. m \in Tbl!Datum /\ view[p] \in Seq(Tbl!Datum)
          BY <1>5, <3>5
        <5> HIDE DEF w
        <5> QED
          BY <5>1, <5>2, <5>3, Replaced
      <4> QED
        BY <4>1, <4>2
    <3> HIDE DEF w
    <3>7. view' \in [Proc -> Seq(Tbl!Datum)]
      BY <2>1, <3>5, <3>6
    <3>8. \A q \in Proc : view'[q] = IF q = p THEN w ELSE view[q]
      BY <2>1, <3>5
    <3> QED
      BY <3>4, <3>6, <3>7, <3>8
  <2>3. CASE ~(count[p] < MAX_PLANES)
    <3>1. UNCHANGED <<count, view>>
      BY <2>3 DEF ListPlane
    <3> QED
      BY <2>1, <3>1
  <2> QED
    BY <2>2, <2>3
<1> HIDE DEF m, n
<1>7. ViewSound'
  <2> SUFFICES ASSUME NEW q \in Proc, NEW i \in 1..Len(view'[q])
               PROVE  /\ Sound(view'[q][i])
                      /\ view'[q][i].val.status = "flying"
                      /\ \E j \in 1..Len(rows') : rows'[j].key = view'[q][i].key
    BY DEF ViewSound, Sound, Known
  <2>1. /\ Sound(view'[q][i]) /\ view'[q][i].val.status = "flying"
        /\ Known(view'[q][i].key)
    <3>1. CASE view'[q][i] = m
      BY <1>5, <3>1 DEF Known
    <3>2. CASE i \in 1..Len(view[q]) /\ view'[q][i] = view[q][i]
      BY <3>2 DEF GInv, ViewSound, Known
    <3> QED
      BY <1>6, <3>1, <3>2
  <2> QED
    BY <1>2, <2>1 DEF Grows, Known
<1>8. LocalOK'
  BY <1>6 DEF GInv, TypeOK, LocalOK, ListPlane
<1> QED
  BY <1>2, <1>4, <1>7, <1>8, Parts

(* What came down is stored as a sound plane. *)
LEMMA FallenSound ==
  ASSUME GInv, NEW p \in Proc, got[p] # None, got[p].val.status = "flying",
         NEW f \in Down(got[p].val)
  PROVE  Sound(Plane(got[p].key, f))
<1>1. Sound(got[p])
  BY DEF GInv, TableOK, GotSound
<1>2. got[p].key \in Key /\ got[p].val \in FlightData
  BY <1>1, SoundFields
<1>3. f \in FlightData /\ f.status # "flying"
  BY <1>2, DownIsDown
<1> QED
  BY <1>2, <1>3, PlaneSound

LEMMA BringDownStep ==
  ASSUME GInv, NEW p \in Proc, BringDown(p)
  PROVE  GInv'
<1>1. /\ TableOK /\ got[p] # None /\ got[p].val.status = "flying" /\ UNCHANGED view
      /\ pc' = [pc EXCEPT ![p] = "store_down"]
  BY DEF BringDown, GInv, Goto
<1>2. PICK f \in Down(got[p].val) : Tbl!WriteBack(p, Plane(got[p].key, f))
  BY DEF BringDown
<1>3. Sound(Plane(got[p].key, f))
  BY <1>1, <1>2, FallenSound
<1>4. TableOK' /\ Grows
  BY <1>1, <1>2, <1>3, WriteBackKeeps
<1>5. \A q \in Proc \ {p} : req'[q] = req[q]
  BY <1>1, <1>2, OthersRequests
<1>6. "store_down" \in PC \ {"store_cmd"}
  BY DEF PC
<1>7. ViewSound' /\ CmdKnown' /\ pc' \in [Proc -> PC]
  BY <1>1, <1>4, <1>5, <1>6, PlainStep
<1>8. LocalOK'
  BY <1>7 DEF GInv, TypeOK, LocalOK, BringDown
<1> QED
  BY <1>4, <1>7, <1>8, Parts

LEMMA CountStep ==
  ASSUME GInv, NEW p \in Proc, CountDown(p)
  PROVE  GInv'
<1>1. TableOK /\ Tbl!Consume(p) /\ UNCHANGED <<view, pc>> /\ pc[p] = "scan"
  BY DEF CountDown, GInv
<1>2. TableOK' /\ Grows
  BY <1>1, DeliverKeeps
<1>3. UNCHANGED <<req, pc>>
  BY <1>1 DEF Tbl!Consume
<1>4. CmdKnown'
  BY <1>1, <1>2, <1>3, ScanStep
<1>5. ViewSound'
  BY <1>1, <1>2, ViewSame DEF GInv
<1>6. crashed' \in [Proc -> Nat] /\ landed' \in [Proc -> Nat]
  <2>1. crashed \in [Proc -> Nat] /\ landed \in [Proc -> Nat]
    BY DEF GInv, TypeOK
  <2>2. crashed' = crashed \/ crashed' = [crashed EXCEPT ![p] = crashed[p] + 1]
    BY DEF CountDown
  <2>3. landed' = landed \/ landed' = [landed EXCEPT ![p] = landed[p] + 1]
    BY DEF CountDown
  <2> QED
    BY <2>1, <2>2, <2>3
<1>7. LocalOK'
  BY <1>1, <1>6 DEF GInv, TypeOK, LocalOK, CountDown
<1> QED
  BY <1>2, <1>4, <1>5, <1>7, Parts

LEMMA LoseLockStep ==
  ASSUME GInv, NEW p \in Proc, LoseLock(p) \/ EndScan(p)
  PROVE  GInv'
<1>1. TableOK /\ (Tbl!Detach(p) \/ Tbl!EndScan(p)) /\ UNCHANGED view
  BY DEF LoseLock, EndScan, GInv
<1>2. PICK l \in {"scan", "tick", "input"} : pc' = [pc EXCEPT ![p] = l]
  BY DEF LoseLock, EndScan, Goto
<1>3. TableOK' /\ Grows
  BY <1>1, ScanKeeps
<1>4. \A q \in Proc \ {p} : req'[q] = req[q]
  BY <1>1, OthersRequests
<1>5. l \in PC \ {"store_cmd"}
  BY DEF PC
<1>6. ViewSound' /\ CmdKnown' /\ pc' \in [Proc -> PC]
  BY <1>1, <1>2, <1>3, <1>4, <1>5, PlainStep
<1>7. LocalOK'
  <2>1. LocalOK /\ 0 \in 0..MAX_PLANES /\ 0 \in 0..MaxTime
    BY ListAssumption, GameBoundAssumption DEF GInv, TypeOK, LocalOK
  <2>2. CASE LoseLock(p)
    BY <1>6, <2>1, <2>2 DEF LocalOK, LoseLock
  <2>3. CASE EndScan(p)
    <3>1. UNCHANGED <<clock, view, crashed, landed, given, quits>>
      BY <2>3 DEF EndScan
    <3>2. planes_count' \in [Proc -> 0..MAX_PLANES]
      BY <2>1, <2>3 DEF LocalOK, EndScan
    <3>3. tick_time' \in [Proc -> 0..MaxTime]
      BY <2>1, <2>3 DEF LocalOK, EndScan
    <3>4. now' \in [Proc -> 0..MaxTime] /\ count' \in [Proc -> 0..MAX_PLANES]
      BY <2>1, <2>3 DEF LocalOK, EndScan
    <3> QED
      BY <1>6, <2>1, <3>1, <3>2, <3>3, <3>4 DEF LocalOK
  <2> QED
    BY <2>2, <2>3
<1> QED
  BY <1>3, <1>6, <1>7, Parts

LEMMA QuitStep ==
  ASSUME GInv, NEW p \in Proc, Quit(p)
  PROVE  GInv'
<1>1. TableOK /\ UNCHANGED table /\ LocalOK
  BY DEF Quit, GInv, TypeOK, LocalOK
<1>2. TableOK' /\ Grows
  BY <1>1, TableSame
<1>3. pc' = [pc EXCEPT ![p] = "start"] /\ view' = [view EXCEPT ![p] = << >>]
  BY DEF Quit, Goto
<1>4. pc' \in [Proc -> PC] /\ pc'[p] # "store_cmd"
  BY <1>1, <1>3 DEF LocalOK, PC
<1>5. \A q \in Proc \ {p} : pc'[q] = pc[q] /\ req'[q] = req[q]
  BY <1>1, <1>3 DEF LocalOK, table
<1>6. CmdKnown'
  BY <1>2, <1>4, <1>5, CmdElsewhere DEF GInv
<1>7. ViewSound'
  <2> SUFFICES ASSUME NEW q \in Proc, NEW i \in 1..Len(view'[q])
               PROVE  /\ Sound(view'[q][i])
                      /\ view'[q][i].val.status = "flying"
                      /\ \E j \in 1..Len(rows') : rows'[j].key = view'[q][i].key
    BY DEF ViewSound, Sound, Known
  <2>1. q # p /\ view'[q] = view[q]
    BY <1>1, <1>3 DEF LocalOK
  <2>2. Sound(view[q][i]) /\ view[q][i].val.status = "flying" /\ Known(view[q][i].key)
    BY <2>1 DEF GInv, ViewSound
  <2> QED
    BY <1>2, <2>1, <2>2 DEF Grows, Known
<1>8. LocalOK'
  <2>1. /\ UNCHANGED <<clock, now, count, tick_time, given>>
        /\ planes_count' = [planes_count EXCEPT ![p] = 0]
        /\ crashed' = [crashed EXCEPT ![p] = 0] /\ landed' = [landed EXCEPT ![p] = 0]
        /\ quits < MaxQuits /\ quits' = quits + 1
    BY DEF Quit
  <2>2. quits' \in 0..MaxQuits
    BY <1>1, <2>1, GameBoundAssumption DEF LocalOK
  <2>3. view' \in [Proc -> Seq(Tbl!Datum)]
    BY <1>1, <1>3 DEF LocalOK
  <2>4. planes_count' \in [Proc -> 0..MAX_PLANES]
    BY <1>1, <2>1, ListAssumption DEF LocalOK
  <2>5. crashed' \in [Proc -> Nat] /\ landed' \in [Proc -> Nat]
    BY <1>1, <2>1 DEF LocalOK
  <2> QED
    BY <1>1, <1>4, <2>1, <2>2, <2>3, <2>4, <2>5 DEF LocalOK
<1> QED
  BY <1>2, <1>6, <1>7, <1>8, Parts

LEMMA StillStep ==
  ASSUME GInv, Tick \/ UNCHANGED vars
  PROVE  GInv'
<1>1. TableOK /\ UNCHANGED table /\ UNCHANGED local /\ UNCHANGED <<given, quits>>
  BY DEF Tick, vars, GInv
<1>2. TableOK' /\ Grows
  BY <1>1, TableSame
<1>3. clock' \in 0..MaxTime
  <2>1. clock \in 0..MaxTime
    BY DEF GInv, TypeOK
  <2>2. clock' = clock \/ \E d \in TimeSteps : clock + d <= MaxTime /\ clock' = clock + d
    BY DEF Tick, vars
  <2> QED
    BY <2>1, <2>2, PlayAssumption, GameBoundAssumption
<1>4. LocalOK'
  BY <1>1, <1>3 DEF GInv, TypeOK, LocalOK, local
<1>5. ViewSound'
  BY <1>1, <1>2, ViewSame DEF GInv, local
<1>6. CmdKnown'
  BY <1>1, <1>2 DEF GInv, CmdKnown, local, table, Known
<1> QED
  BY <1>2, <1>4, <1>5, <1>6, Parts

LEMMA NextKeepsGInv == GInv /\ [Next]_vars => GInv'
<1> SUFFICES ASSUME GInv, [Next]_vars PROVE GInv'
  OBVIOUS
<1>1. ASSUME NEW p \in Proc, Start(p) \/ Input(p) \/ Step(p) \/ Quit(p)
      PROVE  GInv'
  BY <1>1, StartStep, StoreStep, InputStep, BeginScanStep, GetStep, ListStep,
     BringDownStep, CountStep, LoseLockStep, QuitStep DEF Step
<1>2. CASE Tick \/ UNCHANGED vars
  BY <1>2, StillStep
<1> QED
  BY <1>1, <1>2 DEF Next

-----------------------------------------------------------------------------
(* Theorems                                                                *)

THEOREM Inductive == Spec => []GInv
BY InitGInv, NextKeepsGInv, PTL DEF Spec

(* Types, whatever the players do. *)
THEOREM TypeCorrect == Spec => []TypeOK
<1>1. GInv => TypeOK
  BY DEF GInv
<1> QED
  BY <1>1, Inductive, PTL

(* No command, however stale its list, and no scan, however late, makes a  *)
(* flying plane that calculate_position cannot carry on.                   *)
THEOREM PlanesStayInEnvelope == Spec => []FlightEnvelope
<1>1. GInv => FlightEnvelope
  <2> SUFFICES ASSUME GInv PROVE FlightEnvelope
    OBVIOUS
  <2>1. \A i \in 1..Len(rows) : ~rows[i].data.down => rows[i].data.val \in Airborne
    BY DEF GInv, TableOK, RowsSound, Sound
  <2>2. ASSUME NEW p \in Proc, NEW i \in 1..Len(view[p])
        PROVE  view[p][i].val \in Airborne
    <3>1. Sound(view[p][i]) /\ view[p][i].val.status = "flying"
      BY DEF GInv, ViewSound
    <3> QED
      BY <3>1, SoundFields
  <2> QED
    BY <2>1, <2>2 DEF FlightEnvelope
<1> QED
  BY <1>1, Inductive, PTL

(* A command always finds a row: rows are never removed and keep their     *)
(* keys, so a list cannot outlive the planes it names.                     *)
THEOREM CommandsMakeNoPlanes == Spec => []NoGhostPlanes
<1>1. GInv => NoGhostPlanes
  <2> SUFFICES ASSUME GInv, NEW p \in Proc, pc[p] = "store_cmd"
               PROVE  \E i \in 1..Len(rows) : req[p].key \in {rows[i].key, EmptyKey}
    BY DEF NoGhostPlanes
  <2>1. (req[p].key = EmptyKey /\ rows # << >>) \/ Known(req[p].key)
    BY DEF GInv, CmdKnown
  <2>2. rows # << >> => 1 \in 1..Len(rows)
    BY DEF GInv, TypeOK, Tbl!TypeOK
  <2> QED
    BY <2>1, <2>2 DEF Known
<1> QED
  BY <1>1, Inductive, PTL

(* The players use the table as Table allows, so what Storage is shown to  *)
(* promise is what the game is built on.                                   *)
THEOREM PlaysOnTheTable == Spec => Tbl!Spec
<1>1. Init => Tbl!Init
  BY DEF Init
<1>2. GInv /\ GInv' /\ [Next]_vars => [Tbl!Next]_(Tbl!vars)
  <2> SUFFICES ASSUME GInv, GInv', [Next]_vars PROVE [Tbl!Next]_(Tbl!vars)
    OBVIOUS
  <2>1. /\ \A p \in Proc : req[p] \in Tbl!Datum \cup {None}
        /\ \A p \in Proc : req'[p] \in Tbl!Datum \cup {None}
        /\ req \in [Proc -> Tbl!Datum \cup {None}]
    BY DEF GInv, TypeOK, Tbl!TypeOK
  <2>2. ASSUME NEW p \in Proc, NEW d, Tbl!Request(p, d)
        PROVE  [Tbl!Next]_(Tbl!vars)
    <3>1. req'[p] = d
      BY <2>1, <2>2 DEF Tbl!Request
    <3>2. CASE d \in Tbl!Datum
      BY <2>2, <3>2 DEF Tbl!Next
    <3>3. CASE d = None
      BY <2>1, <2>2, <3>3 DEF Tbl!Request, Tbl!vars
    <3> QED
      BY <2>1, <3>1, <3>2, <3>3
  <2>3. ASSUME UNCHANGED table
        PROVE  [Tbl!Next]_(Tbl!vars)
    BY <2>3 DEF table, Tbl!vars
  <2>4. ASSUME NEW p \in Proc, Start(p) \/ TickPlane(p) \/ Input(p) \/ Quit(p)
        PROVE  [Tbl!Next]_(Tbl!vars)
    <3>1. UNCHANGED table \/ \E d : Tbl!Request(p, d)
      BY <2>4 DEF Start, TickPlane, Input, Quit, CreatePlane
    <3> QED
      BY <2>2, <2>3, <3>1
  <2>5. ASSUME NEW p \in Proc, BringDown(p)
        PROVE  [Tbl!Next]_(Tbl!vars)
    <3>1. PICK f \in Down(got[p].val) : Tbl!WriteBack(p, Plane(got[p].key, f))
      BY <2>5 DEF BringDown
    <3>2. Plane(got[p].key, f) \in Tbl!Datum
      BY <2>5, FallenSound DEF BringDown, Sound
    <3> QED
      BY <3>1, <3>2 DEF Tbl!Next
  <2>6. ASSUME NEW p \in Proc,
               \/ StoreNew(p) \/ StoreCmd(p) \/ StoreDown(p) \/ BeginScan(p)
               \/ GetLock(p) \/ GetRow(p) \/ ListPlane(p) \/ CountDown(p)
               \/ LoseLock(p) \/ EndScan(p)
        PROVE  [Tbl!Next]_(Tbl!vars)
    BY <2>6 DEF StoreNew, StoreCmd, StoreDown, Stored, BeginScan, GetLock, GetRow,
                ListPlane, CountDown, LoseLock, EndScan, Tbl!Next
  <2>7. Tick => UNCHANGED table
    BY DEF Tick
  <2>8. UNCHANGED vars => UNCHANGED table
    BY DEF vars
  <2> QED
    BY <2>3, <2>4, <2>5, <2>6, <2>7, <2>8 DEF Next, Step
<1> QED
  BY <1>1, <1>2, Inductive, PTL DEF Spec, Tbl!Spec

-----------------------------------------------------------------------------
(***************************************************************************)
(* What a scan puts in its list and counts: no plane twice.  The argument  *)
(* is about positions: what is in the list stands for rows that the scan   *)
(* has passed, each for one of its own, and what is counted is no more     *)
(* than the rows that were passed.  Rows are never removed and keep their  *)
(* keys, so what others store in the meantime disturbs neither.            *)
(***************************************************************************)

ScanPC == {"scan", "store_down", "close"}

(* The row that the scan was given and has not judged yet. *)
Pending(p) == IF got[p] = None THEN 0 ELSE 1

KeysDiffer == \A i, j \in 1..Len(rows) : rows[i].key = rows[j].key => i = j

(* No more is counted than was read. *)
Score(p) ==
  IF pc[p] \in ScanPC
    THEN /\ pos[p] \in 0..Len(rows)
         /\ count[p] + crashed[p] + landed[p] + Pending(p) <= pos[p]
    ELSE /\ got[p] = None
         /\ planes_count[p] + crashed[p] + landed[p] <= Len(rows)

(* The first n slots of p's list are planes, each another one. *)
Distinct(p, n) ==
  /\ n <= Len(view[p])
  /\ \A i, j \in 1..n : view[p][i].key = view[p][j].key => i = j

(* What is in the list was read before the row that is pending. *)
Shown(p) ==
  IF pc[p] \in ScanPC
    THEN /\ Distinct(p, count[p])
         /\ \A i \in 1..count[p] :
              \E r \in 1..(pos[p] - Pending(p)) : rows[r].key = view[p][i].key
         /\ got[p] # None /\ got[p].val.status = "flying"
              => rows[pos[p]].key = got[p].key
    ELSE Distinct(p, planes_count[p])

LInv == KeysDiffer /\ \A p \in Proc : Score(p) /\ Shown(p)

-----------------------------------------------------------------------------
(* Rows                                                                    *)

RowsStay ==
  /\ Len(rows') >= Len(rows) /\ Len(rows) \in Nat /\ Len(rows') \in Nat
  /\ \A i \in 1..Len(rows) : rows'[i].key = rows[i].key

LEMMA SameRowsStay ==
  ASSUME GInv, rows' = rows, KeysDiffer
  PROVE  RowsStay /\ KeysDiffer'
BY DEF RowsStay, KeysDiffer, GInv, TypeOK, Tbl!TypeOK

(* A record's data is replaced, or a record with a new key appended. *)
LEMMA StoredRowsStay ==
  ASSUME GInv, NEW p \in Proc, Stored(p), KeysDiffer
  PROVE  RowsStay /\ KeysDiffer'
<1> DEFINE S == [key : Key, data : Tbl!Datum]
<1>1. rows \in Seq(S) /\ Len(rows) \in Nat
  BY DEF GInv, TypeOK, Tbl!TypeOK
<1>2. CASE Tbl!Overwrite(p)
  <2>1. PICK i \in 1..Len(rows) : rows' = [rows EXCEPT ![i].data = req[p]]
    BY <1>2 DEF Tbl!Overwrite
  <2>2. rows[i] \in S
    <3> HIDE DEF S
    <3> QED
      BY <1>1, <2>1
  <2>3. rows[i].key = [rows[i] EXCEPT !.data = req[p]].key
    BY <2>2
  <2>4. Len(rows') = Len(rows) /\ \A j \in 1..Len(rows) : rows'[j].key = rows[j].key
    <3>1. rows' = [rows EXCEPT ![i] = [rows[i] EXCEPT !.data = req[p]]]
      BY <2>1
    <3> QED
      BY <1>1, <2>3, <3>1
  <2> QED
    BY <1>1, <2>4 DEF RowsStay, KeysDiffer
<1>3. CASE Tbl!Insert(p)
  <2> DEFINE r == [key |-> req[p].key, data |-> req[p]]
  <2>1. rows' = Append(rows, r) /\ \A i \in 1..Len(rows) : rows[i].key # req[p].key
    BY <1>3 DEF Tbl!Insert, Tbl!Matches
  <2>2. r.key = req[p].key
    OBVIOUS
  <2> HIDE DEF r
  <2>3. /\ Len(rows') = Len(rows) + 1
        /\ rows'[Len(rows) + 1] = r
        /\ \A i \in 1..Len(rows) : rows'[i] = rows[i]
    BY <1>1, <2>1
  <2>4. RowsStay
    BY <1>1, <2>3 DEF RowsStay
  <2>5. ASSUME NEW i \in 1..Len(rows'), NEW j \in 1..Len(rows'),
               rows'[i].key = rows'[j].key
        PROVE  i = j
    <3>1. \A k \in 1..Len(rows') : k \in 1..Len(rows) \/ k = Len(rows) + 1
      BY <1>1, <2>3
    <3> QED
      BY <1>1, <2>1, <2>2, <2>3, <2>5, <3>1 DEF KeysDiffer
  <2> QED
    BY <2>4, <2>5 DEF KeysDiffer
<1> QED
  BY <1>2, <1>3 DEF Stored

-----------------------------------------------------------------------------
(* Frames                                                                  *)

(* What Score and Shown read of q. *)
Same(q) ==
  /\ pos'[q] = pos[q] /\ got'[q] = got[q]
  /\ count'[q] = count[q] /\ view'[q] = view[q]
  /\ planes_count'[q] = planes_count[q]
  /\ crashed'[q] = crashed[q] /\ landed'[q] = landed[q]

LEMMA Numbers ==
  ASSUME GInv, NEW p \in Proc
  PROVE  /\ pos[p] \in Int /\ count[p] \in Nat /\ planes_count[p] \in Nat
         /\ crashed[p] \in Nat /\ landed[p] \in Nat /\ Pending(p) \in 0..1
         /\ Len(view[p]) \in Nat /\ Len(rows) \in Nat /\ pc[p] \in PC
BY ListAssumption DEF GInv, TypeOK, Tbl!TypeOK, Tbl!NoScan, Pending

LEMMA Kept ==
  ASSUME GInv, RowsStay, NEW q \in Proc, Score(q), Shown(q), Same(q),
         pc'[q] \in ScanPC <=> pc[q] \in ScanPC
  PROVE  Score(q)' /\ Shown(q)'
<1>1. /\ pos[q] \in Int /\ Pending(q) \in 0..1 /\ Pending(q)' = Pending(q)
      /\ Len(rows) \in Nat /\ Len(rows') \in Nat
      /\ planes_count[q] + crashed[q] + landed[q] \in Int
  BY Numbers DEF Same, Pending, RowsStay
<1>2. Score(q)'
  BY <1>1 DEF Score, Same, RowsStay
<1>3. Shown(q)'
  <2>1. CASE pc[q] \in ScanPC
    <3>1. pos[q] \in 0..Len(rows)
      BY <2>1 DEF Score
    <3>2. Distinct(q, count[q])'
      BY <2>1 DEF Shown, Distinct, Same
    <3>3. \A i \in 1..count[q] :
            \E r \in 1..(pos[q] - Pending(q)) : rows'[r].key = view[q][i].key
      BY <1>1, <2>1, <3>1 DEF Shown, RowsStay
    <3>4. got[q] # None /\ got[q].val.status = "flying" => rows'[pos[q]].key = got[q].key
      <4>1. got[q] # None => pos[q] \in 1..Len(rows)
        BY <1>1, <2>1, <3>1, Numbers DEF Score, Pending
      <4> QED
        BY <2>1, <4>1 DEF Shown, RowsStay
    <3> QED
      BY <1>1, <2>1, <3>2, <3>3, <3>4, SMTT(30) DEF Shown, Same
  <2>2. CASE pc[q] \notin ScanPC
    BY <2>2 DEF Shown, Distinct, Same
  <2> QED
    BY <2>1, <2>2
<1> QED
  BY <1>2, <1>3

(* A step of p does not touch what the others have scanned. *)
LEMMA OthersSame ==
  ASSUME GInv, NEW p \in Proc, Start(p) \/ Input(p) \/ Step(p) \/ Quit(p),
         NEW q \in Proc \ {p}
  PROVE  Same(q) /\ pc'[q] = pc[q]
<1>1. /\ pos \in [Proc -> Nat \cup {Tbl!NoScan}] /\ got \in [Proc -> Tbl!Datum \cup {None}]
      /\ count \in [Proc -> 0..MAX_PLANES] /\ view \in [Proc -> Seq(Tbl!Datum)]
      /\ planes_count \in [Proc -> 0..MAX_PLANES] /\ pc \in [Proc -> PC]
      /\ crashed \in [Proc -> Nat] /\ landed \in [Proc -> Nat]
  BY DEF GInv, TypeOK, Tbl!TypeOK
<1>2. CASE Start(p) \/ TickPlane(p) \/ Input(p)
  <2>1. /\ UNCHANGED <<count, view, planes_count, crashed, landed>>
        /\ \E l : pc' = [pc EXCEPT ![p] = l]
    BY <1>2 DEF Start, TickPlane, Input, CreatePlane, Goto
  <2>2. UNCHANGED <<pos, got>>
    BY <1>2 DEF Start, TickPlane, Input, CreatePlane, Tbl!Request, table
  <2> QED
    BY <1>1, <2>1, <2>2 DEF Same
<1>3. CASE StoreNew(p) \/ StoreCmd(p) \/ StoreDown(p)
  BY <1>1, <1>3 DEF StoreNew, StoreCmd, StoreDown, Stored, Tbl!Overwrite, Tbl!Insert,
     Goto, Same
<1>4. CASE BeginScan(p)
  BY <1>1, <1>4 DEF BeginScan, Tbl!StartScan, Goto, Same
<1>5. CASE GetLock(p) \/ GetRow(p)
  BY <1>1, <1>5 DEF GetLock, GetRow, Tbl!Attach, Tbl!Deliver, local, Same
<1>6. CASE ListPlane(p)
  <2>1. /\ UNCHANGED <<pc, planes_count, crashed, landed>> /\ Tbl!Consume(p)
        /\ \/ UNCHANGED <<count, view>>
           \/ \E n, w : count' = [count EXCEPT ![p] = n] /\ view' = [view EXCEPT ![p] = w]
    BY <1>6 DEF ListPlane
  <2> QED
    BY <1>1, <2>1 DEF Tbl!Consume, Same
<1>7. CASE BringDown(p)
  BY <1>1, <1>7 DEF BringDown, Tbl!WriteBack, Goto, Same
<1>8. CASE CountDown(p)
  BY <1>1, <1>8 DEF CountDown, Tbl!Consume, Same
<1>9. CASE LoseLock(p) \/ EndScan(p)
  BY <1>1, <1>9 DEF LoseLock, EndScan, Tbl!Detach, Tbl!EndScan, Goto, Same
<1>10. CASE Quit(p)
  BY <1>1, <1>10 DEF Quit, Goto, Same, table
<1> QED
  BY <1>2, <1>3, <1>4, <1>5, <1>6, <1>7, <1>8, <1>9, <1>10 DEF Step

-----------------------------------------------------------------------------
(* The steps of a player                                                   *)

(* Before, after and beside the reading of rows. *)
LEMMA BesideStep ==
  ASSUME GInv, LInv, NEW p \in Proc,
         \/ Start(p) \/ TickPlane(p) \/ Input(p) \/ StoreNew(p) \/ StoreCmd(p)
         \/ StoreDown(p) \/ GetLock(p) \/ LoseLock(p)
  PROVE  RowsStay /\ KeysDiffer' /\ Score(p)' /\ Shown(p)'
<1>1. pc \in [Proc -> PC]
  BY DEF GInv, TypeOK
<1>2. CASE Start(p) \/ TickPlane(p) \/ Input(p)
  <2>1. UNCHANGED <<rows, pos, got, count, view, planes_count, crashed, landed>>
    BY <1>2 DEF Start, TickPlane, Input, CreatePlane, Tbl!Request, table
  <2>2. /\ pc[p] \in {"start", "tick", "input"}
        /\ \E l \in {"input", "store_new", "update", "store_cmd"} : pc' = [pc EXCEPT ![p] = l]
    BY <1>2 DEF Start, TickPlane, Input, CreatePlane, Goto
  <2>3. pc[p] \notin ScanPC /\ pc'[p] \notin ScanPC
    BY <1>1, <2>2 DEF ScanPC
  <2>4. RowsStay /\ KeysDiffer'
    BY <2>1, SameRowsStay DEF LInv
  <2> QED
    BY <2>1, <2>3, <2>4, Kept DEF LInv, Same
<1>3. CASE StoreNew(p) \/ StoreCmd(p) \/ StoreDown(p)
  <2>1. UNCHANGED <<pos, got, count, view, planes_count, crashed, landed>> /\ Stored(p)
    BY <1>3 DEF StoreNew, StoreCmd, StoreDown, Stored, Tbl!Overwrite, Tbl!Insert
  <2>2. \/ /\ pc[p] \in {"store_new", "store_cmd"}
           /\ \E l \in {"input", "update"} : pc' = [pc EXCEPT ![p] = l]
        \/ pc[p] = "store_down" /\ pc' = [pc EXCEPT ![p] = "close"]
    BY <1>3 DEF StoreNew, StoreCmd, StoreDown, Goto
  <2>3. pc'[p] \in ScanPC <=> pc[p] \in ScanPC
    BY <1>1, <2>2 DEF ScanPC
  <2>4. RowsStay /\ KeysDiffer'
    BY <2>1, StoredRowsStay DEF LInv
  <2> QED
    BY <2>1, <2>3, <2>4, Kept DEF LInv, Same
<1>4. CASE GetLock(p) \/ LoseLock(p)
  <2>1. UNCHANGED <<rows, pos, got, count, view, planes_count, crashed, landed>>
    BY <1>4 DEF GetLock, LoseLock, Tbl!Attach, Tbl!Detach, local
  <2>2. \/ pc[p] = "scan" /\ pc' = pc
        \/ pc[p] = "close" /\ pc' = [pc EXCEPT ![p] = "scan"]
    BY <1>4 DEF GetLock, LoseLock, local, Goto
  <2>3. pc'[p] \in ScanPC <=> pc[p] \in ScanPC
    BY <1>1, <2>2 DEF ScanPC
  <2>4. RowsStay /\ KeysDiffer'
    BY <2>1, SameRowsStay DEF LInv
  <2> QED
    BY <2>1, <2>3, <2>4, Kept DEF LInv, Same
<1> QED
  BY <1>2, <1>3, <1>4

LEMMA BeginStep ==
  ASSUME GInv, LInv, NEW p \in Proc, BeginScan(p)
  PROVE  RowsStay /\ KeysDiffer' /\ Score(p)' /\ Shown(p)'
<1>1. /\ rows' = rows /\ got' = got /\ view' = view
      /\ pos' = [pos EXCEPT ![p] = 0] /\ count' = [count EXCEPT ![p] = 0]
      /\ crashed' = [crashed EXCEPT ![p] = 0] /\ landed' = [landed EXCEPT ![p] = 0]
      /\ pc[p] \in {"input", "update"} /\ pc' = [pc EXCEPT ![p] = "scan"]
  BY DEF BeginScan, Tbl!StartScan, Goto
<1>2. /\ pos \in [Proc -> Nat \cup {Tbl!NoScan}] /\ count \in [Proc -> 0..MAX_PLANES]
      /\ crashed \in [Proc -> Nat] /\ landed \in [Proc -> Nat] /\ pc \in [Proc -> PC]
  BY DEF GInv, TypeOK, Tbl!TypeOK
<1>3. /\ pc'[p] = "scan" /\ pos'[p] = 0 /\ count'[p] = 0 /\ crashed'[p] = 0
      /\ landed'[p] = 0 /\ pc[p] \notin ScanPC
  BY <1>1, <1>2 DEF ScanPC
<1>4. got'[p] = None /\ Pending(p)' = 0
  BY <1>1, <1>3 DEF LInv, Score, Pending
<1>5. RowsStay /\ KeysDiffer' /\ Len(rows) \in Nat /\ Len(view[p]) \in Nat
  BY <1>1, SameRowsStay, Numbers DEF LInv
<1>6. Score(p)'
  BY <1>1, <1>3, <1>4, <1>5 DEF Score, ScanPC
<1>7. Shown(p)'
  BY <1>1, <1>3, <1>4, <1>5 DEF Shown, Distinct, ScanPC
<1> QED
  BY <1>5, <1>6, <1>7

(* A row is read: it is one more, and a plane's row if it is a plane. *)
LEMMA GetRowStep ==
  ASSUME GInv, LInv, NEW p \in Proc, GetRow(p)
  PROVE  RowsStay /\ KeysDiffer' /\ Score(p)' /\ Shown(p)'
<1> DEFINE n == pos[p] + 1
           g == rows[n].data
<1>1. /\ UNCHANGED <<rows, pc, count, view, planes_count, crashed, landed>>
      /\ got' = [got EXCEPT ![p] = g] /\ pos' = [pos EXCEPT ![p] = n]
      /\ got[p] = None /\ pc[p] = "scan" /\ pos[p] < Len(rows)
  BY DEF GetRow, Tbl!Deliver, local
<1>2. /\ pos \in [Proc -> Nat \cup {Tbl!NoScan}] /\ got \in [Proc -> Tbl!Datum \cup {None}]
  BY DEF GInv, TypeOK, Tbl!TypeOK
<1>3. pc[p] \in ScanPC /\ pos[p] \in 0..Len(rows) /\ Len(rows) \in Nat
  BY <1>1, Numbers DEF ScanPC, LInv, Score
<1>4. n \in 1..Len(rows) /\ n \in Nat
  BY <1>1, <1>3
<1>5. Sound(g) /\ g.key \in {rows[n].key, EmptyKey}
  BY <1>4 DEF GInv, TableOK, RowsSound
<1>6. g.val.status = "flying" => g.key = rows[n].key
  BY <1>5, SoundFields, IdAssumption
<1> HIDE DEF g, n
<1>7. got'[p] = g /\ pos'[p] = n /\ Pending(p) = 0 /\ Pending(p)' \in 0..1
  BY <1>1, <1>2, <1>4 DEF Pending
<1>8. n = pos[p] + 1
  BY DEF n
<1>9. Score(p)'
  <2>1. count[p] + crashed[p] + landed[p] + Pending(p) <= pos[p]
    BY <1>3 DEF LInv, Score
  <2>2. count[p] + crashed[p] + landed[p] + Pending(p)' <= n
    BY <1>3, <1>7, <1>8, <2>1, Numbers
  <2> QED
    BY <1>1, <1>3, <1>4, <1>7, <2>2 DEF Score
<1>10. Shown(p)'
  <2>1. /\ Distinct(p, count[p])
        /\ \A i \in 1..count[p] :
             \E r \in 1..(pos[p] - Pending(p)) : rows[r].key = view[p][i].key
    BY <1>3 DEF LInv, Shown
  <2>2. Distinct(p, count[p])'
    BY <1>1, <2>1 DEF Distinct
  <2>3. 1..(pos[p] - Pending(p)) \subseteq 1..(n - Pending(p)')
    BY <1>3, <1>7, <1>8
  <2>4. \A i \in 1..count[p] :
             \E r \in 1..(n - Pending(p)') : rows[r].key = view[p][i].key
    BY <2>1, <2>3
  <2> QED
    BY <1>1, <1>3, <1>6, <1>7, <2>2, <2>4 DEF Shown
<1>11. RowsStay /\ KeysDiffer'
  BY <1>1, SameRowsStay DEF LInv
<1> QED
  BY <1>9, <1>10, <1>11

(* The pending row, judged to be down, or a plane that comes down. *)
LEMMA DownStep ==
  ASSUME GInv, LInv, NEW p \in Proc, CountDown(p) \/ BringDown(p)
  PROVE  RowsStay /\ KeysDiffer' /\ Score(p)' /\ Shown(p)'
<1>1. /\ UNCHANGED <<rows, pos, count, view, planes_count>>
      /\ got' = [got EXCEPT ![p] = None] /\ got[p] # None /\ pc[p] = "scan"
      /\ pc' = pc \/ pc' = [pc EXCEPT ![p] = "store_down"]
  BY DEF CountDown, BringDown, Tbl!Consume, Tbl!WriteBack, Goto
<1>2. /\ got \in [Proc -> Tbl!Datum \cup {None}] /\ pc \in [Proc -> PC]
      /\ crashed \in [Proc -> Nat] /\ landed \in [Proc -> Nat]
  BY DEF GInv, TypeOK, Tbl!TypeOK
<1>3. /\ pc[p] \in ScanPC /\ pc'[p] \in ScanPC /\ got'[p] = None
      /\ Pending(p) = 1 /\ Pending(p)' = 0
  BY <1>1, <1>2 DEF ScanPC, Pending
<1>4. /\ pos[p] \in 0..Len(rows)
      /\ count[p] + crashed[p] + landed[p] + 1 <= pos[p]
  BY <1>3 DEF LInv, Score
<1>5. count[p] + crashed'[p] + landed'[p] + 0 <= pos[p]
  <2>1. \/ crashed' = crashed /\ landed' = landed
        \/ crashed' = [crashed EXCEPT ![p] = crashed[p] + 1] /\ landed' = landed
        \/ crashed' = crashed /\ landed' = [landed EXCEPT ![p] = landed[p] + 1]
    BY DEF CountDown, BringDown
  <2>2. \/ crashed'[p] = crashed[p] /\ landed'[p] = landed[p]
        \/ crashed'[p] = crashed[p] + 1 /\ landed'[p] = landed[p]
        \/ crashed'[p] = crashed[p] /\ landed'[p] = landed[p] + 1
    BY <1>2, <2>1
  <2> QED
    BY <1>4, <2>2, Numbers
<1>6. Score(p)'
  BY <1>1, <1>3, <1>4, <1>5 DEF Score
<1>7. Shown(p)'
  <2>1. /\ Distinct(p, count[p])
        /\ \A i \in 1..count[p] : \E r \in 1..(pos[p] - 1) : rows[r].key = view[p][i].key
    BY <1>3 DEF LInv, Shown
  <2>2. Distinct(p, count[p])'
    BY <1>1, <2>1 DEF Distinct
  <2>3. 1..(pos[p] - 1) \subseteq 1..(pos[p] - 0)
    BY <1>4, Numbers
  <2> QED
    BY <1>1, <1>3, <2>1, <2>2, <2>3 DEF Shown
<1>8. RowsStay /\ KeysDiffer'
  BY <1>1, SameRowsStay DEF LInv
<1> QED
  BY <1>6, <1>7, <1>8

(* The pending row goes into the first free slot. *)
LEMMA Slots ==
  ASSUME NEW S, NEW s \in Seq(S), NEW m \in S, NEW k \in Nat, k <= Len(s),
         NEW t, t = IF k + 1 > Len(s) THEN Append(s, m) ELSE [s EXCEPT ![k + 1] = m]
  PROVE  /\ k + 1 <= Len(t) /\ t[k + 1] = m
         /\ \A i \in 1..k : t[i] = s[i]
<1>1. CASE k + 1 > Len(s)
  <2>1. t = Append(s, m) /\ k = Len(s)
    BY <1>1
  <2> QED
    BY <2>1
<1>2. CASE ~(k + 1 > Len(s))
  <2>1. t = [s EXCEPT ![k + 1] = m] /\ k + 1 \in 1..Len(s)
    BY <1>2
  <2>2. Len(t) = Len(s) /\ \A i \in 1..Len(s) : t[i] = IF i = k + 1 THEN m ELSE s[i]
    BY <2>1
  <2> QED
    BY <2>1, <2>2
<1> QED
  BY <1>1, <1>2

LEMMA ListedStep ==
  ASSUME GInv, LInv, NEW p \in Proc, ListPlane(p)
  PROVE  RowsStay /\ KeysDiffer' /\ Score(p)' /\ Shown(p)'
<1> DEFINE m == [got[p] EXCEPT !.val = Moved(@, now[p])]
           k == count[p]
<1>1. /\ UNCHANGED <<rows, pos, pc, planes_count, crashed, landed>>
      /\ got' = [got EXCEPT ![p] = None] /\ got[p] # None /\ pc[p] = "scan"
      /\ got[p].val.status = "flying"
  BY DEF ListPlane, Tbl!Consume
<1>2. /\ got \in [Proc -> Tbl!Datum \cup {None}] /\ view \in [Proc -> Seq(Tbl!Datum)]
      /\ count \in [Proc -> 0..MAX_PLANES] /\ MAX_PLANES \in Nat
  BY ListAssumption DEF GInv, TypeOK, Tbl!TypeOK
<1>3. /\ pc[p] \in ScanPC /\ pc'[p] \in ScanPC /\ got'[p] = None
      /\ Pending(p) = 1 /\ Pending(p)' = 0
  BY <1>1, <1>2 DEF ScanPC, Pending
<1>4. /\ pos[p] \in 0..Len(rows) /\ Len(rows) \in Nat
      /\ count[p] + crashed[p] + landed[p] + 1 <= pos[p]
  BY <1>3, Numbers DEF LInv, Score
<1>5. /\ k <= Len(view[p])
      /\ \A i, j \in 1..k : view[p][i].key = view[p][j].key => i = j
      /\ \A i \in 1..k : \E r \in 1..(pos[p] - 1) : rows[r].key = view[p][i].key
      /\ rows[pos[p]].key = got[p].key
  BY <1>1, <1>3 DEF LInv, Shown, Distinct
<1>6. m \in Tbl!Datum /\ m.key = got[p].key
  <2> DEFINE g == got[p]
             v == Moved(g.val, now[p])
  <2>1. Sound(g)
    BY <1>1 DEF GInv, TableOK, GotSound
  <2>2. g.key \in Key /\ g.val \in Airborne /\ g.key # EmptyKey
    BY <1>1, <2>1, SoundFields, IdAssumption
  <2>3. now[p] \in Int
    BY GameBoundAssumption DEF GInv, TypeOK
  <2>4. ~ComesDown(g.val, now[p])
    BY DEF ListPlane
  <2>5. v \in FlightData
    BY <2>2, <2>3, <2>4, MovedStaysOnMap, AirborneIsFlightData
  <2>6. g \in [key : Key \cup {EmptyKey}, val : FlightData, down : BOOLEAN]
    BY <2>1 DEF Sound, Tbl!Datum
  <2>7. m = [g EXCEPT !.val = v]
    OBVIOUS
  <2> HIDE DEF m, g, v
  <2>8. m \in [key : Key \cup {EmptyKey}, val : FlightData, down : BOOLEAN] /\ m.key = g.key
    BY <2>5, <2>6, <2>7
  <2> QED
    BY <2>2, <2>8 DEF Tbl!Datum, g
<1>7. RowsStay /\ KeysDiffer'
  BY <1>1, SameRowsStay DEF LInv
<1> HIDE DEF m
<1>8. CASE k < MAX_PLANES
  <2> DEFINE w == IF k + 1 > Len(view[p]) THEN Append(view[p], m)
                  ELSE [view[p] EXCEPT ![k + 1] = m]
  <2>1. count' = [count EXCEPT ![p] = k + 1] /\ view' = [view EXCEPT ![p] = w]
    BY <1>8 DEF ListPlane, m
  <2>2. count'[p] = k + 1 /\ view'[p] = w /\ k \in Nat /\ view[p] \in Seq(Tbl!Datum)
    <3> HIDE DEF w, k
    <3>1. count'[p] = k + 1 /\ view'[p] = w
      BY <1>2, <2>1
    <3> QED
      BY <1>2, <3>1 DEF k
  <2>3. /\ k + 1 <= Len(w) /\ w[k + 1] = m
        /\ \A i \in 1..k : w[i] = view[p][i]
    <3> HIDE DEF k
    <3> QED
      BY <1>5, <1>6, <2>2, Slots
  <2> HIDE DEF w
  <2>4. Score(p)'
    BY <1>1, <1>3, <1>4, <2>2, Numbers, SMTT(30) DEF Score
  <2>5. \A i \in 1..(k + 1) : i \in 1..k \/ i = k + 1
    BY <2>2
  <2>6. pos[p] \in 1..Len(rows)
    BY <1>4, Numbers
  <2>7. \A i \in 1..k : w[i].key # m.key
    <3> SUFFICES ASSUME NEW i \in 1..k PROVE w[i].key # m.key
      OBVIOUS
    <3>1. PICK r \in 1..(pos[p] - 1) : rows[r].key = w[i].key
      BY <1>5, <2>3
    <3>2. r \in 1..Len(rows) /\ r # pos[p]
      BY <1>4, <2>6, <3>1
    <3>3. rows[r].key # rows[pos[p]].key
      BY <2>6, <3>2 DEF LInv, KeysDiffer
    <3> QED
      BY <1>5, <1>6, <3>1, <3>3
  <2>8. \A i, j \in 1..(k + 1) : w[i].key = w[j].key => i = j
    BY <1>5, <2>3, <2>5, <2>7
  <2>9. \A i \in 1..(k + 1) : \E r \in 1..(pos[p] - 0) : rows[r].key = w[i].key
    <3>1. 1..(pos[p] - 1) \subseteq 1..(pos[p] - 0) /\ pos[p] \in 1..(pos[p] - 0)
      BY <2>6, <1>4
    <3>2. rows[pos[p]].key = w[k + 1].key
      BY <1>5, <1>6, <2>3
    <3>3. \A i \in 1..k : \E r \in 1..(pos[p] - 1) : rows[r].key = w[i].key
      BY <1>5, <2>3
    <3> QED
      BY <2>5, <3>1, <3>2, <3>3
  <2>10. Shown(p)'
    BY <1>1, <1>3, <2>2, <2>3, <2>8, <2>9 DEF Shown, Distinct
  <2> QED
    BY <1>7, <2>4, <2>10
<1>9. CASE ~(k < MAX_PLANES)
  <2>1. UNCHANGED <<count, view>>
    BY <1>9 DEF ListPlane
  <2>2. Score(p)'
    BY <1>1, <1>3, <1>4, <2>1, Numbers DEF Score
  <2>3. 1..(pos[p] - 1) \subseteq 1..(pos[p] - 0)
    BY <1>4
  <2>4. Shown(p)'
    BY <1>1, <1>3, <1>5, <2>1, <2>3 DEF Shown, Distinct
  <2> QED
    BY <1>7, <2>2, <2>4
<1> QED
  BY <1>8, <1>9

(* The end of a scan, and of a player. *)
LEMMA EndStep ==
  ASSUME GInv, LInv, NEW p \in Proc, EndScan(p) \/ Quit(p)
  PROVE  RowsStay /\ KeysDiffer' /\ Score(p)' /\ Shown(p)'
<1>1. /\ pc \in [Proc -> PC] /\ planes_count \in [Proc -> 0..MAX_PLANES]
      /\ crashed \in [Proc -> Nat] /\ landed \in [Proc -> Nat]
      /\ view \in [Proc -> Seq(Tbl!Datum)]
  BY DEF GInv, TypeOK
<1>2. CASE EndScan(p)
  <2>1. /\ UNCHANGED <<rows, got, view, crashed, landed>>
        /\ planes_count' = [planes_count EXCEPT ![p] = count[p]]
        /\ pc[p] = "scan" /\ got[p] = None /\ pos[p] = Len(rows)
        /\ \E l \in {"tick", "input"} : pc' = [pc EXCEPT ![p] = l]
    BY <1>2 DEF EndScan, Tbl!EndScan, Goto
  <2>2. /\ pc[p] \in ScanPC /\ pc'[p] \notin ScanPC /\ planes_count'[p] = count[p]
        /\ Pending(p) = 0
    BY <1>1, <2>1 DEF ScanPC, Pending
  <2>3. count[p] + crashed[p] + landed[p] + 0 <= Len(rows) /\ Distinct(p, count[p])
    BY <2>1, <2>2 DEF LInv, Score, Shown
  <2>4. Score(p)'
    BY <2>1, <2>2, <2>3, Numbers DEF Score
  <2>5. Shown(p)'
    BY <2>1, <2>2, <2>3 DEF Shown, Distinct
  <2>6. RowsStay /\ KeysDiffer'
    BY <2>1, SameRowsStay DEF LInv
  <2> QED
    BY <2>4, <2>5, <2>6
<1>3. CASE Quit(p)
  <2>1. /\ UNCHANGED <<rows, got>> /\ pc[p] \in {"input", "update"}
        /\ pc' = [pc EXCEPT ![p] = "start"] /\ view' = [view EXCEPT ![p] = << >>]
        /\ planes_count' = [planes_count EXCEPT ![p] = 0]
        /\ crashed' = [crashed EXCEPT ![p] = 0] /\ landed' = [landed EXCEPT ![p] = 0]
    BY <1>3 DEF Quit, Goto, table
  <2>2. /\ pc[p] \notin ScanPC /\ pc'[p] \notin ScanPC /\ view'[p] = << >>
        /\ planes_count'[p] = 0 /\ crashed'[p] = 0 /\ landed'[p] = 0
    BY <1>1, <2>1 DEF ScanPC
  <2>3. got[p] = None
    BY <2>2 DEF LInv, Score
  <2>4. Score(p)'
    BY <2>1, <2>2, <2>3, Numbers DEF Score
  <2>5. Shown(p)'
    BY <2>2 DEF Shown, Distinct
  <2>6. RowsStay /\ KeysDiffer'
    BY <2>1, SameRowsStay DEF LInv
  <2> QED
    BY <2>4, <2>5, <2>6
<1> QED
  BY <1>2, <1>3

-----------------------------------------------------------------------------
(* The induction                                                           *)

LEMMA InitLInv == Init => LInv
<1> SUFFICES ASSUME Init PROVE LInv
  OBVIOUS
<1>1. rows = << >> /\ KeysDiffer
  BY DEF Init, Tbl!Init, KeysDiffer
<1>2. ASSUME NEW p \in Proc PROVE Score(p) /\ Shown(p)
  <2>1. /\ pc[p] = "start" /\ got[p] = None /\ planes_count[p] = 0
        /\ crashed[p] = 0 /\ landed[p] = 0 /\ view[p] = << >>
    BY DEF Init, Tbl!Init
  <2> QED
    BY <1>1, <2>1 DEF Score, Shown, Distinct, ScanPC
<1> QED
  BY <1>1, <1>2 DEF LInv

LEMMA NextKeepsLInv == GInv /\ LInv /\ [Next]_vars => LInv'
<1> SUFFICES ASSUME GInv, LInv, [Next]_vars PROVE LInv'
  OBVIOUS
<1>1. ASSUME NEW p \in Proc, Start(p) \/ Input(p) \/ Step(p) \/ Quit(p)
      PROVE  LInv'
  <2>1. RowsStay /\ KeysDiffer' /\ Score(p)' /\ Shown(p)'
    BY <1>1, BesideStep, BeginStep, GetRowStep, DownStep, ListedStep, EndStep DEF Step
  <2>2. ASSUME NEW q \in Proc \ {p} PROVE Score(q)' /\ Shown(q)'
    <3>1. Same(q) /\ pc'[q] = pc[q]
      BY <1>1, OthersSame
    <3> QED
      BY <2>1, <3>1, Kept DEF LInv
  <2> QED
    BY <2>1, <2>2 DEF LInv
<1>2. CASE Tick \/ UNCHANGED vars
  <2>1. UNCHANGED <<table, local>>
    BY <1>2 DEF Tick, vars
  <2>2. UNCHANGED rows
    BY <2>1 DEF table
  <2>3. RowsStay /\ KeysDiffer'
    BY <2>2, SameRowsStay DEF LInv
  <2>4. ASSUME NEW q \in Proc PROVE Score(q)' /\ Shown(q)'
    <3>1. Same(q) /\ pc'[q] = pc[q]
      BY <2>1 DEF Same, table, local
    <3> QED
      BY <2>3, <3>1, Kept DEF LInv
  <2> QED
    BY <2>3, <2>4 DEF LInv
<1> QED
  BY <1>1, <1>2 DEF Next

THEOREM ListsInductive == Spec => []LInv
BY InitLInv, NextKeepsLInv, Inductive, PTL DEF Spec

-----------------------------------------------------------------------------
(* Theorems                                                                *)

(* A list shows no plane twice, whatever the others store while the table  *)
(* is read.                                                                *)
THEOREM ListsShowPlanesOnce == Spec => []ListedOnce
<1>1. LInv => ListedOnce
  BY DEF LInv, Shown, Distinct, ListedOnce, ScanPC
<1> QED
  BY <1>1, ListsInductive, PTL

(* A plane adds at most one to a player's planes and score. *)
THEOREM ScoresCountPlanesOnce == Spec => []NothingCountedTwice
<1>1. LInv => NothingCountedTwice
  BY DEF LInv, Score, NothingCountedTwice, ScanPC
<1> QED
  BY <1>1, ListsInductive, PTL

-----------------------------------------------------------------------------
(***************************************************************************)
(* How many planes are in the air.                                         *)
(***************************************************************************)

(* The rows that p's scan has still to judge, or to bring down. *)
Due(p) ==
  {i \in 1..Len(rows) : \/ pos[p] < i
                        \/ i = pos[p] /\ (got[p] # None \/ pc[p] = "store_down")}

(* p may put a plane in the air before it counts again, if no planes but   *)
(* those of R fly when it gets to them.                                    *)
Claims(p, R) ==
  \/ pc[p] \in {"store_new", "store_cmd"}
  \/ pc[p] \in {"start", "tick"} /\ planes_count[p] < MAX_PLANES
  \/ pc[p] \in ScanPC /\ count[p] + Cardinality(R \cap Due(p)) < MAX_PLANES

Claimants(R) == {p \in Proc : Claims(p, R)}

Cap == MAX_PLANES - 1 + Cardinality(Proc) + quits + given

(* Planes come down while others are looking: so it is said of every set   *)
(* of planes that may be left in the air.                                  *)
Capped(R) == Cardinality(R) + Cardinality(Claimants(R)) <= Cap

CapInv == \A R \in SUBSET InTheAir : Capped(R)

(* What a scan and its write-back hold. *)
Stage(p) ==
  /\ pc[p] \notin ScanPC => pos[p] = Tbl!NoScan
  /\ pc[p] = "store_down" => req[p] # None /\ req[p].down
  /\ got[p] # None => busy[p] /\ pc[p] = "scan"
  /\ got[p] # None /\ got[p].down => rows[pos[p]].data.down

StageInv == \A p \in Proc : Stage(p)

-----------------------------------------------------------------------------
(* Counting                                                                *)

LEMMA Finite ==
  ASSUME GInv
  PROVE  /\ IsFiniteSet(InTheAir)
         /\ \A R \in SUBSET InTheAir : IsFiniteSet(R) /\ Cardinality(R) \in Nat
<1>1. Len(rows) \in Nat
  BY DEF GInv, TypeOK, Tbl!TypeOK
<1>2. IsFiniteSet(1..Len(rows))
  BY <1>1, FS_Interval
<1>3. InTheAir \subseteq 1..Len(rows)
  BY DEF InTheAir
<1>4. IsFiniteSet(InTheAir)
  BY <1>2, <1>3, FS_Subset
<1> QED
  BY <1>4, FS_Subset, FS_CardinalityType

LEMMA Players ==
  /\ Cardinality(Proc) \in Nat /\ IsFiniteSet(Proc)
  /\ \A S \in SUBSET Proc : /\ IsFiniteSet(S) /\ Cardinality(S) \in Nat
                            /\ Cardinality(S) <= Cardinality(Proc)
BY PlayersAssumption, FS_Subset, FS_CardinalityType

LEMMA CapIsNat == GInv => Cap \in Nat /\ Cap >= MAX_PLANES - 1 + Cardinality(Proc)
BY Players, ListAssumption, GameBoundAssumption DEF GInv, TypeOK, Cap

LEMMA OneMore ==
  ASSUME NEW S, IsFiniteSet(S), NEW x
  PROVE  /\ IsFiniteSet(S \cup {x}) /\ Cardinality(S \cup {x}) \in Nat
         /\ Cardinality(S) \in Nat
         /\ Cardinality(S \cup {x}) <= Cardinality(S) + 1
         /\ x \notin S => Cardinality(S \cup {x}) = Cardinality(S) + 1
<1>1. /\ IsFiniteSet(S \cup {x})
      /\ Cardinality(S \cup {x}) = IF x \in S THEN Cardinality(S) ELSE Cardinality(S) + 1
  BY FS_AddElement
<1>2. Cardinality(S) \in Nat
  BY FS_CardinalityType
<1> QED
  BY <1>1, <1>2

-----------------------------------------------------------------------------
(* What sto_set does to the rows                                           *)

LEMMA StoredOne ==
  ASSUME GInv, NEW p \in Proc, Stored(p)
  PROVE  \E r \in 1..Len(rows') :
           /\ rows'[r].data = req[p]
           /\ pos[p] # Tbl!NoScan => r = pos[p]
           /\ \A j \in 1..Len(rows') : j # r => j \in 1..Len(rows) /\ rows'[j] = rows[j]
           /\ \A j \in 1..Len(rows) : j # r => j \in 1..Len(rows')
<1> DEFINE S == [key : Key, data : Tbl!Datum]
<1>1. rows \in Seq(S) /\ Len(rows) \in Nat
  BY DEF GInv, TypeOK, Tbl!TypeOK
<1>2. CASE Tbl!Overwrite(p)
  <2>1. PICK i \in 1..Len(rows) : /\ rows' = [rows EXCEPT ![i].data = req[p]]
                                  /\ pos[p] # Tbl!NoScan => i = pos[p]
    BY <1>2 DEF Tbl!Overwrite
  <2>2. rows[i] \in S
    <3> HIDE DEF S
    <3> QED
      BY <1>1, <2>1
  <2> DEFINE m == [rows[i] EXCEPT !.data = req[p]]
  <2>3. m.data = req[p] /\ rows' = [rows EXCEPT ![i] = m]
    BY <2>1, <2>2
  <2> HIDE DEF m, S
  <2>4. Len(rows') = Len(rows) /\ \A j \in 1..Len(rows) : rows'[j] = IF j = i THEN m ELSE rows[j]
    BY <1>1, <2>3
  <2> QED
    BY <2>1, <2>3, <2>4
<1>3. CASE Tbl!Insert(p)
  <2> DEFINE m == [key |-> req[p].key, data |-> req[p]]
             n == Len(rows) + 1
  <2>1. rows' = Append(rows, m) /\ pos[p] = Tbl!NoScan /\ m.data = req[p]
    BY <1>3 DEF Tbl!Insert
  <2> HIDE DEF m, S
  <2>2. /\ Len(rows') = n /\ rows'[n] = m
        /\ \A i \in 1..Len(rows) : rows'[i] = rows[i]
    BY <1>1, <2>1
  <2>3. n \in 1..n /\ \A j \in 1..n : j # n => j \in 1..Len(rows)
    BY <1>1
  <2>4. 1..Len(rows) \subseteq 1..n
    BY <1>1
  <2> HIDE DEF n
  <2> QED
    BY <2>1, <2>2, <2>3, <2>4
<1> QED
  BY <1>2, <1>3 DEF Stored

(* Where p's scan is, if it is at a row. *)
LEMMA AtRow ==
  ASSUME GInv, LInv, NEW p \in Proc, got[p] # None \/ pc[p] = "store_down", Stage(p)
  PROVE  pc[p] \in ScanPC /\ pos[p] # Tbl!NoScan /\ pos[p] \in 0..Len(rows)
         /\ (got[p] # None => pos[p] \in 1..Len(rows))
<1>1. pc[p] \in ScanPC
  BY DEF Stage, ScanPC
<1>2. /\ pos[p] \in 0..Len(rows)
      /\ count[p] + crashed[p] + landed[p] + Pending(p) <= pos[p]
  BY <1>1 DEF LInv, Score
<1> QED
  BY <1>1, <1>2, Numbers DEF Pending, Tbl!NoScan

(* A row that a scan was given as down stays down while it is judged: no   *)
(* other player stores but what came down.                                 *)
LEMMA StoredDown ==
  ASSUME GInv, LInv, StageInv, NEW p \in Proc, Stored(p),
         pc[p] \in {"store_new", "store_cmd", "store_down"},
         NEW q \in Proc, got[q] # None, got[q].down
  PROVE  rows'[pos[q]].data.down
<1>1. Stage(p) /\ Stage(q)
  BY DEF StageInv
<1>2. /\ q # p /\ busy[q] /\ pos[q] \in 1..Len(rows)
      /\ rows[pos[q]].data.down
  BY <1>1, AtRow DEF Stage
<1>3. pos[p] # Tbl!NoScan /\ req[p].down
  <2>1. Tbl!MayCommit(p)
    BY DEF Stored, Tbl!Overwrite, Tbl!Insert
  <2>2. pos[p] # Tbl!NoScan
    BY <1>2, <2>1 DEF Tbl!MayCommit
  <2> QED
    BY <1>1, <2>2 DEF Stage, ScanPC
<1>4. PICK r \in 1..Len(rows') :
           /\ rows'[r].data = req[p]
           /\ \A j \in 1..Len(rows') : j # r => j \in 1..Len(rows) /\ rows'[j] = rows[j]
           /\ \A j \in 1..Len(rows) : j # r => j \in 1..Len(rows')
  BY StoredOne
<1> QED
  BY <1>2, <1>3, <1>4

-----------------------------------------------------------------------------
(* The stages of a scan                                                    *)

LEMMA InitStage == Init => StageInv
BY DEF Init, Tbl!Init, StageInv, Stage, ScanPC

(* A step that leaves p's rows as they are. *)
LEMMA StageOthers ==
  ASSUME GInv, LInv, StageInv, NEW p \in Proc, Start(p) \/ Input(p) \/ Step(p) \/ Quit(p),
         NEW q \in Proc \ {p}
  PROVE  Stage(q)'
<1>1. Same(q) /\ pc'[q] = pc[q]
  BY OthersSame
<1>2. req'[q] = req[q] /\ busy'[q] = busy[q]
  <2>1. /\ req' = req \/ \E v : req' = [req EXCEPT ![p] = v]
        /\ busy' = busy \/ \E v : busy' = [busy EXCEPT ![p] = v]
    BY DEF Start, Input, Step, Quit, TickPlane, StoreNew, StoreCmd, BeginScan, GetLock,
           GetRow, ListPlane, BringDown, CountDown, StoreDown, LoseLock, EndScan,
           CreatePlane, Stored, Tbl!Request, Tbl!WriteBack, Tbl!StartScan, Tbl!Attach,
           Tbl!Detach, Tbl!EndScan, Tbl!Deliver, Tbl!Consume, Tbl!Overwrite,
           Tbl!Insert, table, local
  <2>2. req \in [Proc -> Tbl!Datum \cup {None}] /\ busy \in [Proc -> BOOLEAN]
    BY DEF GInv, TypeOK, Tbl!TypeOK
  <2> QED
    BY <2>1, <2>2
<1>3. got[q] # None /\ got[q].down => rows'[pos[q]].data.down
  <2>1. CASE StoreNew(p) \/ StoreCmd(p) \/ StoreDown(p)
    <3>1. Stored(p) /\ pc[p] \in {"store_new", "store_cmd", "store_down"}
      BY <2>1 DEF StoreNew, StoreCmd, StoreDown, Stored
    <3> QED
      BY <3>1, StoredDown
  <2>2. CASE rows' = rows
    BY <2>2 DEF StageInv, Stage
  <2> QED
    BY <2>1, <2>2 DEF Start, Input, Step, Quit, TickPlane, BeginScan, GetLock,
           GetRow, ListPlane, BringDown, CountDown, LoseLock, EndScan,
           CreatePlane, Tbl!Request, Tbl!WriteBack, Tbl!StartScan, Tbl!Attach,
           Tbl!Detach, Tbl!EndScan, Tbl!Deliver, Tbl!Consume, table
<1> QED
  BY <1>1, <1>2, <1>3 DEF StageInv, Stage, Same

LEMMA StageOwn ==
  ASSUME GInv, LInv, StageInv, NEW p \in Proc, Start(p) \/ Input(p) \/ Step(p) \/ Quit(p)
  PROVE  Stage(p)'
<1>1. /\ pos \in [Proc -> Nat \cup {Tbl!NoScan}] /\ got \in [Proc -> Tbl!Datum \cup {None}]
      /\ busy \in [Proc -> BOOLEAN] /\ req \in [Proc -> Tbl!Datum \cup {None}]
      /\ pc \in [Proc -> PC]
  BY DEF GInv, TypeOK, Tbl!TypeOK
<1>2. Stage(p) /\ (pc[p] \notin ScanPC => got[p] = None)
  BY DEF StageInv, LInv, Score
<1> USE <1>1, <1>2 DEF Stage, ScanPC, Goto
<1>3. CASE Start(p) \/ TickPlane(p) \/ Input(p) \/ Quit(p)
  BY <1>3 DEF Start, TickPlane, Input, Quit, CreatePlane, Tbl!Request, table
<1>4. CASE StoreNew(p) \/ StoreCmd(p) \/ StoreDown(p)
  BY <1>4 DEF StoreNew, StoreCmd, StoreDown, Stored, Tbl!Overwrite, Tbl!Insert
<1>5. CASE BeginScan(p)
  BY <1>5 DEF BeginScan, Tbl!StartScan
<1>6. CASE GetLock(p)
  BY <1>6 DEF GetLock, Tbl!Attach, local
<1>7. CASE GetRow(p)
  <2>1. /\ pc' = pc /\ rows' = rows /\ busy' = busy /\ busy[p] /\ pc[p] = "scan"
        /\ got' = [got EXCEPT ![p] = rows[pos[p] + 1].data]
        /\ pos' = [pos EXCEPT ![p] = pos[p] + 1]
    BY <1>7 DEF GetRow, Tbl!Deliver, local
  <2>2. got'[p] = rows[pos[p] + 1].data /\ pos'[p] = pos[p] + 1
    BY <2>1
  <2> QED
    BY <2>1, <2>2
<1>8. CASE ListPlane(p) \/ CountDown(p)
  BY <1>8 DEF ListPlane, CountDown, Tbl!Consume
<1>9. CASE BringDown(p)
  <2>1. /\ got[p] # None /\ got[p].val.status = "flying"
        /\ pc' = [pc EXCEPT ![p] = "store_down"]
    BY <1>9 DEF BringDown
  <2>2. PICK f \in Down(got[p].val) : Tbl!WriteBack(p, Plane(got[p].key, f))
    BY <1>9 DEF BringDown
  <2> DEFINE d == Plane(got[p].key, f)
  <2>3. /\ req' = [req EXCEPT ![p] = d] /\ got' = [got EXCEPT ![p] = None]
        /\ UNCHANGED <<pos, busy>> /\ d.down
    BY <2>2 DEF Tbl!WriteBack
  <2>4. d # None
    BY <2>1, FallenSound, SoundFields
  <2> HIDE DEF d
  <2> QED
    BY <2>1, <2>3, <2>4
<1>10. CASE LoseLock(p) \/ EndScan(p)
  BY <1>10 DEF LoseLock, EndScan, Tbl!Detach, Tbl!EndScan
<1> QED
  BY <1>3, <1>4, <1>5, <1>6, <1>7, <1>8, <1>9, <1>10 DEF Step

LEMMA NextKeepsStage == GInv /\ LInv /\ StageInv /\ [Next]_vars => StageInv'
<1> SUFFICES ASSUME GInv, LInv, StageInv, [Next]_vars PROVE StageInv'
  OBVIOUS
<1>1. ASSUME NEW p \in Proc, Start(p) \/ Input(p) \/ Step(p) \/ Quit(p)
      PROVE  StageInv'
  BY <1>1, StageOthers, StageOwn DEF StageInv
<1>2. CASE Tick \/ UNCHANGED vars
  BY <1>2 DEF Tick, vars, table, local, StageInv, Stage
<1> QED
  BY <1>1, <1>2 DEF Next

-----------------------------------------------------------------------------
(* Who may still put a plane in the air                                    *)

PlayerStep(p) == Start(p) \/ Input(p) \/ Step(p) \/ Quit(p)

LEMMA Claiming ==
  ASSUME NEW R
  PROVE  /\ Claimants(R) \subseteq Proc /\ Claimants(R)' \subseteq Proc
         /\ \A p \in Proc : p \in Claimants(R) <=> Claims(p, R)
         /\ \A p \in Proc : p \in Claimants(R)' <=> Claims(p, R)'
BY DEF Claimants

(* The more planes there are to see, the fewer players claim. *)
LEMMA MoreIsLess ==
  ASSUME GInv, NEW q \in Proc, NEW T, IsFiniteSet(T), NEW S \in SUBSET T
  PROVE  Cardinality(S) <= Cardinality(T) /\ Cardinality(S) \in Nat /\ Cardinality(T) \in Nat
BY FS_Subset, FS_CardinalityType

LEMMA OthersClaims ==
  ASSUME GInv, NEW p \in Proc, PlayerStep(p), NEW q \in Proc \ {p}, GInv',
         NEW R \in SUBSET InTheAir, NEW T, T \subseteq InTheAir', R \subseteq T,
         Claims(q, T)'
  PROVE  Claims(q, R)
<1>1. Same(q) /\ pc'[q] = pc[q]
  BY OthersSame DEF PlayerStep
<1> DEFINE D == R \cap Due(q)
           E == T \cap Due(q)'
<1>2. D \subseteq E
  BY <1>1 DEF Due, InTheAir, Same
<1>3. IsFiniteSet(T)
  <2>1. GInv' => IsFiniteSet(InTheAir)'
    BY Finite, PTL
  <2> QED
    BY <2>1, FS_Subset
<1>4. IsFiniteSet(E)
  BY <1>3, FS_Subset
<1> HIDE DEF D, E
<1>5. Cardinality(D) <= Cardinality(E) /\ Cardinality(D) \in Nat /\ Cardinality(E) \in Nat
  BY <1>2, <1>4, MoreIsLess
<1>6. count[q] \in Nat /\ MAX_PLANES \in Nat
  BY Numbers, ListAssumption
<1>7. count[q] + Cardinality(E) < MAX_PLANES => count[q] + Cardinality(D) < MAX_PLANES
  BY <1>5, <1>6
<1> QED
  BY <1>1, <1>7 DEF Claims, Same, D, E

(* A step of p that puts no plane in the air, and gives p no new claim. *)
LEMMA NoMore ==
  ASSUME GInv, GInv', CapInv, NEW p \in Proc, PlayerStep(p),
         InTheAir' \subseteq InTheAir, UNCHANGED <<quits, given>>,
         NEW R, R \subseteq InTheAir', Claims(p, R)' => Claims(p, R)
  PROVE  Capped(R)'
<1>1. R \in SUBSET InTheAir /\ R \subseteq R
  OBVIOUS
<1>2. \A q \in Proc : Claims(q, R)' => Claims(q, R)
  BY <1>1, OthersClaims
<1>3. Claimants(R)' \subseteq Claimants(R)
  BY <1>2, Claiming
<1>4. Cardinality(Claimants(R)') <= Cardinality(Claimants(R))
  BY <1>3, Claiming, Players, FS_Subset
<1>5. Capped(R) /\ Cap \in Nat /\ Cardinality(R) \in Nat
  BY <1>1, CapIsNat, Finite DEF CapInv
<1>6. Cardinality(Claimants(R)) \in Nat /\ Cardinality(Claimants(R)') \in Nat
  BY Claiming, Players
<1>7. Cap' = Cap
  BY DEF Cap
<1>8. Cardinality(R) + Cardinality(Claimants(R)') <= Cap'
  BY <1>4, <1>5, <1>6, <1>7 DEF Capped
<1> QED
  BY <1>8 DEF Capped

(* A step of p that puts a plane in the air, and takes p's claim. *)
LEMMA OnClaim ==
  ASSUME GInv, GInv', CapInv, NEW p \in Proc, PlayerStep(p),
         NEW r, InTheAir' \subseteq InTheAir \cup {r},
         UNCHANGED <<quits, given>>,
         \A R \in SUBSET InTheAir : Claims(p, R),
         \A R : ~Claims(p, R)'
  PROVE  CapInv'
<1> SUFFICES ASSUME NEW T, T \subseteq InTheAir'
             PROVE  Capped(T)'
  BY DEF CapInv
<1> DEFINE R == T \ {r}
<1>1. R \in SUBSET InTheAir /\ R \subseteq T /\ T \subseteq R \cup {r}
  OBVIOUS
<1> HIDE DEF R
<1>2. \A q \in Proc \ {p} : Claims(q, T)' => Claims(q, R)
  BY <1>1, OthersClaims
<1>3. p \in Claimants(R) /\ Claimants(T)' \subseteq Claimants(R) \ {p}
  BY <1>1, <1>2, Claiming
<1>4. /\ IsFiniteSet(Claimants(R)) /\ IsFiniteSet(Claimants(T)')
      /\ Cardinality(Claimants(R)) \in Nat /\ Cardinality(Claimants(T)') \in Nat
  BY Claiming, Players
<1>5. Cardinality(Claimants(T)') <= Cardinality(Claimants(R)) - 1
  <2>1. /\ IsFiniteSet(Claimants(R) \ {p})
        /\ Cardinality(Claimants(R) \ {p}) = Cardinality(Claimants(R)) - 1
    BY <1>3, <1>4, FS_RemoveElement
  <2> QED
    BY <1>3, <2>1, FS_Subset
<1>6. IsFiniteSet(R) /\ Cardinality(R) \in Nat /\ Capped(R) /\ Cap \in Nat
  BY <1>1, CapIsNat, Finite DEF CapInv
<1>7. Cardinality(T) <= Cardinality(R) + 1 /\ Cardinality(T) \in Nat
  <2>1. /\ IsFiniteSet(R \cup {r}) /\ Cardinality(R \cup {r}) \in Nat
        /\ Cardinality(R \cup {r}) <= Cardinality(R) + 1
    BY <1>6, OneMore
  <2>2. Cardinality(T) <= Cardinality(R \cup {r}) /\ Cardinality(T) \in Nat
    BY <1>1, <2>1, MoreIsLess
  <2> QED
    BY <1>6, <2>1, <2>2
<1>8. Cap' = Cap
  BY DEF Cap
<1>9. Cardinality(T) + Cardinality(Claimants(T)') <= Cap'
  BY <1>4, <1>5, <1>6, <1>7, <1>8 DEF Capped
<1> QED
  BY <1>9 DEF Capped

(* A step of p that raises the cap, and gives p a claim. *)
LEMMA NewClaim ==
  ASSUME GInv, GInv', CapInv, NEW p \in Proc, PlayerStep(p),
         InTheAir' = InTheAir, Cap' = Cap + 1
  PROVE  CapInv'
<1> SUFFICES ASSUME NEW R, R \subseteq InTheAir'
             PROVE  Capped(R)'
  BY DEF CapInv
<1>1. R \in SUBSET InTheAir /\ R \subseteq R
  OBVIOUS
<1>2. \A q \in Proc \ {p} : Claims(q, R)' => Claims(q, R)
  BY <1>1, OthersClaims
<1>3. Claimants(R)' \subseteq Claimants(R) \cup {p}
  BY <1>2, Claiming
<1>4. /\ IsFiniteSet(Claimants(R))
      /\ Cardinality(Claimants(R)) \in Nat /\ Cardinality(Claimants(R)') \in Nat
  BY Claiming, Players
<1>5. /\ IsFiniteSet(Claimants(R) \cup {p}) /\ Cardinality(Claimants(R) \cup {p}) \in Nat
      /\ Cardinality(Claimants(R) \cup {p}) <= Cardinality(Claimants(R)) + 1
  BY <1>4, OneMore
<1>6. Cardinality(Claimants(R)') <= Cardinality(Claimants(R) \cup {p})
  BY <1>3, <1>5, FS_Subset
<1>7. Capped(R) /\ Cap \in Nat /\ Cardinality(R) \in Nat
  BY <1>1, CapIsNat, Finite DEF CapInv
<1>8. Cardinality(R) + Cardinality(Claimants(R)') <= Cap'
  BY <1>4, <1>5, <1>6, <1>7 DEF Capped
<1> QED
  BY <1>8 DEF Capped

-----------------------------------------------------------------------------
(* The steps of a player                                                   *)

(* Before the loop, and where planes are made. *)
LEMMA CreateCap ==
  ASSUME GInv, GInv', CapInv, NEW p \in Proc, Start(p) \/ TickPlane(p)
  PROVE  CapInv'
<1> SUFFICES ASSUME NEW R, R \subseteq InTheAir'
             PROVE  Capped(R)'
  BY DEF CapInv
<1>1. /\ rows' = rows /\ UNCHANGED <<planes_count, quits, given>>
      /\ pc[p] \in {"start", "tick"} /\ PlayerStep(p)
      /\ \/ pc' = [pc EXCEPT ![p] = "input"]
         \/ pc' = [pc EXCEPT ![p] = "store_new"] /\ planes_count[p] # MAX_PLANES
  BY DEF Start, TickPlane, CreatePlane, Goto, Tbl!Request, table, PlayerStep, Step
<1>2. planes_count[p] # MAX_PLANES => planes_count[p] < MAX_PLANES
  <2>1. planes_count[p] \in 0..MAX_PLANES /\ MAX_PLANES \in Nat
    BY ListAssumption DEF GInv, TypeOK
  <2> QED
    BY <2>1
<1>3. pc \in [Proc -> PC]
  BY DEF GInv, TypeOK
<1>4. Claims(p, R)' => Claims(p, R)
  BY <1>1, <1>2, <1>3 DEF Claims, ScanPC
<1>5. InTheAir' = InTheAir
  BY <1>1 DEF InTheAir
<1> QED
  BY <1>1, <1>4, <1>5, NoMore

(* A plane that was made or commanded is stored. *)
LEMMA StoreCap ==
  ASSUME GInv, GInv', CapInv, NEW p \in Proc, StoreNew(p) \/ StoreCmd(p)
  PROVE  CapInv'
<1>1. /\ Stored(p) /\ UNCHANGED <<quits, given>> /\ PlayerStep(p)
      /\ pc[p] \in {"store_new", "store_cmd"}
      /\ \E l \in {"input", "update"} : pc' = [pc EXCEPT ![p] = l]
  BY DEF StoreNew, StoreCmd, Goto, PlayerStep, Step
<1>2. PICK r \in 1..Len(rows') :
        \A j \in 1..Len(rows') : j # r => j \in 1..Len(rows) /\ rows'[j] = rows[j]
  BY <1>1, StoredOne
<1>3. InTheAir' \subseteq InTheAir \cup {r}
  BY <1>2 DEF InTheAir
<1>4. pc \in [Proc -> PC]
  BY DEF GInv, TypeOK
<1>5. (\A R : Claims(p, R)) /\ (\A R : ~Claims(p, R)')
  BY <1>1, <1>4 DEF Claims, ScanPC
<1> QED
  BY <1>1, <1>3, <1>5, OnClaim

(* A command, or a player who starts again. *)
LEMMA RaiseCap ==
  ASSUME GInv, GInv', CapInv, NEW p \in Proc, Input(p) \/ Quit(p)
  PROVE  CapInv'
<1>1. rows' = rows
  BY DEF Input, Quit, Tbl!Request, table
<1>2. Cap' = Cap + 1
  <2>1. quits \in Nat /\ given \in Nat /\ Cardinality(Proc) \in Nat /\ MAX_PLANES \in Nat
    BY Players, ListAssumption, GameBoundAssumption DEF GInv, TypeOK
  <2>2. PICK a \in Nat, b \in Nat : quits' = a /\ given' = b /\ a + b = quits + given + 1
    <3>1. CASE Input(p)
      BY <2>1, <3>1 DEF Input
    <3>2. CASE Quit(p)
      BY <2>1, <3>2 DEF Quit
    <3> QED
      BY <3>1, <3>2
  <2> QED
    BY <2>1, <2>2 DEF Cap
<1>3. InTheAir' = InTheAir
  BY <1>1 DEF InTheAir
<1> QED
  BY <1>2, <1>3, NewClaim DEF PlayerStep

(* A scan that begins sees every plane there is: if the list has room for  *)
(* them, there are too few for all the players to reach the cap.           *)
LEMMA BeginCap ==
  ASSUME GInv, GInv', CapInv, NEW p \in Proc, BeginScan(p)
  PROVE  CapInv'
<1> SUFFICES ASSUME NEW R, R \subseteq InTheAir'
             PROVE  Capped(R)'
  BY DEF CapInv
<1>1. /\ rows' = rows /\ UNCHANGED <<quits, given>> /\ PlayerStep(p)
      /\ pos' = [pos EXCEPT ![p] = 0] /\ count' = [count EXCEPT ![p] = 0]
      /\ pc' = [pc EXCEPT ![p] = "scan"]
  BY DEF BeginScan, Goto, Tbl!StartScan, PlayerStep, Step
<1>2. InTheAir' = InTheAir
  BY <1>1 DEF InTheAir
<1>3. pc'[p] = "scan" /\ pos'[p] = 0 /\ count'[p] = 0
  BY <1>1 DEF GInv, TypeOK, Tbl!TypeOK
<1>4. R \cap Due(p)' = R
  <2>1. R \subseteq 1..Len(rows) /\ Len(rows) \in Nat
    BY <1>2, Numbers DEF InTheAir
  <2>2. \A i \in 1..Len(rows) : 0 < i
    BY <2>1
  <2> QED
    BY <1>1, <1>3, <2>1, <2>2 DEF Due
<1>5. Cardinality(R) \in Nat /\ MAX_PLANES \in Nat
  BY <1>2, Finite, ListAssumption
<1>6. CASE Cardinality(R) < MAX_PLANES
  <2>1. Cardinality(Claimants(R)') <= Cardinality(Proc) /\ Cardinality(Claimants(R)') \in Nat
    BY Claiming, Players
  <2>2. Cap' = Cap /\ Cap \in Nat /\ Cap >= MAX_PLANES - 1 + Cardinality(Proc)
    BY <1>1, CapIsNat DEF Cap
  <2>3. Cardinality(R) + Cardinality(Claimants(R)') <= Cap'
    BY <1>5, <1>6, <2>1, <2>2, Players
  <2> QED
    BY <2>3 DEF Capped
<1>7. CASE ~(Cardinality(R) < MAX_PLANES)
  <2> DEFINE E == R \cap Due(p)'
  <2>1. ~Claims(p, R)'
    <3>1. E = R
      BY <1>4
    <3> HIDE DEF E
    <3>2. ~(count'[p] + Cardinality(E) < MAX_PLANES)
      BY <1>3, <1>5, <1>7, <3>1
    <3> QED
      BY <1>3, <3>2 DEF Claims, ScanPC, E
  <2> QED
    BY <1>1, <1>2, <2>1, NoMore
<1> QED
  BY <1>6, <1>7

(* A scan goes on: what it has listed and what is due do not become less, *)
(* except by planes that are no longer in the air.                         *)
LEMMA OwnClaim ==
  ASSUME GInv, NEW p \in Proc, NEW R, R \subseteq InTheAir',
         InTheAir' \subseteq InTheAir,
         pc[p] \in ScanPC, pc'[p] \in ScanPC,
         \/ count'[p] = count[p] /\ R \cap Due(p) \subseteq Due(p)'
         \/ /\ count'[p] = count[p] + 1 \/ (count'[p] = count[p] /\ count[p] >= MAX_PLANES)
            /\ \E i : R \cap Due(p) \subseteq Due(p)' \cup {i}
  PROVE  Claims(p, R)' => Claims(p, R)
<1> DEFINE D == R \cap Due(p)
           E == R \cap Due(p)'
<1>1. IsFiniteSet(R)
  BY Finite
<1>2. IsFiniteSet(E) /\ IsFiniteSet(D)
  BY <1>1, FS_Subset
<1>3. Cardinality(D) \in Nat /\ Cardinality(E) \in Nat
  BY <1>2, FS_CardinalityType
<1>4. count[p] \in Nat /\ MAX_PLANES \in Nat
  BY Numbers, ListAssumption
<1>5. CASE count'[p] = count[p] /\ D \subseteq Due(p)'
  <2>1. D \subseteq E
    BY <1>5
  <2> HIDE DEF D, E
  <2>2. Cardinality(D) <= Cardinality(E)
    BY <1>2, <2>1, FS_Subset
  <2>3. count'[p] + Cardinality(E) < MAX_PLANES => count[p] + Cardinality(D) < MAX_PLANES
    BY <1>3, <1>4, <1>5, <2>2
  <2> QED
    BY <2>3 DEF Claims, ScanPC, D, E
<1>6. CASE /\ count'[p] = count[p] + 1 \/ (count'[p] = count[p] /\ count[p] >= MAX_PLANES)
           /\ \E i : D \subseteq Due(p)' \cup {i}
  <2>1. PICK i : D \subseteq E \cup {i}
    BY <1>6
  <2> HIDE DEF D, E
  <2>2. /\ IsFiniteSet(E \cup {i}) /\ Cardinality(E \cup {i}) \in Nat
        /\ Cardinality(E \cup {i}) <= Cardinality(E) + 1
    BY <1>2, OneMore
  <2>3. Cardinality(D) <= Cardinality(E \cup {i})
    BY <2>1, <2>2, FS_Subset
  <2>4. count'[p] + Cardinality(E) < MAX_PLANES => count[p] + Cardinality(D) < MAX_PLANES
    BY <1>3, <1>4, <1>6, <2>2, <2>3
  <2> QED
    BY <2>4 DEF Claims, ScanPC, D, E
<1> QED
  BY <1>5, <1>6

LEMMA ScanCap ==
  ASSUME GInv, GInv', LInv, StageInv, CapInv, NEW p \in Proc,
         \/ GetLock(p) \/ GetRow(p) \/ ListPlane(p) \/ BringDown(p) \/ CountDown(p)
         \/ LoseLock(p)
  PROVE  CapInv'
<1> SUFFICES ASSUME NEW R, R \subseteq InTheAir'
             PROVE  Capped(R)'
  BY DEF CapInv
<1>1. /\ rows' = rows /\ UNCHANGED <<quits, given>> /\ PlayerStep(p)
  BY DEF GetLock, GetRow, ListPlane, BringDown, CountDown, LoseLock, local, Tbl!Attach,
         Tbl!Deliver, Tbl!Consume, Tbl!WriteBack, Tbl!Detach, PlayerStep, Step
<1>2. InTheAir' = InTheAir
  BY <1>1 DEF InTheAir
<1>3. /\ pos \in [Proc -> Nat \cup {Tbl!NoScan}] /\ got \in [Proc -> Tbl!Datum \cup {None}]
      /\ pc \in [Proc -> PC] /\ count \in [Proc -> 0..MAX_PLANES]
      /\ MAX_PLANES \in Nat /\ Len(rows) \in Nat
  BY ListAssumption, Numbers DEF GInv, TypeOK, Tbl!TypeOK
<1>4. pc[p] \in ScanPC /\ pc'[p] \in ScanPC
  BY <1>3 DEF GetLock, GetRow, ListPlane, BringDown, CountDown, LoseLock, local, Goto, ScanPC
<1>5. pos[p] \in Nat
  BY <1>4 DEF LInv, Score
<1> DEFINE NoLess ==
             \/ count'[p] = count[p] /\ R \cap Due(p) \subseteq Due(p)'
             \/ /\ count'[p] = count[p] + 1 \/ (count'[p] = count[p] /\ count[p] >= MAX_PLANES)
                /\ \E i : R \cap Due(p) \subseteq Due(p)' \cup {i}
<1>6. NoLess
  <2>1. CASE GetLock(p) \/ LoseLock(p)
    <3>1. /\ UNCHANGED <<rows, pos, got, count>>
          /\ pc' = pc \/ (pc[p] = "close" /\ pc' = [pc EXCEPT ![p] = "scan"])
      BY <2>1 DEF GetLock, LoseLock, local, Tbl!Attach, Tbl!Detach, Goto
    <3> QED
      BY <1>3, <3>1 DEF Due
  <2>2. CASE GetRow(p)
    <3>1. /\ UNCHANGED <<rows, count, pc>> /\ pc[p] = "scan" /\ got[p] = None
          /\ got' = [got EXCEPT ![p] = rows[pos[p] + 1].data]
          /\ pos' = [pos EXCEPT ![p] = pos[p] + 1] /\ pos[p] < Len(rows)
      BY <2>2 DEF GetRow, local, Tbl!Deliver
    <3>2. pos[p] + 1 \in 1..Len(rows)
      BY <1>3, <1>5, <3>1
    <3>3. rows[pos[p] + 1].data # None
      BY <3>2, SoundFields DEF GInv, TableOK, RowsSound
    <3>4. pos'[p] = pos[p] + 1 /\ got'[p] # None
      BY <1>3, <3>1, <3>3
    <3>5. Due(p) \subseteq Due(p)'
      BY <1>3, <1>5, <3>1, <3>4 DEF Due
    <3> QED
      BY <3>1, <3>5
  <2>3. CASE ListPlane(p)
    <3>1. /\ UNCHANGED <<rows, pos, pc>> /\ got' = [got EXCEPT ![p] = None]
          /\ \/ count' = [count EXCEPT ![p] = count[p] + 1]
             \/ count' = count /\ ~(count[p] < MAX_PLANES)
      BY <2>3 DEF ListPlane, Tbl!Consume
    <3>2. Due(p) \subseteq Due(p)' \cup {pos[p]}
      BY <1>3, <1>5, <3>1 DEF Due
    <3>3. \E i : R \cap Due(p) \subseteq Due(p)' \cup {i}
      BY <3>2
    <3>4. count'[p] = count[p] + 1 \/ (count'[p] = count[p] /\ count[p] >= MAX_PLANES)
      BY <1>3, <3>1
    <3> QED
      BY <3>3, <3>4
  <2>4. CASE BringDown(p)
    <3>1. /\ UNCHANGED <<rows, pos, count>> /\ pc' = [pc EXCEPT ![p] = "store_down"]
      BY <2>4 DEF BringDown, Tbl!WriteBack, Goto
    <3>2. Due(p) \subseteq Due(p)'
      BY <1>3, <1>5, <3>1 DEF Due
    <3> QED
      BY <3>1, <3>2
  <2>5. CASE CountDown(p)
    <3>1. /\ UNCHANGED <<rows, pos, count, pc>> /\ got' = [got EXCEPT ![p] = None]
          /\ got[p] # None /\ got[p].val.status # "flying"
      BY <2>5 DEF CountDown, Tbl!Consume
    <3>2. got[p].down
      BY <3>1 DEF GInv, TableOK, GotSound, Sound
    <3>3. rows[pos[p]].data.down
      BY <3>1, <3>2 DEF StageInv, Stage
    <3>4. pos[p] \notin R
      BY <1>2, <3>3 DEF InTheAir
    <3>5. R \cap Due(p) \subseteq Due(p)'
      BY <1>3, <1>5, <3>1, <3>4 DEF Due
    <3> QED
      BY <3>1, <3>5
  <2> HIDE DEF NoLess
  <2> QED
    BY <2>1, <2>2, <2>3, <2>4, <2>5
<1>7. Claims(p, R)' => Claims(p, R)
  BY <1>2, <1>4, <1>6, OwnClaim
<1> QED
  BY <1>1, <1>2, <1>7, NoMore

(* What came down is stored: it is not in the air, and not due. *)
LEMMA DownCap ==
  ASSUME GInv, GInv', LInv, StageInv, CapInv, NEW p \in Proc, StoreDown(p)
  PROVE  CapInv'
<1> SUFFICES ASSUME NEW R, R \subseteq InTheAir'
             PROVE  Capped(R)'
  BY DEF CapInv
<1>1. /\ UNCHANGED <<pos, got, count, quits, given>> /\ PlayerStep(p) /\ Stored(p)
      /\ pc[p] = "store_down" /\ pc' = [pc EXCEPT ![p] = "close"]
  BY DEF StoreDown, Stored, Tbl!Overwrite, Goto, PlayerStep, Step
<1>2. pos[p] # Tbl!NoScan /\ req[p].down
  BY <1>1, AtRow DEF StageInv, Stage
<1>3. PICK r \in 1..Len(rows') :
           /\ rows'[r].data = req[p] /\ r = pos[p]
           /\ \A j \in 1..Len(rows') : j # r => j \in 1..Len(rows) /\ rows'[j] = rows[j]
  BY <1>1, <1>2, StoredOne
<1>4. InTheAir' \subseteq InTheAir /\ pos[p] \notin R
  BY <1>2, <1>3 DEF InTheAir
<1>5. pc[p] \in ScanPC /\ pc'[p] \in ScanPC /\ count'[p] = count[p]
  BY <1>1 DEF GInv, TypeOK, ScanPC
<1>6. R \cap Due(p) \subseteq Due(p)'
  BY <1>1, <1>4 DEF Due, InTheAir
<1>7. Claims(p, R)' => Claims(p, R)
  BY <1>4, <1>5, <1>6, OwnClaim
<1> QED
  BY <1>1, <1>4, <1>7, NoMore

(* A scan that ends has judged every row. *)
LEMMA EndCap ==
  ASSUME GInv, GInv', CapInv, NEW p \in Proc, EndScan(p)
  PROVE  CapInv'
<1> SUFFICES ASSUME NEW R, R \subseteq InTheAir'
             PROVE  Capped(R)'
  BY DEF CapInv
<1>1. /\ rows' = rows /\ UNCHANGED <<quits, given>> /\ PlayerStep(p)
      /\ planes_count' = [planes_count EXCEPT ![p] = count[p]]
      /\ pc[p] = "scan" /\ got[p] = None /\ pos[p] = Len(rows)
      /\ \E l \in {"tick", "input"} : pc' = [pc EXCEPT ![p] = l]
  BY DEF EndScan, Tbl!EndScan, Goto, PlayerStep, Step
<1>2. InTheAir' = InTheAir
  BY <1>1 DEF InTheAir
<1>3. Len(rows) \in Nat /\ count[p] \in Nat
  BY Numbers
<1>4. R \cap Due(p) = {}
  BY <1>1, <1>3 DEF Due
<1> DEFINE D == R \cap Due(p)
<1>5. count[p] + Cardinality(D) = count[p]
  <2>1. Cardinality({}) = 0
    BY FS_EmptySet
  <2>2. D = {}
    BY <1>4
  <2> HIDE DEF D
  <2> QED
    BY <1>3, <2>1, <2>2
<1>6. planes_count'[p] = count[p] /\ pc'[p] \in {"tick", "input"}
  BY <1>1 DEF GInv, TypeOK
<1>7. Claims(p, R)' => Claims(p, R)
  BY <1>1, <1>5, <1>6 DEF Claims, ScanPC
<1> QED
  BY <1>1, <1>2, <1>7, NoMore

-----------------------------------------------------------------------------
(* The induction                                                           *)

LEMMA InitCap == Init => CapInv
<1> SUFFICES ASSUME Init, NEW R, R \subseteq InTheAir PROVE Capped(R)
  BY DEF CapInv
<1>1. R = {}
  BY DEF Init, Tbl!Init, InTheAir
<1>2. Cardinality(R) = 0
  BY <1>1, FS_EmptySet
<1>3. Cardinality(Claimants(R)) <= Cardinality(Proc) /\ Cardinality(Claimants(R)) \in Nat
  BY Claiming, Players
<1>4. Cap \in Nat /\ Cap >= MAX_PLANES - 1 + Cardinality(Proc)
  BY InitGInv, CapIsNat
<1> QED
  BY <1>2, <1>3, <1>4, Players, ListAssumption DEF Capped

LEMMA NextKeepsCap ==
  GInv /\ GInv' /\ LInv /\ StageInv /\ CapInv /\ [Next]_vars => CapInv'
<1> SUFFICES ASSUME GInv, GInv', LInv, StageInv, CapInv, [Next]_vars PROVE CapInv'
  OBVIOUS
<1>1. ASSUME NEW p \in Proc, Start(p) \/ Input(p) \/ Step(p) \/ Quit(p)
      PROVE  CapInv'
  BY <1>1, CreateCap, StoreCap, RaiseCap, BeginCap, ScanCap, DownCap, EndCap DEF Step
<1>2. CASE Tick \/ UNCHANGED vars
  <2>1. UNCHANGED <<rows, req, pos, got, pc, count, planes_count, quits, given>>
    BY <1>2 DEF Tick, vars, table, local
  <2>2. InTheAir' = InTheAir /\ Cap' = Cap
    BY <2>1 DEF InTheAir, Cap
  <2>3. \A p : Due(p)' = Due(p)
    BY <2>1 DEF Due
  <2>4. \A p, R : Claims(p, R)' <=> Claims(p, R)
    BY <2>1, <2>3 DEF Claims
  <2>5. \A R : Claimants(R)' = Claimants(R)
    BY <2>4 DEF Claimants
  <2> QED
    BY <2>2, <2>5 DEF CapInv, Capped
<1> QED
  BY <1>1, <1>2 DEF Next

THEOREM CapInductive == Spec => [](StageInv /\ CapInv)
<1>1. Init => StageInv /\ CapInv
  BY InitStage, InitCap
<1>2. GInv /\ GInv' /\ LInv /\ (StageInv /\ CapInv) /\ [Next]_vars => (StageInv /\ CapInv)'
  BY NextKeepsStage, NextKeepsCap
<1> QED
  BY <1>1, <1>2, Inductive, ListsInductive, PTL DEF Spec

(* The planes in the air exceed MAX_PLANES by no more than what players    *)
(* who do not see each other's planes, start again, or command from a      *)
(* stale list can put up.                                                  *)
THEOREM TrafficIsCapped == Spec => []TrafficCap
<1>1. GInv /\ CapInv => TrafficCap
  <2> SUFFICES ASSUME GInv, CapInv PROVE TrafficCap
    OBVIOUS
  <2>1. Capped(InTheAir) /\ Cardinality(InTheAir) \in Nat
    BY Finite DEF CapInv
  <2>2. Cardinality(Claimants(InTheAir)) \in Nat
    BY Claiming, Players
  <2>3. Cardinality(InTheAir) <= Cap
    BY <2>1, <2>2, CapIsNat DEF Capped
  <2> QED
    BY <2>3 DEF TrafficCap, Cap
<1> QED
  BY <1>1, Inductive, CapInductive, PTL

-----------------------------------------------------------------------------
(***************************************************************************)
(* One player: what comes down was descending.  The player's scan is never *)
(* older than a plane that it reads, as only the player stores planes.     *)
(***************************************************************************)

Solo == \A p, q \in Proc : p = q

(* A plane in the air is of a time before t. *)
Dated(d, t) == ~d.down => d.val.time <= t

(* A plane that came down was descending. *)
Sank(d) == d.down /\ d.key # EmptyKey => d.val.elevation < 0

SoloInv ==
  /\ \A i \in 1..Len(rows) : Dated(rows[i].data, clock) /\ Sank(rows[i].data)
  /\ \A p \in Proc :
       /\ req[p] # None => Dated(req[p], clock) /\ Sank(req[p])
       /\ got[p] # None => Dated(got[p], now[p])
       /\ pc[p] \in ScanPC => \A i \in 1..Len(rows) : Dated(rows[i].data, now[p])

-----------------------------------------------------------------------------
(* Flights                                                                 *)

(* Nothing falls out of level flight or a climb. *)
LEMMA FallsDescending ==
  \A f \in Airborne, t \in Int : f.time <= t /\ ComesDown(f, t) => f.elevation < 0
<1> SUFFICES ASSUME NEW f \in Airborne, NEW t \in Int, f.time <= t, ~(f.elevation < 0)
             PROVE  ~ComesDown(f, t)
  BY DEF Airborne, Elevation
<1>1. /\ f.elevation \in Elevation /\ f.speed \in Speed /\ f.z \in Nat /\ f.time \in Int
  BY DEF Airborne
<1>2. Cos(f.elevation) \in Nat
  BY <1>1 DEF Cos, Elevation
<1>3. f.speed \in Nat /\ t - f.time \in Nat
  BY <1>1 DEF Speed
<1>4. \A a, b \in Nat : a * b \in Nat
  OBVIOUS
<1> DEFINE c == Cos(f.elevation) * f.speed
           d == c * (t - f.time)
<1>5. d \in Nat
  <2>1. c \in Nat
    BY <1>2, <1>3, <1>4
  <2> HIDE DEF c
  <2> QED
    BY <1>3, <1>4, <2>1
<1> HIDE DEF d
<1>6. d + 10000 * f.z \in Nat
  BY <1>1, <1>5
<1>7. Trunc(d + 10000 * f.z) \in Nat
  BY <1>6 DEF Trunc
<1>8. Altitude(f, t) = Trunc(d + 10000 * f.z)
  BY DEF Altitude, Travel, d, c
<1> QED
  BY <1>7, <1>8 DEF ComesDown

(* What a command stores is of the present. *)
LEMMA CommandedNow ==
  \A f \in Airborne, t \in Int, cmd \in Command :
    \A g \in Commanded(cmd, f, t) : g.time = t
<1> SUFFICES ASSUME NEW f \in Airborne, NEW t \in Int, NEW cmd \in Command,
                    NEW g \in Commanded(cmd, f, t)
             PROVE  g.time = t
  OBVIOUS
<1> DEFINE f1 == [f EXCEPT !.time = t]
           f2 == Moved(f1, t)
<1>1. f1 \in Airborne /\ f1 \in FlightData /\ f \in FlightData /\ f1.time = t
  BY AirborneIsFlightData DEF Airborne
<1>2. ~ComesDown(f1, t)
  BY <1>1, NoTimeNoFall
<1>3. f2 \in Airborne
  BY <1>1, <1>2, MovedStaysOnMap
<1>4. g = Steer(cmd, f2)
  BY <1>2 DEF Commanded
<1>5. f2.time = t
  <2> HIDE DEF f1
  <2> QED
    BY <1>1 DEF Moved, Airborne
<1> HIDE DEF f1, f2
<1>6. g.time = f2.time
  BY <1>3, <1>4 DEF Steer, Airborne, Command
<1> QED
  BY <1>5, <1>6

-----------------------------------------------------------------------------
(* What is stored                                                          *)

LEMMA NewPlaneDated ==
  ASSUME GInv
  PROVE  Dated(NewPlane, clock) /\ Sank(NewPlane) /\ NewPlane # None
<1> DEFINE f == [Roll[clock].flight EXCEPT !.time = clock]
<1>1. clock \in 0..MaxTime /\ clock \in Int
  BY GameBoundAssumption DEF GInv, TypeOK
<1>2. Roll[clock].flight \in Airborne
  BY <1>1, RollAssumption
<1>3. f.time = clock /\ f.status = "flying"
  BY <1>2 DEF Airborne
<1> HIDE DEF f
<1>4. NewPlane.val = f /\ ~NewPlane.down
  BY <1>3 DEF NewPlane, Plane, f
<1>5. NewPlane # None
  BY <1>1, NewPlaneSound, SoundFields
<1> QED
  BY <1>1, <1>3, <1>4, <1>5 DEF Dated, Sank

LEMMA CommandDated ==
  ASSUME GInv, NEW p \in Proc, NEW i \in Selectable(p), NEW cmd \in Commands,
         NEW f \in Commanded(cmd, Slot(p, i).val, clock)
  PROVE  Dated(Plane(Slot(p, i).key, f), clock) /\ Sank(Plane(Slot(p, i).key, f))
<1> DEFINE s == Slot(p, i)
<1>1. clock \in Int /\ cmd \in Command /\ view[p] \in Seq(Tbl!Datum)
  BY PlayAssumption, GameBoundAssumption DEF GInv, TypeOK
<1>2. CASE i \in 1..Len(view[p])
  <2>1. s = view[p][i]
    BY <1>2 DEF Slot
  <2>2. Sound(s) /\ s.val.status = "flying"
    BY <1>2, <2>1 DEF GInv, ViewSound
  <2>3. s.val \in Airborne
    BY <2>2, SoundFields
  <2> HIDE DEF s
  <2>4. f \in Airborne /\ f.time = clock
    BY <1>1, <2>3, CommandedFlies, CommandedNow DEF s
  <2>5. f.status = "flying"
    BY <2>4 DEF Airborne
  <2>6. LET d == Plane(s.key, f) IN ~d.down /\ d.val = f
    BY <2>5 DEF Plane
  <2> QED
    BY <1>1, <2>4, <2>6 DEF Dated, Sank, s
<1>3. CASE i \notin 1..Len(view[p])
  <2>1. s = ZeroPlane
    <3>1. i \in Int /\ i > 0
      <4>1. \A a, b \in Nat : a * b \in Nat
        OBVIOUS
      <4>2. PICK page \in Nat, digit \in 0..9 : i = page * PLANES_PER_PAGE + digit + 1
        BY <1>1 DEF Selectable
      <4>3. page * PLANES_PER_PAGE \in Nat
        BY <4>1, ListAssumption
      <4> QED
        BY <4>2, <4>3
    <3> QED
      BY <1>1, <1>3, <3>1 DEF Slot
  <2>2. s.key = EmptyKey /\ s.val = ZeroFlight
    BY <2>1 DEF ZeroPlane, Plane
  <2> HIDE DEF s
  <2>3. f.status = "landed"
    BY <1>1, <2>2, CommandedZero DEF s
  <2> QED
    BY <2>2, <2>3 DEF Dated, Sank, Plane, s
<1> QED
  BY <1>2, <1>3

(* What the scan finds fallen was descending. *)
LEMMA FallDated ==
  ASSUME GInv, SoloInv, NEW p \in Proc, got[p] # None, got[p].val.status = "flying",
         ComesDown(got[p].val, now[p]), NEW f \in Down(got[p].val)
  PROVE  Dated(Plane(got[p].key, f), clock) /\ Sank(Plane(got[p].key, f))
<1>1. Sound(got[p]) /\ Dated(got[p], now[p])
  BY DEF GInv, TableOK, GotSound, SoloInv
<1>2. got[p].val \in Airborne /\ got[p].val \in FlightData /\ ~got[p].down
  BY <1>1, SoundFields DEF Sound
<1>3. now[p] \in Int /\ got[p].val.time <= now[p]
  BY <1>1, <1>2, GameBoundAssumption DEF GInv, TypeOK, Dated
<1>4. got[p].val.elevation < 0
  BY <1>2, <1>3, FallsDescending
<1>5. f.elevation < 0 /\ f.status # "flying"
  BY <1>2, <1>4, DownIsDown
<1> QED
  BY <1>5 DEF Dated, Sank, Plane

LEMMA StoredDated ==
  ASSUME GInv, NEW p \in Proc, Stored(p), NEW t
  PROVE  /\ /\ \A i \in 1..Len(rows) : Dated(rows[i].data, t)
            /\ Dated(req[p], t)
            => \A i \in 1..Len(rows') : Dated(rows'[i].data, t)
         /\ /\ \A i \in 1..Len(rows) : Sank(rows[i].data)
            /\ Sank(req[p])
            => \A i \in 1..Len(rows') : Sank(rows'[i].data)
<1>1. PICK r \in 1..Len(rows') :
        /\ rows'[r].data = req[p]
        /\ \A j \in 1..Len(rows') : j # r => j \in 1..Len(rows) /\ rows'[j] = rows[j]
  BY StoredOne
<1> QED
  BY <1>1

-----------------------------------------------------------------------------
(* The steps of a player                                                   *)

(* A plane is made or commanded. *)
LEMMA RequestSolo ==
  ASSUME GInv, SoloInv, Solo, NEW p \in Proc, Start(p) \/ TickPlane(p) \/ Input(p)
  PROVE  SoloInv'
<1>1. PICK d : /\ UNCHANGED <<clock, rows, got, now>>
               /\ \/ req' = req
                  \/ req' = [req EXCEPT ![p] = d] /\ Dated(d, clock) /\ Sank(d)
  <2>1. CASE Start(p) \/ TickPlane(p)
    BY <2>1, NewPlaneDated DEF Start, TickPlane, CreatePlane, Tbl!Request, table
  <2>2. CASE Input(p)
    <3>1. PICK i \in Selectable(p), cmd \in Commands :
            LET plane == Slot(p, i)
            IN  \/ UNCHANGED table
                \/ \E f \in Commanded(cmd, plane.val, clock) :
                     Tbl!Request(p, Plane(plane.key, f))
      BY <2>2 DEF Input
    <3>2. UNCHANGED <<clock, now>>
      BY <2>2 DEF Input
    <3>3. CASE UNCHANGED table
      BY <3>2, <3>3 DEF table
    <3>4. ASSUME NEW f \in Commanded(cmd, Slot(p, i).val, clock),
                 Tbl!Request(p, Plane(Slot(p, i).key, f))
          PROVE  \E d : /\ UNCHANGED <<clock, rows, got, now>>
                        /\ req' = [req EXCEPT ![p] = d] /\ Dated(d, clock) /\ Sank(d)
      <4>1. /\ Dated(Plane(Slot(p, i).key, f), clock)
            /\ Sank(Plane(Slot(p, i).key, f))
        BY CommandDated
      <4> QED
        BY <3>2, <3>4, <4>1 DEF Tbl!Request
    <3> QED
      BY <3>1, <3>3, <3>4
  <2> QED
    BY <2>1, <2>2
<1>2. pc[p] \notin ScanPC /\ pc'[p] \notin ScanPC
  BY DEF Start, TickPlane, Input, CreatePlane, Goto, ScanPC, GInv, TypeOK
<1>3. req \in [Proc -> Tbl!Datum \cup {None}]
  BY DEF GInv, TypeOK, Tbl!TypeOK
<1>4. req'[p] # None => Dated(req'[p], clock) /\ Sank(req'[p])
  BY <1>1, <1>3 DEF SoloInv
<1> QED
  BY <1>1, <1>2, <1>4 DEF SoloInv, Solo, Dated, Sank

LEMMA StoreSolo ==
  ASSUME GInv, StageInv, SoloInv, Solo, NEW p \in Proc,
         StoreNew(p) \/ StoreCmd(p) \/ StoreDown(p)
  PROVE  SoloInv'
<1>1. /\ Stored(p) /\ UNCHANGED <<clock, got, now>> /\ req[p] # None
      /\ req' = [req EXCEPT ![p] = None]
  BY DEF StoreNew, StoreCmd, StoreDown, Stored, Tbl!Overwrite, Tbl!Insert
<1>2. Dated(req[p], clock) /\ Sank(req[p])
  BY <1>1 DEF SoloInv
<1>3. \A i \in 1..Len(rows') : Dated(rows'[i].data, clock) /\ Sank(rows'[i].data)
  BY <1>1, <1>2, StoredDated DEF SoloInv
<1>4. req'[p] = None
  BY <1>1 DEF GInv, TypeOK, Tbl!TypeOK
<1>5. pc'[p] \in ScanPC => \A i \in 1..Len(rows') : Dated(rows'[i].data, now[p])
  <2>1. CASE StoreNew(p) \/ StoreCmd(p)
    BY <2>1 DEF StoreNew, StoreCmd, Goto, ScanPC, GInv, TypeOK
  <2>2. CASE StoreDown(p)
    <3>1. pc[p] \in ScanPC /\ req[p].down
      BY <2>2 DEF StoreDown, StageInv, Stage, ScanPC
    <3>2. Dated(req[p], now[p])
      BY <3>1 DEF Dated
    <3> QED
      BY <1>1, <3>1, <3>2, StoredDated DEF SoloInv
  <2> QED
    BY <2>1, <2>2
<1> QED
  BY <1>1, <1>3, <1>4, <1>5 DEF SoloInv, Solo, Dated, Sank

LEMMA ReadSolo ==
  ASSUME GInv, LInv, SoloInv, Solo, NEW p \in Proc,
         \/ BeginScan(p) \/ GetLock(p) \/ GetRow(p) \/ LoseLock(p)
         \/ ListPlane(p) \/ CountDown(p) \/ EndScan(p) \/ Quit(p)
  PROVE  SoloInv'
<1>1. UNCHANGED <<clock, rows, req>>
  BY DEF BeginScan, GetLock, GetRow, LoseLock, ListPlane, CountDown, EndScan, Quit,
         local, table, Tbl!StartScan, Tbl!Attach, Tbl!Deliver, Tbl!Detach,
         Tbl!Consume, Tbl!EndScan
<1>2. /\ pc \in [Proc -> PC] /\ now \in [Proc -> 0..MaxTime]
      /\ got \in [Proc -> Tbl!Datum \cup {None}]
  BY DEF GInv, TypeOK, Tbl!TypeOK
<1>3. (got[p] # None => pc[p] \in ScanPC) /\ (pc[p] \in ScanPC => pos[p] \in 0..Len(rows))
  BY DEF LInv, Score
<1>4. /\ got'[p] # None => Dated(got'[p], now'[p])
      /\ pc'[p] \in ScanPC => \A i \in 1..Len(rows) : Dated(rows[i].data, now'[p])
  <2>1. CASE BeginScan(p)
    <3>1. now'[p] = clock /\ got' = got /\ pc[p] \notin ScanPC
      BY <1>2, <2>1 DEF BeginScan, Tbl!StartScan, ScanPC
    <3> QED
      BY <1>3, <3>1 DEF SoloInv
  <2>2. CASE GetLock(p) \/ LoseLock(p)
    <3>1. now' = now /\ got' = got /\ pc[p] \in ScanPC
      BY <2>2 DEF GetLock, LoseLock, local, Tbl!Attach, Tbl!Detach, ScanPC
    <3> QED
      BY <3>1 DEF SoloInv
  <2>3. CASE GetRow(p)
    <3> DEFINE n == pos[p] + 1
    <3>1. /\ now' = now /\ pc' = pc /\ got' = [got EXCEPT ![p] = rows[n].data]
          /\ pc[p] \in ScanPC /\ pos[p] < Len(rows)
      BY <2>3 DEF GetRow, local, Tbl!Deliver, ScanPC
    <3>2. n \in 1..Len(rows)
      BY <1>3, <3>1, Numbers
    <3> HIDE DEF n
    <3> QED
      BY <1>2, <3>1, <3>2 DEF SoloInv
  <2>4. CASE ListPlane(p) \/ CountDown(p)
    <3>1. now' = now /\ pc' = pc /\ got' = [got EXCEPT ![p] = None]
      BY <2>4 DEF ListPlane, CountDown, Tbl!Consume
    <3> QED
      BY <1>2, <3>1 DEF SoloInv
  <2>5. CASE EndScan(p) \/ Quit(p)
    <3>1. got' = got /\ pc'[p] \notin ScanPC /\ got[p] = None
      BY <1>2, <1>3, <2>5 DEF EndScan, Quit, Tbl!EndScan, Goto, ScanPC, table
    <3> QED
      BY <3>1
  <2> QED
    BY <2>1, <2>2, <2>3, <2>4, <2>5
<1> QED
  BY <1>1, <1>4 DEF SoloInv, Solo, Dated, Sank

LEMMA FallSolo ==
  ASSUME GInv, SoloInv, Solo, NEW p \in Proc, BringDown(p)
  PROVE  SoloInv'
<1>1. /\ got[p] # None /\ got[p].val.status = "flying" /\ ComesDown(got[p].val, now[p])
      /\ UNCHANGED <<clock, now, rows>> /\ pc[p] \in ScanPC
      /\ got' = [got EXCEPT ![p] = None]
  BY DEF BringDown, Tbl!WriteBack, ScanPC
<1>2. PICK f \in Down(got[p].val) : Tbl!WriteBack(p, Plane(got[p].key, f))
  BY DEF BringDown
<1> DEFINE d == Plane(got[p].key, f)
<1>3. Dated(d, clock) /\ Sank(d) /\ req' = [req EXCEPT ![p] = d]
  BY <1>1, <1>2, FallDated DEF Tbl!WriteBack
<1> HIDE DEF d
<1>4. /\ req \in [Proc -> Tbl!Datum \cup {None}] /\ got \in [Proc -> Tbl!Datum \cup {None}]
  BY DEF GInv, TypeOK, Tbl!TypeOK
<1>5. req'[p] = d /\ got'[p] = None
  BY <1>1, <1>3, <1>4
<1> QED
  BY <1>1, <1>3, <1>5 DEF SoloInv, Solo, Dated, Sank

LEMMA TickSolo ==
  ASSUME GInv, SoloInv, Tick \/ UNCHANGED vars
  PROVE  SoloInv'
<1>1. UNCHANGED <<rows, req, got, now, pc>>
  BY DEF Tick, vars, table, local
<1>2. clock \in Int /\ clock' \in Int /\ clock <= clock'
  BY PlayAssumption, GameBoundAssumption DEF Tick, vars, GInv, TypeOK
<1>3. \A d : (d.val.time \in Int /\ Dated(d, clock)) => Dated(d, clock')
  BY <1>2 DEF Dated
<1>4. \A d : Sound(d) => (Dated(d, clock) => Dated(d, clock'))
  <2> SUFFICES ASSUME NEW d, Sound(d), Dated(d, clock), ~d.down PROVE d.val.time <= clock'
    BY DEF Dated
  <2>1. d.val.time \in Int
    BY DEF Sound, Airborne
  <2> QED
    BY <1>3, <2>1 DEF Dated
<1>5. \A i \in 1..Len(rows) : Dated(rows[i].data, clock')
  BY <1>4 DEF SoloInv, GInv, TableOK, RowsSound
<1>6. \A p \in Proc : req[p] # None => Dated(req[p], clock')
  BY <1>4 DEF SoloInv, GInv, TableOK, ReqSound
<1> QED
  BY <1>1, <1>5, <1>6 DEF SoloInv, Dated, Sank

LEMMA InitSolo == Init => SoloInv
BY DEF Init, Tbl!Init, SoloInv, ScanPC

LEMMA NextKeepsSolo ==
  GInv /\ LInv /\ StageInv /\ (Solo => SoloInv) /\ [Next]_vars => (Solo => SoloInv)'
<1> SUFFICES ASSUME GInv, LInv, StageInv, SoloInv, Solo, [Next]_vars PROVE SoloInv'
  BY DEF Solo
<1>1. ASSUME NEW p \in Proc, Start(p) \/ Input(p) \/ Step(p) \/ Quit(p)
      PROVE  SoloInv'
  BY <1>1, RequestSolo, StoreSolo, ReadSolo, FallSolo DEF Step
<1> QED
  BY <1>1, TickSolo DEF Next

(* Only a plane on its way down comes down, if one player plays. *)
THEOREM FallenWereDescending == Spec => [](Solo => DownWereDescending)
<1>1. Init => (Solo => SoloInv)
  BY InitSolo
<1>2. SoloInv => DownWereDescending
  BY DEF SoloInv, Sank, DownWereDescending
<1> QED
  BY <1>1, <1>2, NextKeepsSolo, Inductive, ListsInductive, CapInductive, PTL DEF Spec

=============================================================================
