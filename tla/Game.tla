-------------------------------- MODULE Game --------------------------------
(***************************************************************************)
(* The game: several players, each a process that runs ATCC's main loop    *)
(* (atcc/main.c) and ATCD's operations (atcd.c) for it, on one table of    *)
(* planes.                                                                 *)
(*                                                                         *)
(* The table is what Table.tla promises; every step that touches it is an  *)
(* action of Table conjoined with what the process does of its own.  The   *)
(* clock is read by a process only where the code calls time().            *)
(***************************************************************************)
EXTENDS Flight, Sequences, FiniteSets

CONSTANTS
  Proc,             \* the players' processes
  Key,              \* the identifiers of planes
  EmptyKey,         \* that of a zeroed record
  None,             \* no plane
  MAX_PLANES,       \* how many planes a process's list holds
  PLANES_PER_PAGE,  \* how many of them are on a page of the screen
  Roll,             \* Roll[t]: the plane that srand(t) and rand() make
  TimeSteps,        \* by how many seconds the clock may move on at once
  Commands,         \* the commands that the players give
  MaxTime,          \* bound: the last second of the clock
  MaxCommands,      \* bound: how many commands the players give
  MaxQuits          \* bound: how many players leave

VARIABLES
  clock,         \* the seconds since the start
  rows,          \* Table's: the planes, [key, data]
  req,           \* Table's: req[p], what p's sto_set has still to store
  pos,           \* Table's: pos[p], how many rows p's scan was given
  got,           \* Table's: got[p], the row p's scan was just given
  busy,          \* Table's: busy[p], p's scan is attached
  pc,            \* pc[p]: where p is in its main loop
  now,           \* now[p]: current_time of p's get_airplanes
  count,         \* count[p]: the planes it has put in the list
  view,          \* view[p]: state.planes, as far as it was ever filled
  planes_count,  \* planes_count[p]: _planes_count
  crashed,       \* crashed[p]: atcd_crashed_count
  landed,        \* landed[p]: atcd_landed_count
  tick_time,     \* tick_time[p]: when p last made a plane by the clock
  given,         \* how many commands were given
  quits          \* how many players have left

table == <<rows, req, pos, got, busy>>
local == <<pc, now, count, view, planes_count, crashed, landed, tick_time>>
vars == <<clock, table, local, given, quits>>

(* A row's data. *)
FlightData ==
  [x : XRange, y : YRange, z : Nat, time : Int,
   heading : Heading, elevation : Elevation, speed : Int, status : Status]
Plane(id, f) == [key |-> id, val |-> f, down |-> f.status # "flying"]
ZeroPlane == Plane(EmptyKey, ZeroFlight)

Tbl == INSTANCE Table WITH Val <- FlightData

ASSUME IdAssumption == EmptyKey \notin Key /\ None \notin Tbl!Datum
ASSUME PlayersAssumption == IsFiniteSet(Proc)
ASSUME ListAssumption ==
  MAX_PLANES \in Nat \ {0} /\ PLANES_PER_PAGE \in 1..10
ASSUME PlayAssumption ==
  Commands \subseteq Command /\ TimeSteps \subseteq Nat \ {0}
ASSUME GameBoundAssumption ==
  MaxTime \in Nat /\ MaxCommands \in Nat /\ MaxQuits \in Nat
ASSUME RollAssumption ==
  Roll \in [0..MaxTime -> [id : Key, flight : Airborne]]

PC == {"start", "tick", "store_new", "input", "store_cmd", "update", "scan",
       "store_down", "close"}

TypeOK ==
  /\ clock \in 0..MaxTime
  /\ Tbl!TypeOK
  /\ pc \in [Proc -> PC]
  /\ now \in [Proc -> 0..MaxTime]
  /\ count \in [Proc -> 0..MAX_PLANES]
  /\ view \in [Proc -> Seq(Tbl!Datum)]
  /\ planes_count \in [Proc -> 0..MAX_PLANES]
  /\ crashed \in [Proc -> Nat]
  /\ landed \in [Proc -> Nat]
  /\ tick_time \in [Proc -> 0..MaxTime]
  /\ given \in 0..MaxCommands
  /\ quits \in 0..MaxQuits

Init ==
  /\ clock = 0
  /\ Tbl!Init
  /\ pc = [p \in Proc |-> "start"]
  /\ now = [p \in Proc |-> 0]
  /\ count = [p \in Proc |-> 0]
  /\ view = [p \in Proc |-> << >>]
  /\ planes_count = [p \in Proc |-> 0]
  /\ crashed = [p \in Proc |-> 0]
  /\ landed = [p \in Proc |-> 0]
  /\ tick_time = [p \in Proc |-> 0]
  /\ given = 0
  /\ quits = 0

Goto(p, label) == pc' = [pc EXCEPT ![p] = label]

-----------------------------------------------------------------------------
(* create_plane                                                            *)

(* The seed is the second, and so is the time of the plane. *)
NewPlane == Plane(Roll[clock].id, [Roll[clock].flight EXCEPT !.time = clock])

(* Mutant: the number of planes is not looked at. *)
CreatePlaneUncapped(p) ==
  /\ Tbl!Request(p, NewPlane)
  /\ Goto(p, "store_new")

(* A process whose last scan filled its list makes no plane. *)
CreatePlane(p) ==
  IF planes_count[p] = MAX_PLANES
    THEN Goto(p, "input") /\ UNCHANGED table
    ELSE /\ Tbl!Request(p, NewPlane)
         /\ Goto(p, "store_new")

(* init_time and the plane that main makes before its loop.  Until the     *)
(* first update the list is empty and `input' has nothing to command.      *)
Start(p) ==
  /\ pc[p] = "start"
  /\ tick_time' = [tick_time EXCEPT ![p] = clock]
  /\ CreatePlane(p)
  /\ UNCHANGED <<clock, now, count, view, planes_count, crashed, landed, given, quits>>

(* update_state's, more than 20 seconds after the one before. *)
TickPlane(p) ==
  /\ pc[p] = "tick"
  /\ CreatePlane(p)
  /\ UNCHANGED <<clock, now, count, view, planes_count, crashed, landed,
                 tick_time, given, quits>>

(* sto_set takes effect. *)
Stored(p) == Tbl!Overwrite(p) \/ Tbl!Insert(p)

StoreNew(p) ==
  /\ pc[p] = "store_new"
  /\ Stored(p)
  /\ Goto(p, "input")
  /\ UNCHANGED <<clock, now, count, view, planes_count, crashed, landed,
                 tick_time, given, quits>>

-----------------------------------------------------------------------------
(* input and set                                                           *)

(* The slots of the list the player may have selected: a digit is compared *)
(* with the number of planes, whatever the page; the page stays when the   *)
(* list shrinks, and the selection stays too.  A page has as many slots as *)
(* there are digits, 10 in the code and PLANES_PER_PAGE here.              *)
Selectable(p) ==
  LET n == Len(view[p]) IN
  {page * PLANES_PER_PAGE + digit + 1 :
     page \in {k \in 0..n : k = 0 \/ k * PLANES_PER_PAGE < n},
     digit \in {k \in 0..9 : k < n /\ k < PLANES_PER_PAGE}}

(* A slot of the list, zeroed beyond the most planes it ever held. *)
Slot(p, i) == IF i <= Len(view[p]) THEN view[p][i] ELSE ZeroPlane

(* Enter, with a plane and a command selected. *)
Input(p) ==
  /\ pc[p] = "input"
  /\ given < MaxCommands
  /\ given' = given + 1
  /\ \E i \in Selectable(p), cmd \in Commands :
       LET plane == Slot(p, i)
       IN  \/ /\ Commanded(cmd, plane.val, clock) = {}
              /\ Goto(p, "update")
              /\ UNCHANGED table
           \/ \E f \in Commanded(cmd, plane.val, clock) :
                /\ Tbl!Request(p, Plane(plane.key, f))
                /\ Goto(p, "store_cmd")
  /\ UNCHANGED <<clock, now, count, view, planes_count, crashed, landed,
                 tick_time, quits>>

StoreCmd(p) ==
  /\ pc[p] = "store_cmd"
  /\ Stored(p)
  /\ Goto(p, "update")
  /\ UNCHANGED <<clock, now, count, view, planes_count, crashed, landed,
                 tick_time, given, quits>>

-----------------------------------------------------------------------------
(* get_airplanes                                                           *)

(* Mutant: the score is not reset. *)
BeginScanKeepingScore(p) ==
  /\ pc[p] \in {"input", "update"}
  /\ Tbl!StartScan(p)
  /\ Goto(p, "scan")
  /\ now' = [now EXCEPT ![p] = clock]
  /\ count' = [count EXCEPT ![p] = 0]
  /\ UNCHANGED <<clock, view, planes_count, crashed, landed, tick_time, given,
                 quits>>

(* Mutant: current_time is an old one. *)
BeginScanAtTick(p) ==
  /\ pc[p] \in {"input", "update"}
  /\ Tbl!StartScan(p)
  /\ Goto(p, "scan")
  /\ now' = [now EXCEPT ![p] = tick_time[p]]
  /\ count' = [count EXCEPT ![p] = 0]
  /\ crashed' = [crashed EXCEPT ![p] = 0]
  /\ landed' = [landed EXCEPT ![p] = 0]
  /\ UNCHANGED <<clock, view, planes_count, tick_time, given, quits>>

(* No key, or a key that commands nothing, and the loop comes round. *)
BeginScan(p) ==
  /\ pc[p] \in {"input", "update"}
  /\ Tbl!StartScan(p)
  /\ Goto(p, "scan")
  /\ now' = [now EXCEPT ![p] = clock]
  /\ count' = [count EXCEPT ![p] = 0]
  /\ crashed' = [crashed EXCEPT ![p] = 0]
  /\ landed' = [landed EXCEPT ![p] = 0]
  /\ UNCHANGED <<clock, view, planes_count, tick_time, given, quits>>

(* sto_get: the lock, and the next row. *)
GetLock(p) ==
  /\ pc[p] = "scan"
  /\ Tbl!Attach(p)
  /\ UNCHANGED <<clock, local, given, quits>>

GetRow(p) ==
  /\ pc[p] = "scan"
  /\ Tbl!Deliver(p)
  /\ UNCHANGED <<clock, local, given, quits>>

(* The plane is still flying: it goes into the list, if there is room.     *)
ListPlane(p) ==
  /\ pc[p] = "scan"
  /\ got[p] # None
  /\ got[p].val.status = "flying"
  /\ ~ComesDown(got[p].val, now[p])
  /\ IF count[p] < MAX_PLANES
       THEN LET i == count[p] + 1
                moved == [got[p] EXCEPT !.val = Moved(@, now[p])]
            IN  /\ count' = [count EXCEPT ![p] = i]
                /\ view' = [view EXCEPT ![p] =
                     IF i > Len(@) THEN Append(@, moved) ELSE [@ EXCEPT ![i] = moved]]
       ELSE UNCHANGED <<count, view>>
  /\ Tbl!Consume(p)
  /\ UNCHANGED <<clock, pc, now, planes_count, crashed, landed, tick_time, given, quits>>

(* Mutant: what came down is not stored. *)
BringDownUnsaved(p) ==
  /\ pc[p] = "scan"
  /\ got[p] # None
  /\ got[p].val.status = "flying"
  /\ ComesDown(got[p].val, now[p])
  /\ Tbl!Consume(p)
  /\ UNCHANGED <<clock, local, given, quits>>

(* The plane came down since it was stored: it is neither listed nor       *)
(* counted in this scan, and is stored as crashed or landed.               *)
BringDown(p) ==
  /\ pc[p] = "scan"
  /\ got[p] # None
  /\ got[p].val.status = "flying"
  /\ ComesDown(got[p].val, now[p])
  /\ \E f \in Down(got[p].val) : Tbl!WriteBack(p, Plane(got[p].key, f))
  /\ Goto(p, "store_down")
  /\ UNCHANGED <<clock, now, count, view, planes_count, crashed, landed,
                 tick_time, given, quits>>

CountDown(p) ==
  /\ pc[p] = "scan"
  /\ got[p] # None
  /\ \/ /\ got[p].val.status = "crashed"
        /\ crashed' = [crashed EXCEPT ![p] = @ + 1]
        /\ UNCHANGED landed
     \/ /\ got[p].val.status = "landed"
        /\ landed' = [landed EXCEPT ![p] = @ + 1]
        /\ UNCHANGED crashed
  /\ Tbl!Consume(p)
  /\ UNCHANGED <<clock, pc, now, count, view, planes_count, tick_time, given, quits>>

(* _crashed_or_landed's sto_set, and the lock that its close takes away. *)
StoreDown(p) ==
  /\ pc[p] = "store_down"
  /\ Tbl!Overwrite(p)
  /\ Goto(p, "close")
  /\ UNCHANGED <<clock, now, count, view, planes_count, crashed, landed,
                 tick_time, given, quits>>

LoseLock(p) ==
  /\ pc[p] = "close"
  /\ Tbl!Detach(p)
  /\ Goto(p, "scan")
  /\ UNCHANGED <<clock, now, count, view, planes_count, crashed, landed,
                 tick_time, given, quits>>

(* The end of the table, and the rest of update_state. *)
EndScan(p) ==
  /\ pc[p] = "scan"
  /\ Tbl!EndScan(p)
  /\ planes_count' = [planes_count EXCEPT ![p] = count[p]]
  /\ IF clock - tick_time[p] > 20
       THEN Goto(p, "tick") /\ tick_time' = [tick_time EXCEPT ![p] = clock]
       ELSE Goto(p, "input") /\ UNCHANGED tick_time
  /\ now' = [now EXCEPT ![p] = 0]
  /\ count' = [count EXCEPT ![p] = 0]
  /\ UNCHANGED <<clock, view, crashed, landed, given, quits>>

-----------------------------------------------------------------------------

(* The player interrupts the program, and another one starts it. *)
Quit(p) ==
  /\ pc[p] \in {"input", "update"}
  /\ quits < MaxQuits
  /\ quits' = quits + 1
  /\ Goto(p, "start")
  /\ view' = [view EXCEPT ![p] = << >>]
  /\ planes_count' = [planes_count EXCEPT ![p] = 0]
  /\ crashed' = [crashed EXCEPT ![p] = 0]
  /\ landed' = [landed EXCEPT ![p] = 0]
  /\ UNCHANGED <<clock, table, now, count, tick_time, given>>

Tick ==
  /\ \E d \in TimeSteps :
       /\ clock + d <= MaxTime
       /\ clock' = clock + d
  /\ UNCHANGED <<table, local, given, quits>>

(* What the program does without being asked to. *)
Step(p) ==
  \/ TickPlane(p) \/ StoreNew(p) \/ StoreCmd(p) \/ BeginScan(p) \/ GetLock(p)
  \/ GetRow(p) \/ ListPlane(p) \/ BringDown(p) \/ CountDown(p) \/ StoreDown(p)
  \/ LoseLock(p) \/ EndScan(p)

Next ==
  \/ \E p \in Proc : Start(p) \/ Input(p) \/ Step(p) \/ Quit(p)
  \/ Tick

Spec == Init /\ [][Next]_vars

(* A started program goes on. *)
FairSpec == Spec /\ \A p \in Proc : WF_vars(Step(p))

-----------------------------------------------------------------------------
(* Properties                                                              *)

(* Whatever is commanded, and however stale the list it was commanded      *)
(* from, a flying plane stays on the map, above ground, at a speed, an     *)
(* elevation and a heading that calculate_position knows.                  *)
FlightEnvelope ==
  /\ \A i \in 1..Len(rows) :
       ~rows[i].data.down => rows[i].data.val \in Airborne
  /\ \A p \in Proc : \A i \in 1..Len(view[p]) : view[p][i].val \in Airborne

(* A list shows no plane twice, although planes are made, commanded and    *)
(* brought down by others while the table is read.                         *)
ListedOnce ==
  \A p \in Proc : pc[p] \notin {"scan", "store_down", "close"} =>
    /\ planes_count[p] <= Len(view[p])
    /\ \A i, j \in 1..planes_count[p] : view[p][i].key = view[p][j].key => i = j

(* A scan counts a plane once, as flying, crashed or landed, whatever       *)
(* becomes of it while the table is read.                                  *)
NothingCountedTwice ==
  \A p \in Proc : pc[p] \notin {"scan", "store_down", "close"} =>
    planes_count[p] + crashed[p] + landed[p] <= Len(rows)

(* A command from a list, however old, finds the row of its plane (a       *)
(* zeroed slot of the list finds the first row): it never makes a plane.   *)
NoGhostPlanes ==
  \A p \in Proc : pc[p] = "store_cmd" =>
    \E i \in 1..Len(rows) : req[p].key \in {rows[i].key, EmptyKey}

(* Only a plane on its way down comes down.  So it is for one player; with *)
(* two, a scan whose current_time is older than a command carries a        *)
(* climbing plane back in time, to below the ground.                       *)
DownWereDescending ==
  \A i \in 1..Len(rows) :
    rows[i].data.down /\ rows[i].data.key # EmptyKey =>
      rows[i].data.val.elevation < 0

(* MAX_PLANES is checked by each process against its own last scan: the    *)
(* planes in the air exceed it, but by one per player at most; by one for  *)
(* each time a player started again, having forgotten what it counted; and *)
(* by one for each command, as one from a stale list puts a plane back in  *)
(* the air that came down.                                                 *)
InTheAir == {i \in 1..Len(rows) : ~rows[i].data.down}
TrafficCap ==
  Cardinality(InTheAir) <= MAX_PLANES - 1 + Cardinality(Proc) + quits + given

(* "Return 0 if command was applied/succesfull, -1 if it was not a valid   *)
(* commando or not possible to apply" (atcd.c:189): a plane that crashed   *)
(* or landed is past commanding.  It is not, if it is still in a list.     *)
DownIsFinal ==
  [][\A i \in 1..Len(rows) : rows[i].data.down => rows'[i].data.down]_vars

(* A plane that has flown into the ground does not go on flying for ever:  *)
(* some player's scan finds it and stores it as down.                      *)
Overdue(k) ==
  \E i \in 1..Len(rows) : /\ rows[i].key = k
                           /\ ~rows[i].data.down
                           /\ ComesDown(rows[i].data.val, clock)
OverdueIsRecorded == \A k \in Key : Overdue(k) ~> ~Overdue(k)

=============================================================================
