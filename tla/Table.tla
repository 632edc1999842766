------------------------------- MODULE Table -------------------------------
(***************************************************************************)
(* What the storage layer (STO) promises to the game logic: a table of     *)
(* rows, one per key, in order of creation.                                *)
(*                                                                         *)
(*   - sto_set takes effect exactly once, atomically, between its call and *)
(*     its return: it replaces the data of the first row its key matches,  *)
(*     and appends a row when there is none.                               *)
(*   - A scan (sto_query, sto_get until 0, sto_close) hands out the rows   *)
(*     in order, each one whole and each one once, up to the last.         *)
(*   - A scan may store a row it was given, once, as down.                 *)
(*   - While a scan is attached to the table (it has read a row and has    *)
(*     neither written one back nor ended) no other process's sto_set      *)
(*     takes effect, except the write-back of another attached scan.  So   *)
(*     the row a scan writes back is the row it read.                      *)
(*                                                                         *)
(* Storage.tla implements this module with fcntl locks, one system call at *)
(* a time; Game.tla is built on it.                                        *)
(***************************************************************************)
EXTENDS Rows

VARIABLES
  rows,   \* the table: a sequence of [key, data]
  req,    \* req[p]: the datum p's sto_set has still to store, or None
  pos,    \* pos[p]: how many rows p's scan was given, or NoScan
  got,    \* got[p]: the row p's scan was just given, or None
  busy    \* busy[p]: p's scan is attached to the table

vars == <<rows, req, pos, got, busy>>

TypeOK ==
  /\ rows \in Seq([key : Key, data : Datum])
  /\ req \in [Proc -> Datum \cup {None}]
  /\ pos \in [Proc -> Nat \cup {NoScan}]
  /\ got \in [Proc -> Datum \cup {None}]
  /\ busy \in [Proc -> BOOLEAN]

Init ==
  /\ rows = << >>
  /\ req = [p \in Proc |-> None]
  /\ pos = [p \in Proc |-> NoScan]
  /\ got = [p \in Proc |-> None]
  /\ busy = [p \in Proc |-> FALSE]

(* p calls sto_set with d.  Only a caller that was shown a plane can pass a *)
(* zeroed record.                                                          *)
Request(p, d) ==
  /\ pos[p] = NoScan
  /\ req[p] = None
  /\ d.key = EmptyKey => rows # << >>
  /\ req' = [req EXCEPT ![p] = d]
  /\ UNCHANGED <<rows, pos, got, busy>>

(* p starts get_airplanes' scan. *)
StartScan(p) ==
  /\ pos[p] = NoScan
  /\ req[p] = None
  /\ pos' = [pos EXCEPT ![p] = 0]
  /\ UNCHANGED <<rows, req, got, busy>>

(* p's scan takes hold of the table. *)
Attach(p) ==
  /\ pos[p] # NoScan
  /\ ~busy[p]
  /\ busy' = [busy EXCEPT ![p] = TRUE]
  /\ UNCHANGED <<rows, req, pos, got>>

(* sto_get gives p the next row. *)
Deliver(p) ==
  /\ busy[p]
  /\ got[p] = None
  /\ req[p] = None
  /\ pos[p] < Len(rows)
  /\ got' = [got EXCEPT ![p] = rows[pos[p] + 1].data]
  /\ pos' = [pos EXCEPT ![p] = @ + 1]
  /\ UNCHANGED <<rows, req, busy>>

(* p is done with the row and leaves it as it is. *)
Consume(p) ==
  /\ got[p] # None
  /\ got' = [got EXCEPT ![p] = None]
  /\ UNCHANGED <<rows, req, pos, busy>>

(* p finds that the plane it was given is down and asks to store it as d. *)
WriteBack(p, d) ==
  /\ got[p] # None
  /\ ~got[p].down
  /\ d.key = got[p].key
  /\ d.down
  /\ req' = [req EXCEPT ![p] = d]
  /\ got' = [got EXCEPT ![p] = None]
  /\ UNCHANGED <<rows, pos, busy>>

(* Nobody else's scan is in the way of p's command; a write-back only needs *)
(* its own scan attached.                                                  *)
MayCommit(p) ==
  IF pos[p] = NoScan THEN \A q \in Proc \ {p} : ~busy[q] ELSE busy[p]

Overwrite(p) ==
  /\ req[p] # None
  /\ MayCommit(p)
  /\ \E i \in 1..Len(rows) :
       /\ Matches(rows[i].key, req[p].key)
       /\ \A j \in 1..(i - 1) : ~Matches(rows[j].key, req[p].key)
       /\ pos[p] # NoScan => i = pos[p]
       /\ rows' = [rows EXCEPT ![i].data = req[p]]
  /\ req' = [req EXCEPT ![p] = None]
  /\ UNCHANGED <<pos, got, busy>>

(* Mutant: a row is appended without a search. *)
InsertUnsearched(p) ==
  /\ req[p] # None
  /\ pos[p] = NoScan
  /\ MayCommit(p)
  /\ rows' = Append(rows, [key |-> req[p].key, data |-> req[p]])
  /\ req' = [req EXCEPT ![p] = None]
  /\ UNCHANGED <<pos, got, busy>>

Insert(p) ==
  /\ req[p] # None
  /\ pos[p] = NoScan
  /\ MayCommit(p)
  /\ \A i \in 1..Len(rows) : ~Matches(rows[i].key, req[p].key)
  /\ rows' = Append(rows, [key |-> req[p].key, data |-> req[p]])
  /\ req' = [req EXCEPT ![p] = None]
  /\ UNCHANGED <<pos, got, busy>>

(* After a write-back p's scan has lost its hold and must attach again. *)
Detach(p) ==
  /\ busy[p]
  /\ req[p] = None
  /\ got[p] = None
  /\ busy' = [busy EXCEPT ![p] = FALSE]
  /\ UNCHANGED <<rows, req, pos, got>>

(* sto_get returns 0: p has been given every row of the table. *)
EndScan(p) ==
  /\ busy[p]
  /\ req[p] = None
  /\ got[p] = None
  /\ pos[p] = Len(rows)
  /\ pos' = [pos EXCEPT ![p] = NoScan]
  /\ busy' = [busy EXCEPT ![p] = FALSE]
  /\ UNCHANGED <<rows, req, got>>

Next == \E p \in Proc :
  \/ \E d \in Datum : Request(p, d) \/ WriteBack(p, d)
  \/ StartScan(p) \/ Attach(p) \/ Deliver(p) \/ Consume(p)
  \/ Overwrite(p) \/ Insert(p) \/ Detach(p) \/ EndScan(p)

Spec == Init /\ [][Next]_vars

=============================================================================
