------------------------------ MODULE Storage ------------------------------
(***************************************************************************)
(* storage.c: sto_set, and the scan that get_airplanes (atcd.c) makes with *)
(* sto_query, sto_get and sto_close, by several processes on one file, one *)
(* system call at a time.                                                  *)
(*                                                                         *)
(* Each row of the file is a key (written and read first) and a datum.     *)
(* The lock is fcntl's: it belongs to the process, not to the descriptor,  *)
(* covers the whole file, is upgraded in place, and is lost when the       *)
(* process closes ANY descriptor of the file.  F_SETLKW fails with EDEADLK *)
(* instead of waiting in a cycle, and storage.c ignores what it returned.  *)
(***************************************************************************)
EXTENDS Rows, FiniteSets

CONSTANTS
  NoData,     \* the file ends after the row's key
  Zeros,      \* the row's data is a hole of the file, read as zeros
  MaxCalls,   \* bound: how many sto_set calls and scans a process makes
  MaxFaults   \* bound: how many processes are killed and calls fail

ASSUME DataAssumption ==
  /\ NoData \notin Datum
  /\ Zeros \notin Datum
  /\ NoData # Zeros
ASSUME BoundAssumption == MaxCalls \in Nat /\ MaxFaults \in Nat

VARIABLES
  file,    \* the rows of the file: [key, data]
  lock,    \* lock[p]: the lock p holds on it: "none", "read" or "write"
  pc,      \* pc[p]: the system call p is about to make
  cursor,  \* cursor[p]: the cursor of p's scan, or NoScan
  seek,    \* seek[p]: the cursor of the query inside p's sto_set
  row,     \* row[p]: the struct atc_plane p reads into or stores
  calls,   \* calls[p]: how many calls p has begun
  faults   \* how many faults there have been

vars == <<file, lock, pc, cursor, seek, row, calls, faults>>

SetPC == {"set_lock", "set_wait", "set_fetch", "set_key", "set_data"}
ScanPC == {"get_lock", "get_wait", "get_key", "get_data", "get_row",
           "get_eof", "scan_close"}

TypeOK ==
  /\ file \in Seq([key : Key, data : Datum \cup {NoData, Zeros}])
  /\ lock \in [Proc -> {"none", "read", "write"}]
  /\ pc \in [Proc -> {"idle", "set_close"} \cup SetPC \cup ScanPC]
  /\ cursor \in [Proc -> Nat \cup {NoScan}]
  /\ seek \in [Proc -> Nat]
  /\ row \in [Proc -> Datum \cup {Zeros}]
  /\ calls \in [Proc -> Nat]
  /\ faults \in Nat

Init ==
  /\ file = << >>
  /\ lock = [p \in Proc |-> "none"]
  /\ pc = [p \in Proc |-> "idle"]
  /\ cursor = [p \in Proc |-> NoScan]
  /\ seek = [p \in Proc |-> 0]
  /\ row = [p \in Proc |-> Zeros]
  /\ calls = [p \in Proc |-> 0]
  /\ faults = 0

Goto(p, label) == pc' = [pc EXCEPT ![p] = label]

(* p is inside a scan, and its sto_set is the write-back of a plane that   *)
(* came down.                                                              *)
Scanning(p) == cursor[p] # NoScan

-----------------------------------------------------------------------------
(* The lock.                                                               *)

(* The processes whose lock conflicts with the one p asks for. *)
Conflicting(p, mode) ==
  {q \in Proc \ {p} : lock[q] = "write" \/ (mode = "write" /\ lock[q] = "read")}

(* One of them is itself waiting to write, and so for p to let go. *)
WouldDeadlock(p) ==
  /\ lock[p] # "none"
  /\ \E q \in Conflicting(p, "write") : pc[q] = "set_wait"

-----------------------------------------------------------------------------
(* sto_set                                                                 *)

(* create_plane and set call sto_set with a plane.  Only a caller that was *)
(* shown a plane has a list to pick a zeroed record from.                  *)
SetCall(p) ==
  /\ pc[p] = "idle"
  /\ calls[p] < MaxCalls
  /\ \E d \in Datum :
       /\ d.key = EmptyKey => \E i \in 1..Len(file) : file[i].data # NoData
       /\ row' = [row EXCEPT ![p] = d]
  /\ seek' = [seek EXCEPT ![p] = 0]
  /\ calls' = [calls EXCEPT ![p] = @ + 1]
  /\ Goto(p, "set_lock")
  /\ UNCHANGED <<file, lock, cursor, faults>>

(* get_airplanes finds the plane it was given below ground, and stores it  *)
(* as crashed or landed with a sto_set of its own inside the scan.         *)
WriteBack(p) ==
  /\ pc[p] = "get_row"
  /\ row[p] \in Datum
  /\ ~row[p].down
  /\ row' = [row EXCEPT ![p].down = TRUE]
  /\ seek' = [seek EXCEPT ![p] = 0]
  /\ Goto(p, "set_lock")
  /\ UNCHANGED <<file, lock, cursor, calls, faults>>

(* Mutant: sto_set asks for the read lock. *)
SetGrantedShared(p) ==
  /\ pc[p] \in {"set_lock", "set_wait"}
  /\ Conflicting(p, "read") = {}
  /\ lock' = [lock EXCEPT ![p] = "read"]
  /\ Goto(p, "set_fetch")
  /\ UNCHANGED <<file, cursor, seek, row, calls, faults>>

(* fcntl(F_SETLKW, F_WRLCK) succeeds, at once or after waiting. *)
SetGranted(p) ==
  /\ pc[p] \in {"set_lock", "set_wait"}
  /\ Conflicting(p, "write") = {}
  /\ lock' = [lock EXCEPT ![p] = "write"]
  /\ Goto(p, "set_fetch")
  /\ UNCHANGED <<file, cursor, seek, row, calls, faults>>

SetBlocks(p) ==
  /\ pc[p] = "set_lock"
  /\ Conflicting(p, "write") # {}
  /\ ~WouldDeadlock(p)
  /\ Goto(p, "set_wait")
  /\ UNCHANGED <<file, lock, cursor, seek, row, calls, faults>>

(* Mutant: sto_set tries again until it is given the lock. *)
SetDeadlkRetry(p) ==
  /\ pc[p] = "set_lock"
  /\ WouldDeadlock(p)
  /\ UNCHANGED vars

(* It returns -1 with EDEADLK; sto_set goes on with the lock it had. *)
SetDeadlk(p) ==
  /\ pc[p] = "set_lock"
  /\ WouldDeadlock(p)
  /\ Goto(p, "set_fetch")
  /\ UNCHANGED <<file, lock, cursor, seek, row, calls, faults>>

(* One turn of sto_set's loop: _fetch_next_record with no buffer reads the *)
(* key at the cursor, the key of a row cut short included.                 *)
SetFetch(p) ==
  /\ pc[p] = "set_fetch"
  /\ seek[p] < Len(file)
  /\ seek' = [seek EXCEPT ![p] = @ + 1]
  /\ IF Matches(file[seek[p] + 1].key, row[p].key)
       THEN Goto(p, "set_data")
       ELSE UNCHANGED pc
  /\ UNCHANGED <<file, lock, cursor, row, calls, faults>>

(* It reads 0 bytes at the end of the file. *)
SetFetchEof(p) ==
  /\ pc[p] = "set_fetch"
  /\ seek[p] >= Len(file)
  /\ Goto(p, "set_key")
  /\ UNCHANGED <<file, lock, cursor, seek, row, calls, faults>>

(* The file with key k written at row n: a new row at the end turns a row  *)
(* that was cut short before it into one with a hole.                      *)
KeyWritten(n, k) ==
  [i \in 1..(IF n > Len(file) THEN n ELSE Len(file)) |->
     IF i = n THEN [key |-> k, data |-> IF n > Len(file) THEN NoData ELSE file[i].data]
     ELSE IF file[i].data = NoData /\ n > Len(file)
       THEN [file[i] EXCEPT !.data = Zeros]
       ELSE file[i]]

(* Mutant: sto_set returns after the first of its two writes. *)
SetWriteKeyOnly(p) ==
  /\ pc[p] = "set_key"
  /\ file' = KeyWritten(seek[p] + 1, row[p].key)
  /\ Goto(p, "set_close")
  /\ UNCHANGED <<lock, cursor, seek, row, calls, faults>>

(* write(q.fd, tmp_key, STO_KEY_SIZE) where the end of the file was read. *)
SetWriteKey(p) ==
  /\ pc[p] = "set_key"
  /\ file' = KeyWritten(seek[p] + 1, row[p].key)
  /\ seek' = [seek EXCEPT ![p] = @ + 1]
  /\ Goto(p, "set_data")
  /\ UNCHANGED <<lock, cursor, row, calls, faults>>

(* write(q.fd, row, data_size) just after the key read or written. *)
SetWriteData(p) ==
  /\ pc[p] = "set_data"
  /\ file' = [file EXCEPT ![seek[p]].data = row[p]]
  /\ Goto(p, "set_close")
  /\ UNCHANGED <<lock, cursor, seek, row, calls, faults>>

(* sto_close: closing the query's descriptor takes away every lock of the  *)
(* process, the scan's too, and leaves _release_lock nothing to release.   *)
SetClose(p) ==
  /\ pc[p] = "set_close"
  /\ lock' = [lock EXCEPT ![p] = "none"]
  /\ seek' = [seek EXCEPT ![p] = 0]
  /\ row' = [row EXCEPT ![p] = Zeros]
  /\ Goto(p, IF Scanning(p) THEN "get_lock" ELSE "idle")
  /\ UNCHANGED <<file, cursor, calls, faults>>

-----------------------------------------------------------------------------
(* get_airplanes: sto_query, sto_get until it returns 0, sto_close         *)

ScanCall(p) ==
  /\ pc[p] = "idle"
  /\ calls[p] < MaxCalls
  /\ cursor' = [cursor EXCEPT ![p] = 0]
  /\ calls' = [calls EXCEPT ![p] = @ + 1]
  /\ Goto(p, "get_lock")
  /\ UNCHANGED <<file, lock, seek, row, faults>>

(* Every sto_get asks for the read lock, held already or not. *)
GetGranted(p) ==
  /\ pc[p] \in {"get_lock", "get_wait"}
  /\ Conflicting(p, "read") = {}
  /\ lock' = [lock EXCEPT ![p] = "read"]
  /\ Goto(p, "get_key")
  /\ UNCHANGED <<file, cursor, seek, row, calls, faults>>

GetBlocks(p) ==
  /\ pc[p] = "get_lock"
  /\ Conflicting(p, "read") # {}
  /\ Goto(p, "get_wait")
  /\ UNCHANGED <<file, lock, cursor, seek, row, calls, faults>>

GetKey(p) ==
  /\ pc[p] = "get_key"
  /\ Goto(p, IF cursor[p] < Len(file) THEN "get_data" ELSE "get_eof")
  /\ UNCHANGED <<file, lock, cursor, seek, row, calls, faults>>

(* Mutant: sto_get gives up its lock before it returns. *)
GetDataUnlocking(p) ==
  /\ pc[p] = "get_data"
  /\ cursor' = [cursor EXCEPT ![p] = @ + 1]
  /\ IF file[cursor[p] + 1].data = NoData
       THEN Goto(p, "get_eof") /\ UNCHANGED <<row, lock>>
       ELSE /\ Goto(p, "get_row")
            /\ row' = [row EXCEPT ![p] = file[cursor[p] + 1].data]
            /\ lock' = [lock EXCEPT ![p] = "none"]
  /\ UNCHANGED <<file, seek, calls, faults>>

(* Mutant: nobody notices that no data was read. *)
GetDataUnchecked(p) ==
  /\ pc[p] = "get_data"
  /\ cursor' = [cursor EXCEPT ![p] = @ + 1]
  /\ row' = [row EXCEPT ![p] = file[cursor[p] + 1].data]
  /\ Goto(p, "get_row")
  /\ UNCHANGED <<file, lock, seek, calls, faults>>

(* The row is returned to get_airplanes with the lock still held.  Of a row *)
(* cut short 0 bytes of data are read, which passes for the end.           *)
GetData(p) ==
  /\ pc[p] = "get_data"
  /\ cursor' = [cursor EXCEPT ![p] = @ + 1]
  /\ IF file[cursor[p] + 1].data = NoData
       THEN Goto(p, "get_eof") /\ UNCHANGED row
       ELSE /\ Goto(p, "get_row")
            /\ row' = [row EXCEPT ![p] = file[cursor[p] + 1].data]
  /\ UNCHANGED <<file, lock, seek, calls, faults>>

(* get_airplanes leaves the plane as it is and asks for the next one. *)
NextRow(p) ==
  /\ pc[p] = "get_row"
  /\ row' = [row EXCEPT ![p] = Zeros]
  /\ Goto(p, "get_lock")
  /\ UNCHANGED <<file, lock, cursor, seek, calls, faults>>

GetEof(p) ==
  /\ pc[p] = "get_eof"
  /\ lock' = [lock EXCEPT ![p] = "none"]
  /\ Goto(p, "scan_close")
  /\ UNCHANGED <<file, cursor, seek, row, calls, faults>>

ScanClose(p) ==
  /\ pc[p] = "scan_close"
  /\ lock' = [lock EXCEPT ![p] = "none"]
  /\ cursor' = [cursor EXCEPT ![p] = NoScan]
  /\ Goto(p, "idle")
  /\ UNCHANGED <<file, seek, row, calls, faults>>

-----------------------------------------------------------------------------
(* Faults                                                                  *)

(* SIGINT's handler exits, whatever the process was doing; the kernel      *)
(* closes its descriptors.  Another process is started in its place.       *)
Kill(p) ==
  /\ pc[p] # "idle"
  /\ faults < MaxFaults
  /\ faults' = faults + 1
  /\ lock' = [lock EXCEPT ![p] = "none"]
  /\ cursor' = [cursor EXCEPT ![p] = NoScan]
  /\ seek' = [seek EXCEPT ![p] = 0]
  /\ row' = [row EXCEPT ![p] = Zeros]
  /\ Goto(p, "idle")
  /\ UNCHANGED <<file, calls>>

(* A read or write fails: sto_set closes and returns -1, and get_airplanes *)
(* closes its query when sto_get returns -1.                               *)
IOError(p) ==
  /\ faults < MaxFaults
  /\ faults' = faults + 1
  /\ \/ /\ pc[p] \in {"set_fetch", "set_key", "set_data"}
        /\ Goto(p, "set_close")
     \/ /\ pc[p] \in {"get_key", "get_data"}
        /\ Goto(p, "scan_close")
  /\ UNCHANGED <<file, lock, cursor, seek, row, calls>>

(* The callers have made all their calls: the only way the system stops. *)
Done ==
  /\ \A p \in Proc : pc[p] = "idle" /\ calls[p] = MaxCalls
  /\ UNCHANGED vars

Step(p) ==
  \/ SetGranted(p) \/ SetBlocks(p) \/ SetDeadlk(p) \/ SetFetch(p)
  \/ SetFetchEof(p) \/ SetWriteKey(p) \/ SetWriteData(p) \/ SetClose(p)
  \/ GetGranted(p) \/ GetBlocks(p) \/ GetKey(p) \/ GetData(p)
  \/ WriteBack(p) \/ NextRow(p) \/ GetEof(p) \/ ScanClose(p)

Next ==
  \/ \E p \in Proc : SetCall(p) \/ ScanCall(p) \/ Step(p) \/ Kill(p) \/ IOError(p)
  \/ Done

Spec == Init /\ [][Next]_vars

(* A process that is running goes on running: nothing is asked of the      *)
(* kernel but to grant, sooner or later, a lock that stays free.           *)
FairSpec == Spec /\ \A p \in Proc : WF_vars(Step(p))

-----------------------------------------------------------------------------
(* Properties                                                              *)

(* sto_set's search and append are one step to everyone else: however      *)
(* calls interleave, are killed or fail, no key gets a second row.         *)
UniqueRows ==
  \A i, j \in 1..Len(file) : file[i].key = file[j].key => i = j

(* A record is never stored under another plane's key, save that a zeroed  *)
(* record (strncmp over 0 characters) takes over the first row.            *)
RowHoldsOwnPlane ==
  \A i \in 1..Len(file) : file[i].data \in Datum =>
    \/ file[i].data.key = file[i].key
    \/ file[i].data.key = EmptyKey /\ i = 1

(* Between the read of a plane by get_airplanes and the end of the sto_set *)
(* that stores it as down, no command of another client changes its row,   *)
(* and that sto_set finds that very row: the read lock is kept from sto_get *)
(* on, and a refused upgrade keeps it too.                                 *)
WriteBackHitsRowRead ==
  \A p \in Proc : Scanning(p) /\ pc[p] \in SetPC =>
    /\ cursor[p] \in 1..Len(file)
    /\ file[cursor[p]].data \in Datum
    /\ file[cursor[p]].key = row[p].key
    /\ file[cursor[p]].data.val = row[p].val
    /\ pc[p] # "set_key"
    /\ pc[p] = "set_data" => seek[p] = cursor[p]

(* What holds instead: a row is appended only under the write lock, with   *)
(* no other process reading, locked or not, and no other process writing.  *)
AppendsAreExclusive ==
  \A p, q \in Proc :
    /\ p # q
    /\ \/ pc[p] = "set_key"
       \/ pc[p] = "set_data" /\ file[seek[p]].data \notin Datum
    => /\ lock[p] = "write"
       /\ pc[q] \notin {"set_fetch", "set_key", "set_data", "get_key",
                        "get_data", "get_row"}

(* The rows that have no data and that nobody is about to give any. *)
CutShort ==
  {i \in 1..Len(file) : /\ file[i].data \notin Datum
                        /\ ~ \E p \in Proc : pc[p] = "set_data" /\ seek[p] = i}

(* Every row without data is owed to a fault of its own: a process killed, *)
(* or a write failing, between the two writes of an append.  get_airplanes *)
(* counts the holes among them as landed planes.                           *)
DamageNeedsFault == Cardinality(CutShort) <= faults

(* Nobody waits for a lock for ever: with EDEADLK to break the cycle of two *)
(* upgrades, every sto_set and every scan comes to its end.                *)
EveryCallReturns == \A p \in Proc : pc[p] # "idle" ~> pc[p] = "idle"

-----------------------------------------------------------------------------
(* Without faults Storage implements Table.  A row counts from the moment  *)
(* its data is written, and only the last one can be without; a scan is    *)
(* attached while it holds a lock.                                         *)
Complete ==
  IF file # << >> /\ file[Len(file)].data = NoData THEN Len(file) - 1 ELSE Len(file)
CompleteRows == [i \in 1..Complete |-> file[i]]
Pending == [p \in Proc |-> IF pc[p] \in SetPC THEN row[p] ELSE None]
Given == [p \in Proc |-> IF pc[p] = "get_row" THEN row[p] ELSE None]
Position == [p \in Proc |->
  IF pc[p] \in {"get_eof", "scan_close"} THEN NoScan ELSE cursor[p]]
Attached == [p \in Proc |-> Position[p] # NoScan /\ lock[p] # "none"]

Tbl == INSTANCE Table WITH rows <- CompleteRows, req <- Pending,
         pos <- Position, got <- Given, busy <- Attached

(* Table's promises, kept one system call at a time. *)
ImplementsTable == Tbl!Spec

=============================================================================
