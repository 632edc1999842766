--------------------------- MODULE StorageProofs ---------------------------
(***************************************************************************)
(* Proofs about Storage for any processes, planes, number of calls and     *)
(* number of faults.                                                       *)
(***************************************************************************)
EXTENDS Storage, FiniteSetTheorems, TLAPS

RowType == [key : Key, data : Datum \cup {NoData, Zeros}]

(* fcntl's rule: a write lock excludes every other lock. *)
LockExclusion ==
  \A p, q \in Proc : p # q /\ lock[p] = "write" => lock[q] = "none"

(* Which lock and which scan each system call is made with. *)
LockDiscipline(p) ==
  /\ pc[p] = "idle" => lock[p] = "none" /\ ~Scanning(p)
  /\ pc[p] \in ScanPC => Scanning(p)
  /\ pc[p] \in {"get_key", "get_data", "get_row", "get_eof"} => lock[p] = "read"
  /\ pc[p] \in {"set_lock", "set_wait"} =>
       lock[p] = IF Scanning(p) THEN "read" ELSE "none"
  /\ pc[p] \in {"set_fetch", "set_key", "set_data"} =>
       lock[p] = "write" \/ (Scanning(p) /\ lock[p] = "read")
  /\ pc[p] = "get_data" => cursor[p] < Len(file)
  /\ pc[p] \in SetPC => row[p] \in Datum

(* p has been given a flying plane and may still store it as down. *)
Holding(p) ==
  \/ pc[p] = "get_row" /\ row[p] \in Datum /\ ~row[p].down
  \/ Scanning(p) /\ pc[p] \in SetPC

(* Then the row it was given is still the row of that plane. *)
HeldRow(p) == Holding(p) =>
  /\ cursor[p] \in 1..Len(file)
  /\ file[cursor[p]].data \in Datum
  /\ file[cursor[p]].key = row[p].key
  /\ file[cursor[p]].data.val = row[p].val

NoMatch(p, n) == \A j \in 1..n : ~Matches(file[j].key, row[p].key)

(* The loop invariant of sto_set's search, and what it leaves behind. *)
Search(p) ==
  /\ pc[p] \in SetPC /\ row[p].key = EmptyKey => Len(file) > 0
  /\ pc[p] \in {"set_lock", "set_wait"} => seek[p] = 0
  /\ pc[p] = "set_fetch" => seek[p] \in 0..Len(file) /\ NoMatch(p, seek[p])
  /\ pc[p] = "set_key" => seek[p] = Len(file) /\ NoMatch(p, Len(file))
  /\ pc[p] = "set_data" =>
       /\ seek[p] \in 1..Len(file)
       /\ Matches(file[seek[p]].key, row[p].key)
       /\ row[p].key = EmptyKey => seek[p] = 1

ProcInv(p) == LockDiscipline(p) /\ HeldRow(p) /\ Search(p)

IInv ==
  /\ TypeOK
  /\ LockExclusion
  /\ UniqueRows
  /\ RowHoldsOwnPlane
  /\ \A p \in Proc : ProcInv(p)

-----------------------------------------------------------------------------
(* Data                                                                    *)

(* A plane's record, and the record of the same plane marked as down. *)
LEMMA DatumFacts ==
  \A d \in Datum :
    /\ d.key \in Key \cup {EmptyKey}
    /\ d.val \in Val
    /\ d.down \in BOOLEAN
    /\ d.key = EmptyKey => d.down
    /\ d # NoData /\ d # Zeros
    /\ [d EXCEPT !.down = TRUE] \in Datum
    /\ [d EXCEPT !.down = TRUE].key = d.key
    /\ [d EXCEPT !.down = TRUE].val = d.val
BY DataAssumption DEF Datum

(* An append leaves the rows there were, with data where they had any, and *)
(* adds the key at the end.                                                *)
LEMMA KeyWrittenFacts ==
  ASSUME file \in Seq(RowType), NEW k \in Key
  PROVE  LET n == Len(file) + 1
             f == KeyWritten(n, k)
         IN  /\ f \in Seq(RowType)
             /\ Len(f) = n
             /\ f[n] = [key |-> k, data |-> NoData]
             /\ \A i \in 1..Len(file) :
                  /\ f[i].key = file[i].key
                  /\ file[i].data \in Datum => f[i].data = file[i].data
                  /\ f[i].data \in Datum => file[i].data \in Datum
<1> DEFINE n == Len(file) + 1
           f == KeyWritten(n, k)
<1>1. n \in Nat \ {0} /\ n > Len(file)
  OBVIOUS
<1>2. f = [i \in 1..n |->
             IF i = n THEN [key |-> k, data |-> NoData]
             ELSE IF file[i].data = NoData
               THEN [file[i] EXCEPT !.data = Zeros]
               ELSE file[i]]
  BY <1>1 DEF KeyWritten
<1>3. \A i \in 1..Len(file) : file[i] \in RowType
  OBVIOUS
<1>4. \A i \in 1..n : f[i] \in RowType
  BY <1>1, <1>2, <1>3, SMTT(30) DEF RowType
<1>5. f \in Seq(RowType) /\ Len(f) = n
  BY <1>1, <1>2, <1>4
<1>6. f[n] = [key |-> k, data |-> NoData]
  BY <1>1, <1>2
<1>7. ASSUME NEW i \in 1..Len(file)
      PROVE  /\ f[i].key = file[i].key
             /\ file[i].data \in Datum => f[i].data = file[i].data
             /\ f[i].data \in Datum => file[i].data \in Datum
  <2>1. i \in 1..n /\ i # n
    BY <1>1
  <2>2. file[i] \in RowType
    BY <1>3
  <2> QED
    BY <1>2, <2>1, <2>2, DataAssumption DEF RowType
<1> QED
  BY <1>5, <1>6, <1>7

(* The second write changes the data of one row. *)
LEMMA DataWrittenFacts ==
  ASSUME file \in Seq(RowType), NEW n \in 1..Len(file), NEW d \in Datum
  PROVE  LET f == [file EXCEPT ![n].data = d]
         IN  /\ f \in Seq(RowType)
             /\ Len(f) = Len(file)
             /\ f[n].data = d
             /\ \A i \in 1..Len(file) : f[i].key = file[i].key
             /\ \A i \in 1..Len(file) : i # n => f[i].data = file[i].data
<1> DEFINE f == [file EXCEPT ![n].data = d]
<1>1. file[n] \in RowType /\ \A i \in 1..Len(file) : file[i] \in RowType
  OBVIOUS
<1>2. [file[n] EXCEPT !.data = d] \in RowType
  BY <1>1 DEF RowType
<1>3. f = [file EXCEPT ![n] = [file[n] EXCEPT !.data = d]]
  OBVIOUS
<1>4. f \in Seq(RowType) /\ Len(f) = Len(file)
  BY <1>2, <1>3
<1>5. f[n].data = d /\ f[n].key = file[n].key
  BY <1>1, <1>3 DEF RowType
<1>6. \A i \in 1..Len(file) : i # n => f[i] = file[i]
  BY <1>3
<1> QED
  BY <1>4, <1>5, <1>6

-----------------------------------------------------------------------------
(* What the invariant says of a process that is writing back.              *)

(* Its search cannot miss the row that was read: it stops there, before    *)
(* the end of the file, and writes its data nowhere else.                  *)
LEMMA SearchFindsHeldRow ==
  ASSUME IInv, NEW p \in Proc, Scanning(p), pc[p] \in SetPC
  PROVE  /\ row[p].key \in Key
         /\ pc[p] = "set_fetch" => seek[p] < cursor[p]
         /\ pc[p] # "set_key"
         /\ pc[p] = "set_data" => seek[p] = cursor[p]
<1>1. /\ cursor[p] \in 1..Len(file)
      /\ file[cursor[p]].key = row[p].key
  BY DEF IInv, ProcInv, HeldRow, Holding
<1>a. file \in Seq(RowType)
  BY DEF IInv, TypeOK, RowType
<1>2. file[cursor[p]] \in RowType /\ Len(file) \in Nat
  BY <1>1, <1>a
<1>3. row[p].key \in Key
  BY <1>1, <1>2 DEF RowType
<1>4. Matches(file[cursor[p]].key, row[p].key)
  BY <1>1 DEF Matches
<1>5. Search(p)
  BY DEF IInv, ProcInv
<1>6. pc[p] # "set_key"
  BY <1>1, <1>4, <1>5 DEF Search, NoMatch
<1>7. ASSUME pc[p] = "set_fetch" PROVE seek[p] < cursor[p]
  BY <1>1, <1>2, <1>4, <1>5, <1>7 DEF Search, NoMatch
<1>8. ASSUME pc[p] = "set_data" PROVE seek[p] = cursor[p]
  <2>1. seek[p] \in 1..Len(file) /\ file[seek[p]].key = row[p].key
    BY <1>3, <1>5, <1>8, KeyAssumption DEF Search, Matches
  <2> QED
    BY <1>1, <2>1 DEF IInv, UniqueRows
<1> QED
  BY <1>3, <1>6, <1>7, <1>8

(* Nobody writes a row's key while another process holds any lock, and     *)
(* writing data without the write lock is a write-back.                    *)
LEMMA WritersHoldLocks ==
  ASSUME IInv, NEW p \in Proc
  PROVE  /\ pc[p] = "set_key" => lock[p] = "write" /\ ~Scanning(p)
         /\ pc[p] = "set_data" /\ ~Scanning(p) => lock[p] = "write"
<1>1. LockDiscipline(p)
  BY DEF IInv, ProcInv
<1>2. pc[p] = "set_key" => ~Scanning(p)
  BY SearchFindsHeldRow DEF SetPC
<1> QED
  BY <1>1, <1>2 DEF LockDiscipline

-----------------------------------------------------------------------------
(* Steps that do not write to the file                                     *)

SameProcess(q) ==
  /\ lock'[q] = lock[q]
  /\ pc'[q] = pc[q]
  /\ cursor'[q] = cursor[q]
  /\ seek'[q] = seek[q]
  /\ row'[q] = row[q]

(* What the invariant says of a process depends on the file and on the     *)
(* process alone.                                                          *)
LEMMA Frame ==
  ASSUME NEW q \in Proc, ProcInv(q), file' = file, SameProcess(q)
  PROVE  ProcInv(q)'
<1>1. LockDiscipline(q)'
  BY DEF ProcInv, LockDiscipline, SameProcess, Scanning
<1>2. HeldRow(q)'
  BY DEF ProcInv, HeldRow, Holding, SameProcess, Scanning
<1>3. Search(q)'
  BY DEF ProcInv, Search, NoMatch, SameProcess
<1> QED
  BY <1>1, <1>2, <1>3 DEF ProcInv

LEMMA QuietStep ==
  ASSUME IInv, NEW p \in Proc, UNCHANGED file,
         \A q \in Proc \ {p} : SameProcess(q),
         TypeOK', LockExclusion', ProcInv(p)'
  PROVE  IInv'
<1>1. UniqueRows' /\ RowHoldsOwnPlane'
  BY DEF IInv, UniqueRows, RowHoldsOwnPlane
<1>2. \A q \in Proc \ {p} : ProcInv(q)'
  BY Frame DEF IInv
<1> QED
  BY <1>1, <1>2 DEF IInv

(* The kernel grants a lock only when it conflicts with nobody's.          *)
LEMMA LockGranted ==
  ASSUME IInv, NEW p \in Proc, NEW mode \in {"none", "read", "write"},
         lock' = [lock EXCEPT ![p] = mode],
         mode = "none" \/ Conflicting(p, mode) = {}
  PROVE  LockExclusion'
<1>1. lock \in [Proc -> {"none", "read", "write"}] /\ LockExclusion
  BY DEF IInv, TypeOK
<1>2. mode = "write" => \A q \in Proc \ {p} : lock[q] = "none"
  BY <1>1 DEF Conflicting
<1>3. mode = "read" => \A q \in Proc \ {p} : lock[q] # "write"
  BY <1>1 DEF Conflicting
<1>4. CASE mode = "none"
  BY <1>1, <1>4 DEF LockExclusion
<1>5. CASE mode = "read"
  BY <1>1, <1>3, <1>5 DEF LockExclusion
<1>6. CASE mode = "write"
  BY <1>1, <1>2, <1>6 DEF LockExclusion
<1> QED
  BY <1>4, <1>5, <1>6

LEMMA SetCallKeepsIInv ==
  ASSUME IInv, NEW p \in Proc, SetCall(p)
  PROVE  IInv'
<1> USE DEF SetPC, ScanPC
<1>1. PICK d \in Datum :
        /\ d.key = EmptyKey => \E i \in 1..Len(file) : file[i].data # NoData
        /\ row' = [row EXCEPT ![p] = d]
  BY DEF SetCall
<1>2. /\ pc[p] = "idle"
      /\ seek' = [seek EXCEPT ![p] = 0]
      /\ calls' = [calls EXCEPT ![p] = @ + 1]
      /\ pc' = [pc EXCEPT ![p] = "set_lock"]
      /\ UNCHANGED <<file, lock, cursor, faults>>
  BY DEF SetCall, Goto
<1>3. TypeOK
  BY DEF IInv
<1>4. TypeOK'
  BY <1>1, <1>2, <1>3 DEF TypeOK
<1>5. LockExclusion'
  BY <1>2 DEF IInv, LockExclusion
<1>6. \A q \in Proc \ {p} : SameProcess(q)
  BY <1>1, <1>2, <1>3 DEF SameProcess, TypeOK
<1>7. ~Scanning(p) /\ lock[p] = "none"
  BY <1>2 DEF IInv, ProcInv, LockDiscipline
<1>8. /\ pc'[p] = "set_lock" /\ seek'[p] = 0 /\ row'[p] = d
      /\ ~Scanning(p)'
  BY <1>1, <1>2, <1>3, <1>7 DEF TypeOK, Scanning
<1>9. d.key = EmptyKey => Len(file') > 0
  BY <1>1, <1>2, <1>3 DEF TypeOK
<1>10. ProcInv(p)'
  BY <1>2, <1>7, <1>8, <1>9 DEF ProcInv, LockDiscipline, HeldRow, Holding, Search
<1> QED
  BY <1>2, <1>4, <1>5, <1>6, <1>10, QuietStep

LEMMA WriteBackKeepsIInv ==
  ASSUME IInv, NEW p \in Proc, WriteBack(p)
  PROVE  IInv'
<1> USE DEF SetPC, ScanPC
<1> DEFINE d == [row[p] EXCEPT !.down = TRUE]
<1>1. /\ pc[p] = "get_row" /\ row[p] \in Datum /\ ~row[p].down
      /\ row' = [row EXCEPT ![p] = d]
      /\ seek' = [seek EXCEPT ![p] = 0]
      /\ pc' = [pc EXCEPT ![p] = "set_lock"]
      /\ UNCHANGED <<file, lock, cursor, calls, faults>>
  BY DEF WriteBack, Goto
<1>2. TypeOK
  BY DEF IInv
<1>3. d \in Datum /\ d.key = row[p].key /\ d.val = row[p].val
  BY <1>1, DatumFacts
<1>4. TypeOK'
  BY <1>1, <1>2, <1>3 DEF TypeOK
<1>5. LockExclusion'
  BY <1>1 DEF IInv, LockExclusion
<1>6. \A q \in Proc \ {p} : SameProcess(q)
  BY <1>1, <1>2 DEF SameProcess, TypeOK
<1>7. /\ Scanning(p) /\ lock[p] = "read"
      /\ cursor[p] \in 1..Len(file)
      /\ file[cursor[p]].data \in Datum
      /\ file[cursor[p]].key = row[p].key
      /\ file[cursor[p]].data.val = row[p].val
  BY <1>1 DEF IInv, ProcInv, LockDiscipline, HeldRow, Holding
<1>8. /\ pc'[p] = "set_lock" /\ seek'[p] = 0 /\ row'[p] = d
      /\ Scanning(p)'
  BY <1>1, <1>2, <1>7 DEF TypeOK, Scanning
<1>9. LockDiscipline(p)'
  BY <1>1, <1>3, <1>7, <1>8 DEF LockDiscipline
<1>10. HeldRow(p)'
  BY <1>1, <1>3, <1>7, <1>8 DEF HeldRow
<1>11. Len(file) > 0
  BY <1>2, <1>7 DEF TypeOK
<1>12. Search(p)'
  BY <1>1, <1>8, <1>11 DEF Search
<1> QED
  BY <1>1, <1>4, <1>5, <1>6, <1>9, <1>10, <1>12, QuietStep DEF ProcInv

LEMMA SetGrantedKeepsIInv ==
  ASSUME IInv, NEW p \in Proc, SetGranted(p)
  PROVE  IInv'
<1> USE DEF SetPC, ScanPC
<1>1. /\ pc[p] \in {"set_lock", "set_wait"}
      /\ Conflicting(p, "write") = {}
      /\ lock' = [lock EXCEPT ![p] = "write"]
      /\ pc' = [pc EXCEPT ![p] = "set_fetch"]
      /\ UNCHANGED <<file, cursor, seek, row, calls, faults>>
  BY DEF SetGranted, Goto
<1>2. TypeOK
  BY DEF IInv
<1>3. TypeOK'
  BY <1>1, <1>2 DEF TypeOK
<1>4. LockExclusion'
  BY <1>1, LockGranted
<1>5. \A q \in Proc \ {p} : SameProcess(q)
  BY <1>1, <1>2 DEF SameProcess, TypeOK
<1>6. pc'[p] = "set_fetch" /\ lock'[p] = "write"
  BY <1>1, <1>2 DEF TypeOK
<1>7. LockDiscipline(p)'
  BY <1>1, <1>6 DEF IInv, ProcInv, LockDiscipline
<1>8. HeldRow(p)'
  BY <1>1, <1>6 DEF IInv, ProcInv, HeldRow, Holding, Scanning
<1>9. Len(file) \in Nat
  BY <1>2 DEF TypeOK
<1>10. Search(p)'
  BY <1>1, <1>6, <1>9 DEF IInv, ProcInv, Search, NoMatch
<1> QED
  BY <1>1, <1>3, <1>4, <1>5, <1>7, <1>8, <1>10, QuietStep DEF ProcInv

LEMMA SetBlocksKeepsIInv ==
  ASSUME IInv, NEW p \in Proc, SetBlocks(p)
  PROVE  IInv'
<1> USE DEF SetPC, ScanPC
<1>1. /\ pc[p] = "set_lock"
      /\ pc' = [pc EXCEPT ![p] = "set_wait"]
      /\ UNCHANGED <<file, lock, cursor, seek, row, calls, faults>>
  BY DEF SetBlocks, Goto
<1>2. TypeOK
  BY DEF IInv
<1>3. TypeOK' /\ LockExclusion'
  BY <1>1, <1>2 DEF TypeOK, IInv, LockExclusion
<1>4. \A q \in Proc \ {p} : SameProcess(q)
  BY <1>1, <1>2 DEF SameProcess, TypeOK
<1>5. pc'[p] = "set_wait"
  BY <1>1, <1>2 DEF TypeOK
<1>6. LockDiscipline(p)' /\ HeldRow(p)' /\ Search(p)'
  BY <1>1, <1>5 DEF IInv, ProcInv, LockDiscipline, HeldRow, Holding, Search,
                    Scanning
<1> QED
  BY <1>1, <1>3, <1>4, <1>6, QuietStep DEF ProcInv

(* Only a process that holds a lock can close a cycle of waiting ones, and *)
(* it goes on with the lock it holds: the read lock of its scan.           *)
LEMMA SetDeadlkKeepsIInv ==
  ASSUME IInv, NEW p \in Proc, SetDeadlk(p)
  PROVE  IInv'
<1> USE DEF SetPC, ScanPC
<1>1. /\ pc[p] = "set_lock" /\ lock[p] # "none"
      /\ pc' = [pc EXCEPT ![p] = "set_fetch"]
      /\ UNCHANGED <<file, lock, cursor, seek, row, calls, faults>>
  BY DEF SetDeadlk, WouldDeadlock, Goto
<1>2. TypeOK
  BY DEF IInv
<1>3. TypeOK' /\ LockExclusion'
  BY <1>1, <1>2 DEF TypeOK, IInv, LockExclusion
<1>4. \A q \in Proc \ {p} : SameProcess(q)
  BY <1>1, <1>2 DEF SameProcess, TypeOK
<1>5. pc'[p] = "set_fetch"
  BY <1>1, <1>2 DEF TypeOK
<1>6. Scanning(p) /\ lock[p] = "read"
  BY <1>1 DEF IInv, ProcInv, LockDiscipline
<1>7. LockDiscipline(p)' /\ HeldRow(p)'
  BY <1>1, <1>5, <1>6 DEF IInv, ProcInv, LockDiscipline, HeldRow, Holding,
                          Scanning
<1>8. Len(file) \in Nat
  BY <1>2 DEF TypeOK
<1>9. Search(p)'
  BY <1>1, <1>5, <1>8 DEF IInv, ProcInv, Search, NoMatch
<1> QED
  BY <1>1, <1>3, <1>4, <1>7, <1>9, QuietStep DEF ProcInv

(* One key compared: the search has passed over one more row, or found it. *)
LEMMA SetFetchKeepsIInv ==
  ASSUME IInv, NEW p \in Proc, SetFetch(p)
  PROVE  IInv'
<1> USE DEF SetPC, ScanPC
<1> DEFINE next == seek[p] + 1
           hit == Matches(file[next].key, row[p].key)
<1>1. /\ pc[p] = "set_fetch" /\ seek[p] < Len(file)
      /\ seek' = [seek EXCEPT ![p] = next]
      /\ IF hit THEN pc' = [pc EXCEPT ![p] = "set_data"] ELSE pc' = pc
      /\ UNCHANGED <<file, lock, cursor, row, calls, faults>>
  BY DEF SetFetch, Goto
<1>2. TypeOK
  BY DEF IInv
<1>3. next \in 1..Len(file)
  BY <1>1, <1>2 DEF TypeOK
<1>a. next \in Nat
  BY <1>2 DEF TypeOK
<1>b. /\ seek' \in [Proc -> Nat]
      /\ pc' \in [Proc -> {"idle", "set_close"} \cup SetPC \cup ScanPC]
  BY <1>1, <1>2, <1>a DEF TypeOK
<1>4. TypeOK' /\ LockExclusion'
  BY <1>1, <1>2, <1>b DEF TypeOK, IInv, LockExclusion
<1>5. \A q \in Proc \ {p} : SameProcess(q)
  BY <1>1, <1>2 DEF SameProcess, TypeOK
<1>6. seek'[p] = next /\ pc'[p] = IF hit THEN "set_data" ELSE "set_fetch"
  BY <1>1, <1>2 DEF TypeOK
<1>7. LockDiscipline(p)' /\ HeldRow(p)'
  BY <1>1, <1>6 DEF IInv, ProcInv, LockDiscipline, HeldRow, Holding, Scanning
<1>8. seek[p] \in 0..Len(file) /\ NoMatch(p, seek[p])
  BY <1>1 DEF IInv, ProcInv, Search
<1>9. CASE hit
  <2>1. row[p].key = EmptyKey => next = 1
    BY <1>3, <1>8 DEF NoMatch, Matches
  <2>2. Search(p)'
    BY <1>1, <1>3, <1>6, <1>9, <2>1 DEF IInv, ProcInv, Search
  <2> QED
    BY <1>1, <1>4, <1>5, <1>7, <2>2, QuietStep DEF ProcInv
<1>10. CASE ~hit
  <2>1. NoMatch(p, next)
    BY <1>3, <1>8, <1>10 DEF NoMatch
  <2>2. Search(p)'
    BY <1>1, <1>3, <1>6, <1>10, <2>1 DEF IInv, ProcInv, Search, NoMatch
  <2> QED
    BY <1>1, <1>4, <1>5, <1>7, <2>2, QuietStep DEF ProcInv
<1> QED
  BY <1>9, <1>10

LEMMA SetFetchEofKeepsIInv ==
  ASSUME IInv, NEW p \in Proc, SetFetchEof(p)
  PROVE  IInv'
<1> USE DEF SetPC, ScanPC
<1>1. /\ pc[p] = "set_fetch" /\ seek[p] >= Len(file)
      /\ pc' = [pc EXCEPT ![p] = "set_key"]
      /\ UNCHANGED <<file, lock, cursor, seek, row, calls, faults>>
  BY DEF SetFetchEof, Goto
<1>2. TypeOK
  BY DEF IInv
<1>3. TypeOK' /\ LockExclusion'
  BY <1>1, <1>2 DEF TypeOK, IInv, LockExclusion
<1>4. \A q \in Proc \ {p} : SameProcess(q)
  BY <1>1, <1>2 DEF SameProcess, TypeOK
<1>5. pc'[p] = "set_key"
  BY <1>1, <1>2 DEF TypeOK
<1>6. LockDiscipline(p)' /\ HeldRow(p)'
  BY <1>1, <1>5 DEF IInv, ProcInv, LockDiscipline, HeldRow, Holding, Scanning
<1>7. seek[p] \in 0..Len(file) /\ NoMatch(p, seek[p])
  BY <1>1 DEF IInv, ProcInv, Search
<1>8. seek[p] = Len(file)
  BY <1>1, <1>7 DEF IInv, TypeOK
<1>9. Search(p)'
  BY <1>1, <1>5, <1>7, <1>8 DEF IInv, ProcInv, Search, NoMatch
<1> QED
  BY <1>1, <1>3, <1>4, <1>6, <1>9, QuietStep DEF ProcInv

(* All of the process's locks are gone: a scan has to ask again. *)
LEMMA SetCloseKeepsIInv ==
  ASSUME IInv, NEW p \in Proc, SetClose(p)
  PROVE  IInv'
<1> USE DEF SetPC, ScanPC
<1>1. /\ pc[p] = "set_close"
      /\ lock' = [lock EXCEPT ![p] = "none"]
      /\ seek' = [seek EXCEPT ![p] = 0]
      /\ row' = [row EXCEPT ![p] = Zeros]
      /\ pc' = [pc EXCEPT ![p] = IF Scanning(p) THEN "get_lock" ELSE "idle"]
      /\ UNCHANGED <<file, cursor, calls, faults>>
  BY DEF SetClose, Goto
<1>2. TypeOK
  BY DEF IInv
<1>3. TypeOK'
  BY <1>1, <1>2 DEF TypeOK
<1>4. LockExclusion'
  BY <1>1, LockGranted
<1>5. \A q \in Proc \ {p} : SameProcess(q)
  BY <1>1, <1>2 DEF SameProcess, TypeOK
<1>6. pc'[p] = (IF Scanning(p) THEN "get_lock" ELSE "idle") /\ lock'[p] = "none"
  BY <1>1, <1>2 DEF TypeOK
<1>7. LockDiscipline(p)' /\ HeldRow(p)' /\ Search(p)'
  BY <1>1, <1>2, <1>6 DEF IInv, ProcInv, LockDiscipline, HeldRow, Holding, Search,
                    Scanning, TypeOK
<1> QED
  BY <1>1, <1>3, <1>4, <1>5, <1>7, QuietStep DEF ProcInv

LEMMA ScanCallKeepsIInv ==
  ASSUME IInv, NEW p \in Proc, ScanCall(p)
  PROVE  IInv'
<1> USE DEF SetPC, ScanPC
<1>1. /\ pc[p] = "idle"
      /\ cursor' = [cursor EXCEPT ![p] = 0]
      /\ calls' = [calls EXCEPT ![p] = @ + 1]
      /\ pc' = [pc EXCEPT ![p] = "get_lock"]
      /\ UNCHANGED <<file, lock, seek, row, faults>>
  BY DEF ScanCall, Goto
<1>2. TypeOK
  BY DEF IInv
<1>3. TypeOK'
  BY <1>1, <1>2 DEF TypeOK
<1>4. LockExclusion'
  BY <1>1 DEF IInv, LockExclusion
<1>5. \A q \in Proc \ {p} : SameProcess(q)
  BY <1>1, <1>2 DEF SameProcess, TypeOK
<1>6. pc'[p] = "get_lock" /\ cursor'[p] = 0 /\ NoScan # 0
  BY <1>1, <1>2 DEF TypeOK, NoScan
<1>7. LockDiscipline(p)' /\ HeldRow(p)' /\ Search(p)'
  BY <1>1, <1>2, <1>6 DEF IInv, ProcInv, LockDiscipline, HeldRow, Holding, Search,
                    Scanning, TypeOK
<1> QED
  BY <1>1, <1>3, <1>4, <1>5, <1>7, QuietStep DEF ProcInv

LEMMA GetGrantedKeepsIInv ==
  ASSUME IInv, NEW p \in Proc, GetGranted(p)
  PROVE  IInv'
<1> USE DEF SetPC, ScanPC
<1>1. /\ pc[p] \in {"get_lock", "get_wait"}
      /\ Conflicting(p, "read") = {}
      /\ lock' = [lock EXCEPT ![p] = "read"]
      /\ pc' = [pc EXCEPT ![p] = "get_key"]
      /\ UNCHANGED <<file, cursor, seek, row, calls, faults>>
  BY DEF GetGranted, Goto
<1>2. TypeOK
  BY DEF IInv
<1>3. TypeOK'
  BY <1>1, <1>2 DEF TypeOK
<1>4. LockExclusion'
  BY <1>1, LockGranted
<1>5. \A q \in Proc \ {p} : SameProcess(q)
  BY <1>1, <1>2 DEF SameProcess, TypeOK
<1>6. pc'[p] = "get_key" /\ lock'[p] = "read"
  BY <1>1, <1>2 DEF TypeOK
<1>7. LockDiscipline(p)' /\ HeldRow(p)' /\ Search(p)'
  BY <1>1, <1>2, <1>6 DEF IInv, ProcInv, LockDiscipline, HeldRow, Holding, Search,
                    Scanning, TypeOK
<1> QED
  BY <1>1, <1>3, <1>4, <1>5, <1>7, QuietStep DEF ProcInv

LEMMA GetBlocksKeepsIInv ==
  ASSUME IInv, NEW p \in Proc, GetBlocks(p)
  PROVE  IInv'
<1> USE DEF SetPC, ScanPC
<1>1. /\ pc[p] = "get_lock"
      /\ pc' = [pc EXCEPT ![p] = "get_wait"]
      /\ UNCHANGED <<file, lock, cursor, seek, row, calls, faults>>
  BY DEF GetBlocks, Goto
<1>2. TypeOK
  BY DEF IInv
<1>3. TypeOK'
  BY <1>1, <1>2 DEF TypeOK
<1>4. LockExclusion'
  BY <1>1 DEF IInv, LockExclusion
<1>5. \A q \in Proc \ {p} : SameProcess(q)
  BY <1>1, <1>2 DEF SameProcess, TypeOK
<1>6. pc'[p] = "get_wait"
  BY <1>1, <1>2 DEF TypeOK
<1>7. LockDiscipline(p)' /\ HeldRow(p)' /\ Search(p)'
  BY <1>1, <1>2, <1>6 DEF IInv, ProcInv, LockDiscipline, HeldRow, Holding, Search,
                    Scanning, TypeOK
<1> QED
  BY <1>1, <1>3, <1>4, <1>5, <1>7, QuietStep DEF ProcInv

LEMMA GetKeyKeepsIInv ==
  ASSUME IInv, NEW p \in Proc, GetKey(p)
  PROVE  IInv'
<1> USE DEF SetPC, ScanPC
<1>1. /\ pc[p] = "get_key"
      /\ pc' = [pc EXCEPT ![p] =
                  IF cursor[p] < Len(file) THEN "get_data" ELSE "get_eof"]
      /\ UNCHANGED <<file, lock, cursor, seek, row, calls, faults>>
  BY DEF GetKey, Goto
<1>2. TypeOK
  BY DEF IInv
<1>3. TypeOK'
  BY <1>1, <1>2 DEF TypeOK
<1>4. LockExclusion'
  BY <1>1 DEF IInv, LockExclusion
<1>5. \A q \in Proc \ {p} : SameProcess(q)
  BY <1>1, <1>2 DEF SameProcess, TypeOK
<1>6. pc'[p] = IF cursor[p] < Len(file) THEN "get_data" ELSE "get_eof"
  BY <1>1, <1>2 DEF TypeOK
<1>7. LockDiscipline(p)' /\ HeldRow(p)' /\ Search(p)'
  BY <1>1, <1>2, <1>6 DEF IInv, ProcInv, LockDiscipline, HeldRow, Holding, Search,
                    Scanning, TypeOK
<1> QED
  BY <1>1, <1>3, <1>4, <1>5, <1>7, QuietStep DEF ProcInv

LEMMA NextRowKeepsIInv ==
  ASSUME IInv, NEW p \in Proc, NextRow(p)
  PROVE  IInv'
<1> USE DEF SetPC, ScanPC
<1>1. /\ pc[p] = "get_row"
      /\ row' = [row EXCEPT ![p] = Zeros]
      /\ pc' = [pc EXCEPT ![p] = "get_lock"]
      /\ UNCHANGED <<file, lock, cursor, seek, calls, faults>>
  BY DEF NextRow, Goto
<1>2. TypeOK
  BY DEF IInv
<1>3. TypeOK'
  BY <1>1, <1>2 DEF TypeOK
<1>4. LockExclusion'
  BY <1>1 DEF IInv, LockExclusion
<1>5. \A q \in Proc \ {p} : SameProcess(q)
  BY <1>1, <1>2 DEF SameProcess, TypeOK
<1>6. pc'[p] = "get_lock"
  BY <1>1, <1>2 DEF TypeOK
<1>7. LockDiscipline(p)' /\ HeldRow(p)' /\ Search(p)'
  BY <1>1, <1>2, <1>6 DEF IInv, ProcInv, LockDiscipline, HeldRow, Holding, Search,
                    Scanning, TypeOK
<1> QED
  BY <1>1, <1>3, <1>4, <1>5, <1>7, QuietStep DEF ProcInv

LEMMA GetEofKeepsIInv ==
  ASSUME IInv, NEW p \in Proc, GetEof(p)
  PROVE  IInv'
<1> USE DEF SetPC, ScanPC
<1>1. /\ pc[p] = "get_eof"
      /\ lock' = [lock EXCEPT ![p] = "none"]
      /\ pc' = [pc EXCEPT ![p] = "scan_close"]
      /\ UNCHANGED <<file, cursor, seek, row, calls, faults>>
  BY DEF GetEof, Goto
<1>2. TypeOK
  BY DEF IInv
<1>3. TypeOK'
  BY <1>1, <1>2 DEF TypeOK
<1>4. LockExclusion'
  BY <1>1, LockGranted
<1>5. \A q \in Proc \ {p} : SameProcess(q)
  BY <1>1, <1>2 DEF SameProcess, TypeOK
<1>6. pc'[p] = "scan_close" /\ lock'[p] = "none"
  BY <1>1, <1>2 DEF TypeOK
<1>7. LockDiscipline(p)' /\ HeldRow(p)' /\ Search(p)'
  BY <1>1, <1>2, <1>6 DEF IInv, ProcInv, LockDiscipline, HeldRow, Holding, Search,
                    Scanning, TypeOK
<1> QED
  BY <1>1, <1>3, <1>4, <1>5, <1>7, QuietStep DEF ProcInv

LEMMA ScanCloseKeepsIInv ==
  ASSUME IInv, NEW p \in Proc, ScanClose(p)
  PROVE  IInv'
<1> USE DEF SetPC, ScanPC
<1>1. /\ pc[p] = "scan_close"
      /\ lock' = [lock EXCEPT ![p] = "none"]
      /\ cursor' = [cursor EXCEPT ![p] = NoScan]
      /\ pc' = [pc EXCEPT ![p] = "idle"]
      /\ UNCHANGED <<file, seek, row, calls, faults>>
  BY DEF ScanClose, Goto
<1>2. TypeOK
  BY DEF IInv
<1>3. TypeOK'
  BY <1>1, <1>2 DEF TypeOK
<1>4. LockExclusion'
  BY <1>1, LockGranted
<1>5. \A q \in Proc \ {p} : SameProcess(q)
  BY <1>1, <1>2 DEF SameProcess, TypeOK
<1>6. pc'[p] = "idle" /\ lock'[p] = "none" /\ cursor'[p] = NoScan
  BY <1>1, <1>2 DEF TypeOK
<1>7. LockDiscipline(p)' /\ HeldRow(p)' /\ Search(p)'
  BY <1>1, <1>2, <1>6 DEF IInv, ProcInv, LockDiscipline, HeldRow, Holding, Search,
                    Scanning, TypeOK
<1> QED
  BY <1>1, <1>3, <1>4, <1>5, <1>7, QuietStep DEF ProcInv

(* A killed process holds nothing. *)
LEMMA KillKeepsIInv ==
  ASSUME IInv, NEW p \in Proc, Kill(p)
  PROVE  IInv'
<1> USE DEF SetPC, ScanPC
<1>1. /\ faults' = faults + 1
      /\ lock' = [lock EXCEPT ![p] = "none"]
      /\ cursor' = [cursor EXCEPT ![p] = NoScan]
      /\ seek' = [seek EXCEPT ![p] = 0]
      /\ row' = [row EXCEPT ![p] = Zeros]
      /\ pc' = [pc EXCEPT ![p] = "idle"]
      /\ UNCHANGED <<file, calls>>
  BY DEF Kill, Goto
<1>2. TypeOK
  BY DEF IInv
<1>3. TypeOK'
  BY <1>1, <1>2 DEF TypeOK
<1>4. LockExclusion'
  BY <1>1, LockGranted
<1>5. \A q \in Proc \ {p} : SameProcess(q)
  BY <1>1, <1>2 DEF SameProcess, TypeOK
<1>6. pc'[p] = "idle" /\ lock'[p] = "none" /\ cursor'[p] = NoScan
  BY <1>1, <1>2 DEF TypeOK
<1>7. LockDiscipline(p)' /\ HeldRow(p)' /\ Search(p)'
  BY <1>1, <1>2, <1>6 DEF IInv, ProcInv, LockDiscipline, HeldRow, Holding, Search,
                    Scanning, TypeOK
<1> QED
  BY <1>1, <1>3, <1>4, <1>5, <1>7, QuietStep DEF ProcInv

LEMMA IOErrorKeepsIInv ==
  ASSUME IInv, NEW p \in Proc, IOError(p)
  PROVE  IInv'
<1> USE DEF SetPC, ScanPC
<1>1. /\ faults' = faults + 1
      /\ \/ /\ pc[p] \in {"set_fetch", "set_key", "set_data"}
            /\ pc' = [pc EXCEPT ![p] = "set_close"]
         \/ /\ pc[p] \in {"get_key", "get_data"}
            /\ pc' = [pc EXCEPT ![p] = "scan_close"]
      /\ UNCHANGED <<file, lock, cursor, seek, row, calls>>
  BY DEF IOError, Goto
<1>2. TypeOK
  BY DEF IInv
<1>3. TypeOK'
  BY <1>1, <1>2, SMTT(30) DEF TypeOK
<1>4. LockExclusion'
  BY <1>1 DEF IInv, LockExclusion
<1>5. \A q \in Proc \ {p} : SameProcess(q)
  BY <1>1, <1>2 DEF SameProcess, TypeOK
<1>6. \/ pc'[p] = "set_close"
      \/ pc'[p] = "scan_close" /\ Scanning(p)
  BY <1>1, <1>2 DEF TypeOK, IInv, ProcInv, LockDiscipline
<1>7. LockDiscipline(p)' /\ HeldRow(p)' /\ Search(p)'
  BY <1>1, <1>2, <1>6 DEF IInv, ProcInv, LockDiscipline, HeldRow, Holding, Search,
                    Scanning, TypeOK
<1> QED
  BY <1>1, <1>3, <1>4, <1>5, <1>7, QuietStep DEF ProcInv

LEMMA GetDataKeepsIInv ==
  ASSUME IInv, NEW p \in Proc, GetData(p)
  PROVE  IInv'
<1> USE DEF SetPC, ScanPC
<1> DEFINE n == cursor[p] + 1
<1>1. /\ pc[p] = "get_data"
      /\ cursor' = [cursor EXCEPT ![p] = n]
      /\ UNCHANGED <<file, lock, seek, calls, faults>>
      /\ IF file[n].data = NoData
           THEN pc' = [pc EXCEPT ![p] = "get_eof"] /\ row' = row
           ELSE /\ pc' = [pc EXCEPT ![p] = "get_row"]
                /\ row' = [row EXCEPT ![p] = file[n].data]
  BY DEF GetData, Goto
<1>2. TypeOK /\ file \in Seq(RowType)
  BY DEF IInv, TypeOK, RowType
<1>3. Scanning(p) /\ lock[p] = "read" /\ cursor[p] < Len(file)
  BY <1>1 DEF IInv, ProcInv, LockDiscipline
<1>4. cursor[p] \in Nat
  BY <1>2, <1>3 DEF TypeOK, Scanning
<1>5. n \in 1..Len(file) /\ n \in Nat /\ n # NoScan
  BY <1>2, <1>3, <1>4 DEF NoScan
<1>6. file[n] \in RowType
  BY <1>2, <1>5
<1>7. TypeOK'
  BY <1>1, <1>2, <1>5, <1>6 DEF TypeOK, RowType
<1>8. LockExclusion'
  BY <1>1 DEF IInv, LockExclusion
<1>9. \A q \in Proc \ {p} : SameProcess(q)
  BY <1>1, <1>2 DEF SameProcess, TypeOK
<1>10. cursor'[p] = n /\ Scanning(p)'
  BY <1>1, <1>2, <1>5 DEF TypeOK, Scanning
<1>11. CASE file[n].data = NoData
  <2>1. pc'[p] = "get_eof"
    BY <1>1, <1>2, <1>11 DEF TypeOK
  <2>2. ProcInv(p)'
    BY <1>1, <1>3, <1>10, <2>1
       DEF ProcInv, LockDiscipline, HeldRow, Holding, Search
  <2> QED
    BY <1>1, <1>7, <1>8, <1>9, <2>2, QuietStep
<1>12. CASE file[n].data # NoData
  <2>1. pc'[p] = "get_row" /\ row'[p] = file[n].data
    BY <1>1, <1>2, <1>12 DEF TypeOK
  <2>2. ASSUME file[n].data \in Datum, ~file[n].data.down
        PROVE  file[n].key = file[n].data.key
    BY <1>5, <2>2, DatumFacts DEF IInv, RowHoldsOwnPlane
  <2>3. HeldRow(p)'
    BY <1>1, <1>5, <1>10, <2>1, <2>2 DEF HeldRow, Holding
  <2>4. LockDiscipline(p)' /\ Search(p)'
    BY <1>1, <1>3, <1>10, <2>1 DEF LockDiscipline, Search
  <2> QED
    BY <1>1, <1>7, <1>8, <1>9, <2>3, <2>4, QuietStep DEF ProcInv
<1> QED
  BY <1>11, <1>12

-----------------------------------------------------------------------------
(* The two writes                                                          *)

(* The file grows only under the write lock, and then nobody else is in    *)
(* the middle of anything that depends on where it ends.                   *)
LEMMA SetWriteKeyKeepsIInv ==
  ASSUME IInv, NEW p \in Proc, SetWriteKey(p)
  PROVE  IInv'
<1> USE DEF SetPC, ScanPC
<1> DEFINE n == Len(file) + 1
           k == row[p].key
<1>1. /\ pc[p] = "set_key" /\ seek[p] = Len(file) /\ NoMatch(p, Len(file))
      /\ row[p] \in Datum /\ (k = EmptyKey => Len(file) > 0)
      /\ lock[p] = "write" /\ ~Scanning(p)
  BY WritersHoldLocks DEF SetWriteKey, IInv, ProcInv, Search, LockDiscipline
<1>2. /\ file' = KeyWritten(n, k)
      /\ seek' = [seek EXCEPT ![p] = n]
      /\ pc' = [pc EXCEPT ![p] = "set_data"]
      /\ UNCHANGED <<lock, cursor, row, calls, faults>>
  BY <1>1 DEF SetWriteKey, Goto
<1>3. TypeOK /\ file \in Seq(RowType) /\ Len(file) \in Nat
  BY DEF IInv, TypeOK, RowType
<1>4. k \in Key
  <2>1. k # EmptyKey
    BY <1>1, <1>3 DEF NoMatch, Matches
  <2> QED
    BY <1>1, <2>1, DatumFacts
<1>5. /\ file' \in Seq(RowType)
      /\ Len(file') = n
      /\ file'[n] = [key |-> k, data |-> NoData]
      /\ \A i \in 1..Len(file) :
           /\ file'[i].key = file[i].key
           /\ file[i].data \in Datum => file'[i].data = file[i].data
           /\ file'[i].data \in Datum => file[i].data \in Datum
  BY <1>2, <1>3, <1>4, KeyWrittenFacts
<1>6. TypeOK'
  BY <1>2, <1>3, <1>5 DEF TypeOK, RowType
<1>7. LockExclusion'
  BY <1>2 DEF IInv, LockExclusion
<1>8. \A i \in 1..Len(file) : file[i].key # k
  BY <1>1 DEF NoMatch, Matches
<1>9. UniqueRows'
  BY <1>3, <1>5, <1>8 DEF IInv, UniqueRows
<1>10. RowHoldsOwnPlane'
  BY <1>3, <1>5, DataAssumption DEF IInv, RowHoldsOwnPlane
<1>11. /\ pc'[p] = "set_data" /\ seek'[p] = n /\ lock'[p] = "write"
       /\ row'[p] = row[p] /\ ~Scanning(p)'
  BY <1>1, <1>2, <1>3 DEF TypeOK, Scanning
<1>12. ProcInv(p)'
  <2>1. LockDiscipline(p)' /\ HeldRow(p)'
    BY <1>1, <1>11 DEF LockDiscipline, HeldRow, Holding
  <2>2. Search(p)'
    BY <1>3, <1>4, <1>5, <1>11, KeyAssumption DEF Search, Matches
  <2> QED
    BY <2>1, <2>2 DEF ProcInv
<1>13. ASSUME NEW q \in Proc \ {p} PROVE ProcInv(q)'
  <2>1. SameProcess(q)
    BY <1>2, <1>3 DEF SameProcess, TypeOK
  <2>2. lock[q] = "none"
    BY <1>1 DEF IInv, LockExclusion
  <2>3. LockDiscipline(q) /\ HeldRow(q) /\ Search(q)
    BY DEF IInv, ProcInv
  <2>4. pc[q] \notin {"set_fetch", "set_key", "set_data", "get_key",
                     "get_data", "get_row", "get_eof"}
    BY <2>2, <2>3 DEF LockDiscipline
  <2>5. pc[q] \in SetPC => ~Scanning(q)
    BY <2>2, <2>3, <2>4 DEF LockDiscipline
  <2>6. LockDiscipline(q)'
    BY <2>1, <2>3, <2>4 DEF LockDiscipline, SameProcess, Scanning
  <2>7. HeldRow(q)'
    BY <2>1, <2>4, <2>5 DEF HeldRow, Holding, SameProcess, Scanning
  <2>8. Search(q)'
    BY <1>3, <1>5, <2>1, <2>3, <2>4 DEF Search, SameProcess
  <2> QED
    BY <2>6, <2>7, <2>8 DEF ProcInv
<1> QED
  BY <1>6, <1>7, <1>9, <1>10, <1>12, <1>13 DEF IInv

(* Under the write lock nobody else holds a row; without it the writer is  *)
(* writing back a plane, which changes only whether the plane is down.     *)
LEMMA SetWriteDataKeepsIInv ==
  ASSUME IInv, NEW p \in Proc, SetWriteData(p)
  PROVE  IInv'
<1> USE DEF SetPC, ScanPC
<1> DEFINE n == seek[p]
           d == row[p]
<1>1. /\ pc[p] = "set_data" /\ d \in Datum /\ n \in 1..Len(file)
      /\ Matches(file[n].key, d.key) /\ (d.key = EmptyKey => n = 1)
  BY DEF SetWriteData, IInv, ProcInv, Search, LockDiscipline
<1>2. /\ file' = [file EXCEPT ![n].data = d]
      /\ pc' = [pc EXCEPT ![p] = "set_close"]
      /\ UNCHANGED <<lock, cursor, seek, row, calls, faults>>
  BY DEF SetWriteData, Goto
<1>3. TypeOK /\ file \in Seq(RowType) /\ Len(file) \in Nat
  BY DEF IInv, TypeOK, RowType
<1>4. /\ file' \in Seq(RowType)
      /\ Len(file') = Len(file)
      /\ file'[n].data = d
      /\ \A i \in 1..Len(file) : file'[i].key = file[i].key
      /\ \A i \in 1..Len(file) : i # n => file'[i].data = file[i].data
  BY <1>1, <1>2, <1>3, DataWrittenFacts
<1>5. TypeOK'
  BY <1>2, <1>3, <1>4 DEF TypeOK, RowType
<1>6. LockExclusion'
  BY <1>2 DEF IInv, LockExclusion
<1>7. UniqueRows'
  BY <1>4 DEF IInv, UniqueRows
<1>8. RowHoldsOwnPlane'
  <2> SUFFICES ASSUME NEW i \in 1..Len(file), file'[i].data \in Datum
               PROVE  \/ file'[i].data.key = file'[i].key
                      \/ file'[i].data.key = EmptyKey /\ i = 1
    BY <1>4 DEF RowHoldsOwnPlane
  <2>1. CASE i = n
    BY <1>1, <1>4, <2>1 DEF Matches
  <2>2. CASE i # n
    BY <1>4, <2>2 DEF IInv, RowHoldsOwnPlane
  <2> QED
    BY <2>1, <2>2
<1>9. ProcInv(p)'
  <2>1. pc'[p] = "set_close"
    BY <1>2, <1>3 DEF TypeOK
  <2> QED
    BY <2>1 DEF ProcInv, LockDiscipline, HeldRow, Holding, Search
<1>10. ASSUME NEW q \in Proc \ {p} PROVE ProcInv(q)'
  <2>1. SameProcess(q)
    BY <1>2, <1>3 DEF SameProcess, TypeOK
  <2>2. LockDiscipline(q) /\ HeldRow(q) /\ Search(q)
    BY DEF IInv, ProcInv
  <2>3. LockDiscipline(q)'
    BY <1>4, <2>1, <2>2 DEF LockDiscipline, SameProcess, Scanning
  <2>4. Search(q)'
    <3>1. \A m \in 0..Len(file) : NoMatch(q, m) => NoMatch(q, m)'
      BY <1>4, <2>1 DEF NoMatch, SameProcess
    <3> QED
      BY <1>3, <1>4, <2>1, <2>2, <3>1 DEF Search, SameProcess
  <2>5. HeldRow(q)'
    <3> SUFFICES ASSUME Holding(q)'
                 PROVE  /\ cursor[q] \in 1..Len(file)
                        /\ file'[cursor[q]].data \in Datum
                        /\ file'[cursor[q]].key = row[q].key
                        /\ file'[cursor[q]].data.val = row[q].val
      BY <1>4, <2>1 DEF HeldRow, SameProcess
    <3>1. Holding(q)
      BY <2>1 DEF Holding, SameProcess, Scanning
    <3>2. /\ cursor[q] \in 1..Len(file)
          /\ file[cursor[q]].data \in Datum
          /\ file[cursor[q]].key = row[q].key
          /\ file[cursor[q]].data.val = row[q].val
      BY <2>2, <3>1 DEF HeldRow
    <3>3. CASE cursor[q] # n
      BY <1>4, <3>2, <3>3
    <3>4. CASE cursor[q] = n /\ Scanning(p)
      <4>1. n = cursor[p] /\ d.val = file[n].data.val
        BY <1>1, <3>4, SearchFindsHeldRow DEF IInv, ProcInv, HeldRow, Holding
      <4> QED
        BY <1>1, <1>4, <3>2, <3>4, <4>1
    <3>5. CASE ~Scanning(p)
      <4>1. lock[q] = "none"
        BY <1>1, <3>5, WritersHoldLocks DEF IInv, LockExclusion
      <4>2. pc[q] \in {"set_lock", "set_wait", "set_fetch", "set_key",
                      "set_data", "get_row"} /\ Scanning(q)
        BY <2>2, <3>1 DEF Holding, LockDiscipline
      <4> QED
        BY <2>2, <4>1, <4>2 DEF LockDiscipline
    <3> QED
      BY <3>3, <3>4, <3>5
  <2> QED
    BY <2>3, <2>4, <2>5 DEF ProcInv
<1> QED
  BY <1>5, <1>6, <1>7, <1>8, <1>9, <1>10 DEF IInv

-----------------------------------------------------------------------------
(* Theorems                                                                *)

LEMMA InitIInv == Init => IInv
<1> SUFFICES ASSUME Init PROVE IInv
  OBVIOUS
<1>1. TypeOK
  BY DEF Init, TypeOK
<1>2. LockExclusion /\ UniqueRows /\ RowHoldsOwnPlane
  BY DEF Init, LockExclusion, UniqueRows, RowHoldsOwnPlane
<1>3. ASSUME NEW p \in Proc PROVE ProcInv(p)
  BY DEF Init, ProcInv, LockDiscipline, HeldRow, Holding, Search, Scanning,
         SetPC, ScanPC
<1> QED
  BY <1>1, <1>2, <1>3 DEF IInv

LEMMA NextIInv == IInv /\ [Next]_vars => IInv'
<1> SUFFICES ASSUME IInv, [Next]_vars PROVE IInv'
  OBVIOUS
<1>1. ASSUME UNCHANGED vars PROVE IInv'
  BY <1>1 DEF IInv, vars, TypeOK, LockExclusion, UniqueRows, RowHoldsOwnPlane,
              ProcInv, LockDiscipline, HeldRow, Holding, Search, NoMatch,
              Scanning
<1>2. ASSUME NEW p \in Proc, SetCall(p) \/ ScanCall(p) PROVE IInv'
  BY <1>2, SetCallKeepsIInv, ScanCallKeepsIInv
<1>3. ASSUME NEW p \in Proc,
             SetGranted(p) \/ SetBlocks(p) \/ SetDeadlk(p) \/ SetFetch(p)
               \/ SetFetchEof(p) \/ SetWriteKey(p) \/ SetWriteData(p)
               \/ SetClose(p)
      PROVE  IInv'
  BY <1>3, SetGrantedKeepsIInv, SetBlocksKeepsIInv, SetDeadlkKeepsIInv,
     SetFetchKeepsIInv, SetFetchEofKeepsIInv, SetWriteKeyKeepsIInv,
     SetWriteDataKeepsIInv, SetCloseKeepsIInv
<1>4. ASSUME NEW p \in Proc,
             GetGranted(p) \/ GetBlocks(p) \/ GetKey(p) \/ GetData(p)
               \/ WriteBack(p) \/ NextRow(p) \/ GetEof(p) \/ ScanClose(p)
      PROVE  IInv'
  BY <1>4, GetGrantedKeepsIInv, GetBlocksKeepsIInv, GetKeyKeepsIInv,
     GetDataKeepsIInv, WriteBackKeepsIInv, NextRowKeepsIInv, GetEofKeepsIInv,
     ScanCloseKeepsIInv
<1>5. ASSUME NEW p \in Proc, Kill(p) \/ IOError(p) PROVE IInv'
  BY <1>5, KillKeepsIInv, IOErrorKeepsIInv
<1> QED
  BY <1>1, <1>2, <1>3, <1>4, <1>5 DEF Next, Step, Done

(* Everything below follows from the invariant being inductive. *)
THEOREM Inductive == Spec => []IInv
BY InitIInv, NextIInv, PTL DEF Spec

(* Types are respected however calls interleave, are killed or fail.       *)
THEOREM TypeCorrect == Spec => []TypeOK
<1>1. IInv => TypeOK
  BY DEF IInv
<1> QED
  BY <1>1, Inductive, PTL

(* sto_set never gives a key a second row, whatever happens to the calls.  *)
THEOREM KeysAreUnique == Spec => []UniqueRows
<1>1. IInv => UniqueRows
  BY DEF IInv
<1> QED
  BY <1>1, Inductive, PTL

(* sto_set never stores a plane under another plane's key, but for a zeroed *)
(* record over the first row.                                              *)
THEOREM RowsHoldTheirPlane == Spec => []RowHoldsOwnPlane
<1>1. IInv => RowHoldsOwnPlane
  BY DEF IInv
<1> QED
  BY <1>1, Inductive, PTL

(* get_airplanes stores a plane that came down into the row it read, found *)
(* again by its key, with nobody's command lost in between: for this the   *)
(* read lock, kept across the refused upgrade, is enough.                  *)
THEOREM WriteBacksHit == Spec => []WriteBackHitsRowRead
<1>1. IInv => WriteBackHitsRowRead
  <2> SUFFICES ASSUME IInv, NEW p \in Proc, Scanning(p), pc[p] \in SetPC
               PROVE  /\ cursor[p] \in 1..Len(file)
                      /\ file[cursor[p]].data \in Datum
                      /\ file[cursor[p]].key = row[p].key
                      /\ file[cursor[p]].data.val = row[p].val
                      /\ pc[p] # "set_key"
                      /\ pc[p] = "set_data" => seek[p] = cursor[p]
    BY DEF WriteBackHitsRowRead
  <2> QED
    BY SearchFindsHeldRow DEF IInv, ProcInv, HeldRow, Holding
<1> QED
  BY <1>1, Inductive, PTL

(* Nobody reads or writes a row while another process appends one. *)
LEMMA AppendsAlone == IInv => AppendsAreExclusive
<1> SUFFICES ASSUME IInv, NEW p \in Proc, NEW q \in Proc, p # q,
                    \/ pc[p] = "set_key"
                    \/ pc[p] = "set_data" /\ file[seek[p]].data \notin Datum
             PROVE  /\ lock[p] = "write"
                    /\ pc[q] \notin {"set_fetch", "set_key", "set_data",
                                    "get_key", "get_data", "get_row"}
  BY DEF AppendsAreExclusive
<1>1. lock[p] = "write"
  <2>1. CASE pc[p] = "set_key"
    BY <2>1, WritersHoldLocks
  <2>2. CASE pc[p] = "set_data" /\ file[seek[p]].data \notin Datum
    <3>1. ASSUME Scanning(p) PROVE FALSE
      BY <2>2, <3>1, SearchFindsHeldRow
         DEF IInv, ProcInv, HeldRow, Holding, SetPC
    <3> QED
      BY <2>2, <3>1, WritersHoldLocks
  <2> QED
    BY <2>1, <2>2
<1>2. lock[q] = "none"
  BY <1>1 DEF IInv, LockExclusion
<1> QED
  BY <1>1, <1>2 DEF IInv, ProcInv, LockDiscipline

(* A row is appended in isolation, although some writes are not locked.    *)
THEOREM AppendsInIsolation == Spec => []AppendsAreExclusive
BY AppendsAlone, Inductive, PTL

-----------------------------------------------------------------------------
(* Faults and rows without data                                            *)

(* Everyone who is about to write data still is, and to the same row. *)
WritersStay(p) ==
  pc[p] = "set_data" => pc'[p] = "set_data" /\ seek'[p] = seek[p]

LEMMA OthersKeepCutShort ==
  ASSUME IInv, UNCHANGED file, NEW p \in Proc,
         \A q \in Proc \ {p} : WritersStay(q)
  PROVE  /\ CutShort' \subseteq CutShort \cup {seek[p]}
         /\ WritersStay(p) => CutShort' \subseteq CutShort
BY DEF CutShort, WritersStay

(* The two writes of an append, the first of which its writer is to follow  *)
(* with the second.                                                        *)
LEMMA WritesKeepCutShort ==
  ASSUME IInv, NEW p \in Proc, SetWriteKey(p) \/ SetWriteData(p)
  PROVE  CutShort' \subseteq CutShort
<1>1. TypeOK /\ file \in Seq(RowType) /\ Len(file) \in Nat
  BY DEF IInv, TypeOK, RowType
<1>2. CASE SetWriteKey(p)
  <2>1. /\ pc[p] = "set_key" /\ seek[p] = Len(file) /\ NoMatch(p, Len(file))
        /\ row[p] \in Datum /\ (row[p].key = EmptyKey => Len(file) > 0)
    BY <1>2 DEF SetWriteKey, IInv, ProcInv, Search, LockDiscipline, SetPC
  <2>2. row[p].key \in Key
    <3>1. row[p].key # EmptyKey
      BY <1>1, <2>1 DEF NoMatch, Matches
    <3> QED
      BY <2>1, <3>1, DatumFacts
  <2>3. /\ file' = KeyWritten(Len(file) + 1, row[p].key)
        /\ \A q \in Proc \ {p} : pc'[q] = pc[q] /\ seek'[q] = seek[q]
        /\ pc'[p] = "set_data" /\ seek'[p] = Len(file) + 1
    BY <1>1, <1>2, <2>1 DEF SetWriteKey, Goto, TypeOK
  <2>4. /\ Len(file') = Len(file) + 1
        /\ \A i \in 1..Len(file) :
             file[i].data \in Datum => file'[i].data = file[i].data
    BY <1>1, <2>2, <2>3, KeyWrittenFacts
  <2>5. ASSUME NEW i \in CutShort' PROVE i \in CutShort
    <3>1. i \in 1..(Len(file) + 1) /\ file'[i].data \notin Datum
          /\ ~ \E q \in Proc : pc'[q] = "set_data" /\ seek'[q] = i
      BY <2>4, <2>5 DEF CutShort
    <3>2. i \in 1..Len(file)
      BY <1>1, <2>3, <3>1
    <3>3. file[i].data \notin Datum
      BY <2>4, <3>1, <3>2
    <3>4. ~ \E q \in Proc : pc[q] = "set_data" /\ seek[q] = i
      BY <2>1, <2>3, <3>1
    <3> QED
      BY <3>2, <3>3, <3>4 DEF CutShort
  <2> QED
    BY <2>5
<1>3. CASE SetWriteData(p)
  <2>1. pc[p] = "set_data" /\ seek[p] \in 1..Len(file) /\ row[p] \in Datum
    BY <1>3 DEF SetWriteData, IInv, ProcInv, Search, LockDiscipline, SetPC
  <2>2. /\ file' = [file EXCEPT ![seek[p]].data = row[p]]
        /\ \A q \in Proc \ {p} : pc'[q] = pc[q]
        /\ UNCHANGED seek
    BY <1>1, <1>3 DEF SetWriteData, Goto, TypeOK
  <2>3. /\ Len(file') = Len(file)
        /\ file'[seek[p]].data = row[p]
        /\ \A i \in 1..Len(file) : i # seek[p] => file'[i].data = file[i].data
    BY <1>1, <2>1, <2>2, DataWrittenFacts
  <2>4. ASSUME NEW i \in CutShort' PROVE i \in CutShort
    <3>1. i \in 1..Len(file) /\ file'[i].data \notin Datum
          /\ ~ \E q \in Proc : pc'[q] = "set_data" /\ seek'[q] = i
      BY <2>3, <2>4 DEF CutShort
    <3>2. i # seek[p]
      BY <2>1, <2>3, <3>1
    <3> QED
      BY <2>2, <2>3, <3>1, <3>2 DEF CutShort
  <2> QED
    BY <2>4
<1> QED
  BY <1>2, <1>3

(* A row loses its writer to a fault or not at all, and one to each fault. *)
LEMMA NextCutShort ==
  ASSUME IInv, [Next]_vars
  PROVE  \/ CutShort' \subseteq CutShort /\ faults' \in {faults, faults + 1}
         \/ /\ \E n \in Nat : CutShort' \subseteq CutShort \cup {n}
            /\ faults' = faults + 1
<1>1. TypeOK
  BY DEF IInv
<1>2. ASSUME NEW p \in Proc, SetCall(p) \/ ScanCall(p)
      PROVE  CutShort' \subseteq CutShort /\ faults' = faults
  <2>1. UNCHANGED <<file, faults>> /\ \A q \in Proc : WritersStay(q)
    BY <1>1, <1>2 DEF SetCall, ScanCall, Goto, WritersStay, TypeOK
  <2> QED
    BY <2>1, OthersKeepCutShort
<1>3. ASSUME NEW p \in Proc,
             SetGranted(p) \/ SetBlocks(p) \/ SetDeadlk(p) \/ SetFetch(p)
               \/ SetFetchEof(p) \/ SetClose(p)
      PROVE  CutShort' \subseteq CutShort /\ faults' = faults
  <2>1. UNCHANGED <<file, faults>> /\ \A q \in Proc : WritersStay(q)
    BY <1>1, <1>3 DEF SetGranted, SetBlocks, SetDeadlk, SetFetch, SetFetchEof,
       SetClose, Goto, WritersStay, TypeOK
  <2> QED
    BY <2>1, OthersKeepCutShort
<1>4. ASSUME NEW p \in Proc,
             GetGranted(p) \/ GetBlocks(p) \/ GetKey(p) \/ GetData(p)
               \/ WriteBack(p) \/ NextRow(p) \/ GetEof(p) \/ ScanClose(p)
      PROVE  CutShort' \subseteq CutShort /\ faults' = faults
  <2>1. UNCHANGED <<file, faults>> /\ \A q \in Proc : WritersStay(q)
    BY <1>1, <1>4 DEF GetGranted, GetBlocks, GetKey, GetData, WriteBack,
       NextRow, GetEof, ScanClose, Goto, WritersStay, TypeOK
  <2> QED
    BY <2>1, OthersKeepCutShort
<1>5. ASSUME NEW p \in Proc, SetWriteKey(p) \/ SetWriteData(p)
      PROVE  CutShort' \subseteq CutShort /\ faults' = faults
  BY <1>5, WritesKeepCutShort DEF SetWriteKey, SetWriteData
<1>6. ASSUME NEW p \in Proc, Kill(p) \/ IOError(p)
      PROVE  /\ \E n \in Nat : CutShort' \subseteq CutShort \cup {n}
             /\ faults' = faults + 1
  <2>1. /\ UNCHANGED file /\ faults' = faults + 1
        /\ \A q \in Proc \ {p} : WritersStay(q)
    BY <1>1, <1>6 DEF Kill, IOError, Goto, WritersStay, TypeOK
  <2>2. seek[p] \in Nat
    BY <1>1 DEF TypeOK
  <2> QED
    BY <2>1, <2>2, OthersKeepCutShort
<1>7. ASSUME UNCHANGED vars
      PROVE  CutShort' \subseteq CutShort /\ faults' = faults
  BY <1>7 DEF vars, CutShort
<1> QED
  BY <1>2, <1>3, <1>4, <1>5, <1>6, <1>7 DEF Next, Step, Done

(* However many processes and calls there are, the rows left without data  *)
(* are no more than the processes killed and the calls that failed.        *)
THEOREM DamageIsOwed == Spec => []DamageNeedsFault
<1>1. ASSUME IInv PROVE IsFiniteSet(CutShort)
  <2>1. CutShort \subseteq 1..Len(file) /\ Len(file) \in Nat
    BY <1>1 DEF CutShort, IInv, TypeOK
  <2>2. IsFiniteSet(1..Len(file))
    BY <2>1, FS_Interval
  <2> QED
    BY <2>1, <2>2, FS_Subset
<1>2. Init => DamageNeedsFault
  <2> SUFFICES ASSUME Init PROVE DamageNeedsFault
    OBVIOUS
  <2>1. CutShort = {}
    BY DEF Init, CutShort
  <2> QED
    BY <2>1, FS_EmptySet DEF Init, DamageNeedsFault
<1>3. IInv /\ DamageNeedsFault /\ [Next]_vars => DamageNeedsFault'
  <2> SUFFICES ASSUME IInv, DamageNeedsFault, [Next]_vars
               PROVE  DamageNeedsFault'
    OBVIOUS
  <2>1. IsFiniteSet(CutShort) /\ Cardinality(CutShort) \in Nat /\ faults \in Nat
    BY <1>1, FS_CardinalityType DEF IInv, TypeOK
  <2>2. CASE CutShort' \subseteq CutShort /\ faults' \in {faults, faults + 1}
    <3>1. /\ Cardinality(CutShort') <= Cardinality(CutShort)
          /\ Cardinality(CutShort') \in Nat
      BY <2>1, <2>2, FS_Subset, FS_CardinalityType
    <3> QED
      BY <2>1, <2>2, <3>1 DEF DamageNeedsFault
  <2>3. ASSUME NEW n \in Nat, CutShort' \subseteq CutShort \cup {n},
               faults' = faults + 1
        PROVE  DamageNeedsFault'
    <3>1. /\ IsFiniteSet(CutShort \cup {n})
          /\ Cardinality(CutShort \cup {n}) <= Cardinality(CutShort) + 1
          /\ Cardinality(CutShort \cup {n}) \in Nat
      <4>1. IsFiniteSet(CutShort \cup {n})
        BY <2>1, FS_AddElement
      <4>2. Cardinality(CutShort \cup {n})
              \in {Cardinality(CutShort), Cardinality(CutShort) + 1}
        BY <2>1, FS_AddElement
      <4> QED
        BY <2>1, <4>1, <4>2
    <3>2. /\ Cardinality(CutShort') <= Cardinality(CutShort \cup {n})
          /\ Cardinality(CutShort') \in Nat
      BY <2>3, <3>1, FS_Subset, FS_CardinalityType
    <3> QED
      BY <2>1, <2>3, <3>1, <3>2 DEF DamageNeedsFault
  <2> QED
    BY <2>2, <2>3, NextCutShort
<1> QED
  BY <1>2, <1>3, Inductive, PTL DEF Spec

-----------------------------------------------------------------------------
(* Without faults                                                          *)

(* Only the last row can be without data, and its writer is about to write *)
(* them.                                                                   *)
RowsWhole ==
  \A i \in 1..Len(file) :
    \/ file[i].data \in Datum
    \/ /\ i = Len(file) /\ file[i].data = NoData
       /\ \E p \in Proc :
            pc[p] = "set_data" /\ seek[p] = i /\ row[p].key = file[i].key

(* A scan never goes past the rows that have data, and what it is given is *)
(* a plane.                                                                *)
RowsPassed ==
  \A p \in Proc :
    /\ pc[p] = "get_row" => row[p] \in Datum
    /\ Position[p] # NoScan => Position[p] <= Complete

FInv == faults = 0 => RowsWhole /\ RowsPassed

SameWriter(p) == pc[p] = "set_data" =>
  pc'[p] = "set_data" /\ seek'[p] = seek[p] /\ row'[p] = row[p]

(* While the file is left alone: no scan moves but over a row with data. *)
SoundScan(p) ==
  /\ pc'[p] = "get_row" => row'[p] \in Datum
  /\ Position'[p] # NoScan => Position'[p] <= Complete

LEMMA QuietFInv ==
  ASSUME IInv, FInv, UNCHANGED <<file, faults>>, \A p \in Proc : SameWriter(p),
         faults = 0 => \A p \in Proc : SoundScan(p)
  PROVE  FInv'
<1>1. RowsWhole => RowsWhole'
  BY DEF RowsWhole, SameWriter
<1>2. Complete' = Complete
  BY DEF Complete
<1> QED
  BY <1>1, <1>2 DEF FInv, RowsPassed, SoundScan

(* The last row is the only one that can be incomplete. *)
LEMMA CompleteFacts ==
  ASSUME IInv
  PROVE  /\ Complete \in {Len(file), Len(file) - 1} /\ Complete \in Nat
         /\ \A i \in 1..Len(file) : file[i].data # NoData => i <= Complete
         /\ Len(CompleteRows) = Complete
         /\ \A i \in 1..Complete : i \in 1..Len(file) /\ CompleteRows[i] = file[i]
<1>1. file \in Seq(RowType) /\ Len(file) \in Nat
  BY DEF IInv, TypeOK, RowType
<1>2. Complete \in {Len(file), Len(file) - 1} /\ Complete \in Nat
  <2>1. file # << >> => Len(file) > 0
    BY <1>1
  <2> QED
    BY <1>1, <2>1 DEF Complete
<1>3. \A i \in 1..Len(file) : file[i].data # NoData => i <= Complete
  BY <1>1 DEF Complete
<1>4. Len(CompleteRows) = Complete
  BY <1>2 DEF CompleteRows
<1>5. \A i \in 1..Complete : i \in 1..Len(file) /\ CompleteRows[i] = file[i]
  BY <1>1, <1>2 DEF CompleteRows
<1> QED
  BY <1>2, <1>3, <1>4, <1>5

(* Nobody appends where another process reads or writes: then every row    *)
(* has its data.                                                           *)
LEMMA NobodyAppends ==
  ASSUME IInv, RowsWhole, NEW p \in Proc,
         \/ pc[p] \in {"set_key", "get_key", "get_data", "get_row"}
         \/ pc[p] = "set_data" /\ file[seek[p]].data \in Datum
  PROVE  /\ \A i \in 1..Len(file) : file[i].data \in Datum
         /\ Complete = Len(file)
<1>1. file \in Seq(RowType) /\ Len(file) \in Nat
  BY DEF IInv, TypeOK, RowType
<1>2. \A i \in 1..Len(file) : file[i].data \in Datum
  <2> SUFFICES ASSUME NEW i \in 1..Len(file), file[i].data \notin Datum
               PROVE  FALSE
    OBVIOUS
  <2>1. PICK q \in Proc : pc[q] = "set_data" /\ seek[q] = i
    BY DEF RowsWhole
  <2>2. p # q
    BY <2>1
  <2>3. AppendsAreExclusive
    BY AppendsAlone
  <2> QED
    BY <2>1, <2>2, <2>3 DEF AppendsAreExclusive
<1>3. Complete = Len(file)
  BY <1>1, <1>2, DataAssumption DEF Complete
<1> QED
  BY <1>2, <1>3

LEMMA WriteKeyFInv ==
  ASSUME IInv, FInv, NEW p \in Proc, SetWriteKey(p)
  PROVE  /\ FInv'
         /\ faults = 0 => Complete' = Complete /\ CompleteRows' = CompleteRows
<1> DEFINE n == Len(file) + 1
           k == row[p].key
<1>1. TypeOK /\ file \in Seq(RowType) /\ Len(file) \in Nat
  BY DEF IInv, TypeOK, RowType
<1>2. /\ pc[p] = "set_key" /\ seek[p] = Len(file) /\ NoMatch(p, Len(file))
      /\ row[p] \in Datum /\ (k = EmptyKey => Len(file) > 0)
  BY DEF SetWriteKey, IInv, ProcInv, Search, LockDiscipline, SetPC
<1>3. k \in Key
  <2>1. k # EmptyKey
    BY <1>1, <1>2 DEF NoMatch, Matches
  <2> QED
    BY <1>2, <2>1, DatumFacts
<1>4. /\ file' = KeyWritten(n, k)
      /\ seek' = [seek EXCEPT ![p] = n]
      /\ pc' = [pc EXCEPT ![p] = "set_data"]
      /\ UNCHANGED <<lock, cursor, row, calls, faults>>
  BY <1>1, <1>2 DEF SetWriteKey, Goto
<1>5. /\ file' \in Seq(RowType)
      /\ Len(file') = n
      /\ file'[n] = [key |-> k, data |-> NoData]
      /\ \A i \in 1..Len(file) :
           /\ file'[i].key = file[i].key
           /\ file[i].data \in Datum => file'[i].data = file[i].data
  BY <1>1, <1>3, <1>4, KeyWrittenFacts
<1>6. pc'[p] = "set_data" /\ seek'[p] = n /\ row'[p].key = k
  BY <1>1, <1>4 DEF TypeOK
<1> SUFFICES ASSUME faults = 0
             PROVE  /\ RowsWhole' /\ RowsPassed'
                    /\ Complete' = Complete /\ CompleteRows' = CompleteRows
  BY <1>4 DEF FInv
<1>7. RowsWhole /\ RowsPassed
  BY DEF FInv
<1>8. /\ \A i \in 1..Len(file) : file[i].data \in Datum
      /\ Complete = Len(file)
  BY <1>2, <1>7, NobodyAppends
<1>9. Complete' = Complete
  BY <1>1, <1>5, <1>8 DEF Complete
<1>10. RowsWhole'
  BY <1>1, <1>5, <1>6, <1>8 DEF RowsWhole
<1>11. RowsPassed'
  <2> SUFFICES ASSUME NEW q \in Proc
               PROVE  /\ pc'[q] = "get_row" => row'[q] \in Datum
                      /\ Position'[q] # NoScan => Position'[q] <= Complete
    BY <1>9 DEF RowsPassed
  <2>1. CASE q = p
    <3>1. ~Scanning(p)
      BY <1>2, WritersHoldLocks
    <3> QED
      BY <1>4, <1>6, <2>1, <3>1 DEF Position, Scanning
  <2>2. CASE q # p
    <3>1. pc'[q] = pc[q] /\ row'[q] = row[q] /\ cursor'[q] = cursor[q]
      BY <1>1, <1>4, <2>2 DEF TypeOK
    <3> QED
      BY <1>7, <3>1 DEF RowsPassed, Position
  <2> QED
    BY <2>1, <2>2
<1>12. CompleteRows' = CompleteRows
  <2>1. \A i \in 1..Len(file) : file'[i] = file[i]
    BY <1>1, <1>4, <1>8, DataAssumption DEF KeyWritten
  <2> QED
    BY <1>1, <1>8, <1>9, <2>1 DEF CompleteRows
<1> QED
  BY <1>9, <1>10, <1>11, <1>12

LEMMA WriteDataFInv ==
  ASSUME IInv, FInv, NEW p \in Proc, SetWriteData(p)
  PROVE  FInv'
<1> DEFINE n == seek[p]
           d == row[p]
<1>1. TypeOK /\ file \in Seq(RowType) /\ Len(file) \in Nat
  BY DEF IInv, TypeOK, RowType
<1>2. /\ pc[p] = "set_data" /\ d \in Datum /\ n \in 1..Len(file)
  BY DEF SetWriteData, IInv, ProcInv, Search, LockDiscipline, SetPC
<1>3. /\ file' = [file EXCEPT ![n].data = d]
      /\ pc' = [pc EXCEPT ![p] = "set_close"]
      /\ UNCHANGED <<lock, cursor, seek, row, calls, faults>>
  BY DEF SetWriteData, Goto
<1>4. /\ file' \in Seq(RowType)
      /\ Len(file') = Len(file)
      /\ file'[n].data = d
      /\ \A i \in 1..Len(file) : file'[i].key = file[i].key
      /\ \A i \in 1..Len(file) : i # n => file'[i].data = file[i].data
  BY <1>1, <1>2, <1>3, DataWrittenFacts
<1> SUFFICES ASSUME faults = 0 PROVE RowsWhole' /\ RowsPassed'
  BY <1>3 DEF FInv
<1>5. RowsWhole /\ RowsPassed
  BY DEF FInv
<1>6. RowsWhole'
  <2> SUFFICES ASSUME NEW i \in 1..Len(file), file'[i].data \notin Datum
               PROVE  /\ i = Len(file) /\ file'[i].data = NoData
                      /\ \E q \in Proc : /\ pc'[q] = "set_data" /\ seek'[q] = i
                                         /\ row'[q].key = file'[i].key
    BY <1>4 DEF RowsWhole
  <2>1. i # n /\ file[i].data \notin Datum /\ file'[i].data = file[i].data
    BY <1>2, <1>4
  <2>2. PICK q \in Proc :
          pc[q] = "set_data" /\ seek[q] = i /\ row[q].key = file[i].key
    BY <1>5, <2>1 DEF RowsWhole
  <2>3. pc'[q] = "set_data"
    BY <1>1, <1>3, <2>1, <2>2 DEF TypeOK
  <2> QED
    BY <1>3, <1>4, <1>5, <2>1, <2>2, <2>3 DEF RowsWhole
<1>7. Complete \in Nat /\ Complete' \in Nat /\ Complete <= Complete'
  BY <1>1, <1>2, <1>4, DataAssumption DEF Complete
<1>8. RowsPassed'
  <2> SUFFICES ASSUME NEW q \in Proc
               PROVE  /\ pc'[q] = "get_row" => row'[q] \in Datum
                      /\ Position'[q] # NoScan => Position'[q] <= Complete'
    BY DEF RowsPassed
  <2>1. /\ pc'[q] = "get_row" => pc[q] = "get_row"
        /\ Position'[q] = Position[q] /\ cursor[q] \in Nat \cup {NoScan}
    BY <1>1, <1>2, <1>3 DEF TypeOK, Position
  <2> QED
    BY <1>3, <1>5, <1>7, <2>1 DEF RowsPassed, Position
<1> QED
  BY <1>6, <1>8

LEMMA GetDataFInv ==
  ASSUME IInv, FInv, NEW p \in Proc, GetData(p)
  PROVE  /\ FInv'
         /\ faults = 0 => /\ cursor[p] + 1 \in 1..Complete
                          /\ file[cursor[p] + 1].data \in Datum
<1>1. TypeOK /\ Len(file) \in Nat
  BY DEF IInv, TypeOK
<1>2. /\ pc[p] = "get_data" /\ Scanning(p) /\ cursor[p] < Len(file)
  BY DEF GetData, IInv, ProcInv, LockDiscipline, ScanPC
<1>3. cursor[p] \in Nat /\ cursor[p] + 1 \in 1..Len(file)
  BY <1>1, <1>2 DEF TypeOK, Scanning
<1>4. ASSUME faults = 0
      PROVE  cursor[p] + 1 \in 1..Complete /\ file[cursor[p] + 1].data \in Datum
  <2>1. RowsWhole
    BY <1>4 DEF FInv
  <2> QED
    BY <1>2, <1>3, <2>1, NobodyAppends
<1>5. UNCHANGED <<file, faults>> /\ \A q \in Proc : SameWriter(q)
  BY <1>1 DEF GetData, Goto, SameWriter, TypeOK
<1>6. ASSUME faults = 0, NEW q \in Proc PROVE SoundScan(q)
  <2>1. CASE q = p
    <3>1. /\ pc' = [pc EXCEPT ![p] = "get_row"]
          /\ row' = [row EXCEPT ![p] = file[cursor[p] + 1].data]
          /\ cursor' = [cursor EXCEPT ![p] = @ + 1]
      BY <1>4, <1>6, DataAssumption DEF GetData, Goto
    <3>2. /\ row'[p] \in Datum /\ pc'[p] = "get_row"
          /\ cursor'[p] = cursor[p] + 1
      BY <1>1, <1>4, <1>6, <3>1 DEF TypeOK
    <3> QED
      BY <1>4, <1>6, <2>1, <3>2 DEF SoundScan, Position
  <2>2. CASE q # p
    <3>1. pc'[q] = pc[q] /\ row'[q] = row[q] /\ cursor'[q] = cursor[q]
      BY <1>1, <2>2 DEF GetData, Goto, TypeOK
    <3> QED
      BY <1>6, <3>1 DEF FInv, RowsPassed, SoundScan, Position
  <2> QED
    BY <2>1, <2>2
<1> QED
  BY <1>4, <1>5, <1>6, QuietFInv

LEMMA NextFInv == IInv /\ FInv /\ [Next]_vars => FInv'
<1> SUFFICES ASSUME IInv, FInv, [Next]_vars PROVE FInv'
  OBVIOUS
<1>1. TypeOK
  BY DEF IInv
<1>2. Complete \in Nat
  BY CompleteFacts
<1>3. ASSUME UNCHANGED <<file, faults>>, NEW p \in Proc, SameWriter(p),
             \A q \in Proc \ {p} : SameProcess(q),
             faults = 0 => SoundScan(p)
      PROVE  FInv'
  <2>1. ASSUME NEW q \in Proc \ {p}
        PROVE  SameWriter(q) /\ (faults = 0 => SoundScan(q))
    BY <1>3 DEF SameWriter, SoundScan, SameProcess, FInv, RowsPassed, Position
  <2> QED
    BY <1>3, <2>1, QuietFInv
<1>4. ASSUME NEW p \in Proc, SetCall(p) \/ ScanCall(p) PROVE FInv'
  <2>1. /\ UNCHANGED <<file, faults>> /\ SameWriter(p)
        /\ \A q \in Proc \ {p} : SameProcess(q)
    BY <1>1, <1>4 DEF SetCall, ScanCall, Goto, SameWriter, SameProcess, TypeOK
  <2>2. ~Scanning(p)
    BY <1>4 DEF SetCall, ScanCall, IInv, ProcInv, LockDiscipline
  <2>3. pc'[p] # "get_row" /\ cursor'[p] \in {NoScan, 0}
    BY <1>1, <1>4, <2>2 DEF SetCall, ScanCall, Goto, TypeOK, Scanning
  <2>4. SoundScan(p)
    BY <1>2, <2>3 DEF SoundScan, Position
  <2> QED
    BY <1>3, <2>1, <2>4
<1>5. ASSUME NEW p \in Proc,
             SetGranted(p) \/ SetBlocks(p) \/ SetDeadlk(p) \/ SetFetch(p)
               \/ SetFetchEof(p) \/ SetClose(p) \/ GetGranted(p)
               \/ GetBlocks(p) \/ GetKey(p) \/ WriteBack(p) \/ NextRow(p)
               \/ GetEof(p) \/ ScanClose(p)
      PROVE  FInv'
  <2>1. /\ UNCHANGED <<file, faults>> /\ SameWriter(p)
        /\ \A q \in Proc \ {p} : SameProcess(q)
    BY <1>1, <1>5 DEF SetGranted, SetBlocks, SetDeadlk, SetFetch, SetFetchEof,
       SetClose, GetGranted, GetBlocks, GetKey, WriteBack, NextRow, GetEof,
       ScanClose, Goto, SameWriter, SameProcess, TypeOK
  <2>2. pc'[p] # "get_row" /\ Position'[p] \in {Position[p], NoScan}
    BY <1>1, <1>5 DEF SetGranted, SetBlocks, SetDeadlk, SetFetch, SetFetchEof,
       SetClose, GetGranted, GetBlocks, GetKey, WriteBack, NextRow, GetEof,
       ScanClose, Goto, Position, TypeOK, Scanning
  <2>3. faults = 0 => SoundScan(p)
    BY <2>2 DEF FInv, RowsPassed, SoundScan
  <2> QED
    BY <1>3, <2>1, <2>3
<1>6. ASSUME NEW p \in Proc, Kill(p) \/ IOError(p) PROVE FInv'
  BY <1>1, <1>6 DEF Kill, IOError, FInv, TypeOK
<1>7. ASSUME UNCHANGED vars PROVE FInv'
  BY <1>7 DEF vars, FInv, RowsWhole, RowsPassed, Position, Complete
<1> QED
  BY <1>4, <1>5, <1>6, <1>7, WriteKeyFInv, WriteDataFInv, GetDataFInv
     DEF Next, Step, Done

-----------------------------------------------------------------------------
(* Storage implements Table                                                *)

LEMMA InitTable == Init => Tbl!Init
<1> SUFFICES ASSUME Init PROVE Tbl!Init
  OBVIOUS
<1>1. CompleteRows = << >>
  BY DEF Init, CompleteRows, Complete
<1>2. /\ Pending = [p \in Proc |-> None]
      /\ Given = [p \in Proc |-> None]
  BY DEF Init, Pending, Given, SetPC
<1>3. Position = [p \in Proc |-> NoScan]
  BY DEF Init, Position
<1>4. Attached = [p \in Proc |-> FALSE]
  BY <1>3 DEF Init, Attached
<1> QED
  BY <1>1, <1>2, <1>3, <1>4 DEF Tbl!Init, Tbl!NoScan, NoScan

(* What Table sees of a process. *)
SameView(p) ==
  /\ Pending[p]' = Pending[p]
  /\ Given[p]' = Given[p]
  /\ Position[p]' = Position[p]
  /\ Attached[p]' = Attached[p]

(* A step of p changes what Table sees of p alone. *)
LEMMA OneView ==
  ASSUME NEW p \in Proc, \A q \in Proc \ {p} : SameProcess(q)
  PROVE  /\ Pending' = [Pending EXCEPT ![p] = Pending[p]']
         /\ Given' = [Given EXCEPT ![p] = Given[p]']
         /\ Position' = [Position EXCEPT ![p] = Position[p]']
         /\ Attached' = [Attached EXCEPT ![p] = Attached[p]']
         /\ Pending[p]' = Pending[p] => Pending' = Pending
         /\ Given[p]' = Given[p] => Given' = Given
         /\ Position[p]' = Position[p] => Position' = Position
         /\ Attached[p]' = Attached[p] => Attached' = Attached
<1>1. \A q \in Proc \ {p} : SameView(q)
  BY DEF SameProcess, SameView, Pending, Given, Position, Attached
<1>2. /\ Pending' = [Pending EXCEPT ![p] = Pending[p]']
      /\ Pending[p]' = Pending[p] => Pending' = Pending
  <2>1. \A q \in Proc \ {p} : Pending'[q] = Pending[q]
    BY <1>1 DEF SameView
  <2>2. /\ Pending = [q \in Proc |-> Pending[q]]
        /\ Pending' = [q \in Proc |-> Pending'[q]]
    BY DEF Pending
  <2> QED
    BY <2>1, <2>2
<1>3. /\ Given' = [Given EXCEPT ![p] = Given[p]']
      /\ Given[p]' = Given[p] => Given' = Given
  <2>1. \A q \in Proc \ {p} : Given'[q] = Given[q]
    BY <1>1 DEF SameView
  <2>2. /\ Given = [q \in Proc |-> Given[q]]
        /\ Given' = [q \in Proc |-> Given'[q]]
    BY DEF Given
  <2> QED
    BY <2>1, <2>2
<1>4. /\ Position' = [Position EXCEPT ![p] = Position[p]']
      /\ Position[p]' = Position[p] => Position' = Position
  <2>1. \A q \in Proc \ {p} : Position'[q] = Position[q]
    BY <1>1 DEF SameView
  <2>2. /\ Position = [q \in Proc |-> Position[q]]
        /\ Position' = [q \in Proc |-> Position'[q]]
    BY DEF Position
  <2> QED
    BY <2>1, <2>2
<1>5. /\ Attached' = [Attached EXCEPT ![p] = Attached[p]']
      /\ Attached[p]' = Attached[p] => Attached' = Attached
  <2>1. \A q \in Proc \ {p} : Attached'[q] = Attached[q]
    BY <1>1 DEF SameView
  <2>2. /\ Attached = [q \in Proc |-> Attached[q]]
        /\ Attached' = [q \in Proc |-> Attached'[q]]
    BY DEF Attached
  <2> QED
    BY <2>1, <2>2
<1> QED
  BY <1>2, <1>3, <1>4, <1>5

(* The table itself is the part of the file that is complete. *)
LEMMA SameRows ==
  ASSUME UNCHANGED file
  PROVE  UNCHANGED CompleteRows
BY DEF CompleteRows, Complete

LEMMA Stutter ==
  ASSUME NEW p \in Proc, \A q \in Proc \ {p} : SameProcess(q), SameView(p),
         UNCHANGED CompleteRows
  PROVE  UNCHANGED Tbl!vars
BY OneView DEF SameView, Tbl!vars

LEMMA SetCallMaps ==
  ASSUME IInv, NEW p \in Proc, SetCall(p)
  PROVE  Tbl!Next
<1>1. TypeOK
  BY DEF IInv
<1>2. PICK d \in Datum :
        /\ d.key = EmptyKey => \E i \in 1..Len(file) : file[i].data # NoData
        /\ row' = [row EXCEPT ![p] = d]
  BY DEF SetCall
<1>3. /\ pc[p] = "idle" /\ pc'[p] = "set_lock" /\ row'[p] = d
      /\ UNCHANGED <<file, lock, cursor>>
      /\ \A q \in Proc \ {p} : SameProcess(q)
      /\ ~Scanning(p)
  BY <1>1, <1>2 DEF SetCall, Goto, TypeOK, SameProcess, IInv, ProcInv, LockDiscipline
<1>4. /\ Pending[p] = None /\ Pending[p]' = d
      /\ Given[p] = None /\ Given[p]' = None
      /\ Position[p] = NoScan /\ Position[p]' = NoScan
      /\ Attached[p] = FALSE /\ Attached[p]' = FALSE
  BY <1>3 DEF Pending, Given, Position, Attached, SetPC, Scanning
<1>5. d.key = EmptyKey => CompleteRows # << >>
  BY <1>2, CompleteFacts
<1>6. Tbl!Request(p, d)
  BY <1>3, <1>4, <1>5, OneView, SameRows DEF Tbl!Request, Tbl!NoScan, NoScan
<1> QED
  BY <1>6 DEF Tbl!Next, Tbl!Datum, Datum

LEMMA WriteBackMaps ==
  ASSUME IInv, NEW p \in Proc, WriteBack(p)
  PROVE  Tbl!Next
<1> DEFINE d == [row[p] EXCEPT !.down = TRUE]
<1>1. TypeOK
  BY DEF IInv
<1>2. /\ pc[p] = "get_row" /\ row[p] \in Datum /\ ~row[p].down
      /\ row' = [row EXCEPT ![p] = d]
      /\ pc' = [pc EXCEPT ![p] = "set_lock"]
      /\ UNCHANGED <<file, lock, cursor>>
      /\ \A q \in Proc \ {p} : SameProcess(q)
  BY <1>1 DEF WriteBack, Goto, TypeOK, SameProcess
<1>3. d \in Datum /\ d.key = row[p].key /\ d.down
  BY <1>2, DatumFacts DEF Datum
<1>4. pc'[p] = "set_lock" /\ row'[p] = d
  BY <1>1, <1>2 DEF TypeOK
<1> HIDE DEF d
<1>5. /\ Pending[p]' = d
      /\ Given[p] = row[p] /\ Given[p]' = None
      /\ Position[p]' = Position[p] /\ Attached[p]' = Attached[p]
  BY <1>2, <1>4 DEF Pending, Given, Position, Attached, SetPC
<1>6. Tbl!WriteBack(p, d)
  BY <1>2, <1>3, <1>5, OneView, SameRows, NoneAssumption DEF Tbl!WriteBack
<1> QED
  BY <1>3, <1>6 DEF Tbl!Next, Tbl!Datum, Datum

(* The steps that Table does not tell apart: of the lock, of sto_set's      *)
(* search, of a scan that has ended.                                       *)
LEMMA QuietMaps ==
  ASSUME IInv, NEW p \in Proc,
         SetGranted(p) \/ SetBlocks(p) \/ SetDeadlk(p) \/ SetFetch(p)
           \/ SetFetchEof(p) \/ GetBlocks(p) \/ GetEof(p) \/ ScanClose(p)
  PROVE  UNCHANGED Tbl!vars
<1>1. TypeOK
  BY DEF IInv
<1>2. UNCHANGED file /\ \A q \in Proc \ {p} : SameProcess(q)
  BY <1>1 DEF SetGranted, SetBlocks, SetDeadlk, SetFetch, SetFetchEof,
     GetBlocks, GetEof, ScanClose, Goto, TypeOK, SameProcess
<1>3. CASE SetGranted(p)
  <2>1. /\ pc[p] \in {"set_lock", "set_wait"} /\ pc'[p] = "set_fetch"
        /\ UNCHANGED <<row, cursor>> /\ lock'[p] = "write"
    BY <1>1, <1>3 DEF SetGranted, Goto, TypeOK
  <2>2. cursor[p] # NoScan => lock[p] = "read"
    BY <2>1 DEF IInv, ProcInv, LockDiscipline, Scanning
  <2> QED
    BY <1>2, <2>1, <2>2, Stutter, SameRows
       DEF SameView, Pending, Given, Position, Attached, SetPC
<1>4. CASE SetBlocks(p) \/ SetDeadlk(p) \/ SetFetch(p) \/ SetFetchEof(p)
  <2>1. /\ pc[p] \in SetPC /\ pc'[p] \in SetPC
        /\ UNCHANGED <<row, cursor, lock>>
    BY <1>1, <1>4 DEF SetBlocks, SetDeadlk, SetFetch, SetFetchEof, Goto,
       TypeOK, SetPC
  <2> QED
    BY <1>2, <2>1, Stutter, SameRows
       DEF SameView, Pending, Given, Position, Attached, SetPC
<1>5. CASE GetBlocks(p)
  <2>1. /\ pc[p] = "get_lock" /\ pc'[p] = "get_wait"
        /\ UNCHANGED <<row, cursor, lock>>
    BY <1>1, <1>5 DEF GetBlocks, Goto, TypeOK
  <2> QED
    BY <1>2, <2>1, Stutter, SameRows
       DEF SameView, Pending, Given, Position, Attached, SetPC
<1>6. CASE GetEof(p) \/ ScanClose(p)
  <2>1. /\ pc[p] \in {"get_eof", "scan_close"}
        /\ pc'[p] = "scan_close" \/ (pc'[p] = "idle" /\ cursor'[p] = NoScan)
    BY <1>1, <1>6 DEF GetEof, ScanClose, Goto, TypeOK
  <2> QED
    BY <1>2, <2>1, Stutter, SameRows
       DEF SameView, Pending, Given, Position, Attached, SetPC
<1> QED
  BY <1>3, <1>4, <1>5, <1>6

LEMMA SetWriteKeyMaps ==
  ASSUME IInv, FInv, faults = 0, NEW p \in Proc, SetWriteKey(p)
  PROVE  UNCHANGED Tbl!vars
<1>1. /\ pc[p] = "set_key" /\ pc'[p] = "set_data"
      /\ UNCHANGED <<lock, cursor, row>>
      /\ \A q \in Proc \ {p} : SameProcess(q)
  BY DEF SetWriteKey, Goto, IInv, TypeOK, SameProcess
<1>2. SameView(p)
  BY <1>1 DEF SameView, Pending, Given, Position, Attached, SetPC
<1> QED
  BY <1>1, <1>2, WriteKeyFInv, Stutter

(* A write under the write lock has the table to itself; one without it is *)
(* a write-back, by a scan that is attached.                               *)
LEMMA WriterMayCommit ==
  ASSUME IInv, NEW p \in Proc, pc[p] = "set_data"
  PROVE  Tbl!MayCommit(p)
<1>1. Position[p] = cursor[p] /\ LockDiscipline(p)
  BY DEF Position, IInv, ProcInv
<1>2. CASE Scanning(p)
  BY <1>1, <1>2 DEF Tbl!MayCommit, Tbl!NoScan, NoScan, Scanning, Attached,
     LockDiscipline
<1>3. CASE ~Scanning(p)
  <2>1. \A q \in Proc \ {p} : lock[q] = "none"
    BY <1>3, WritersHoldLocks DEF IInv, LockExclusion
  <2>2. \A q \in Proc \ {p} : ~Attached[q]
    BY <2>1 DEF Attached
  <2> QED
    BY <1>1, <1>3, <2>2 DEF Tbl!MayCommit, Tbl!NoScan, NoScan, Scanning
<1> QED
  BY <1>2, <1>3

LEMMA SetWriteDataMaps ==
  ASSUME IInv, FInv, faults = 0, NEW p \in Proc, SetWriteData(p)
  PROVE  Tbl!Next
<1> DEFINE n == seek[p]
           d == row[p]
<1>1. TypeOK /\ file \in Seq(RowType) /\ Len(file) \in Nat
  BY DEF IInv, TypeOK, RowType
<1>2. /\ pc[p] = "set_data" /\ d \in Datum /\ n \in 1..Len(file)
      /\ Matches(file[n].key, d.key) /\ (d.key = EmptyKey => n = 1)
  BY DEF SetWriteData, IInv, ProcInv, Search, LockDiscipline, SetPC
<1>3. /\ file' = [file EXCEPT ![n].data = d]
      /\ pc'[p] = "set_close"
      /\ UNCHANGED <<lock, cursor, seek, row>>
      /\ \A q \in Proc \ {p} : SameProcess(q)
  BY <1>1 DEF SetWriteData, Goto, TypeOK, SameProcess
<1>4. /\ file' \in Seq(RowType)
      /\ Len(file') = Len(file)
      /\ file'[n].data = d
      /\ \A i \in 1..Len(file) : file'[i].key = file[i].key
      /\ \A i \in 1..Len(file) : i # n => file'[i].data = file[i].data
  BY <1>1, <1>2, <1>3, DataWrittenFacts
<1>5. /\ Pending[p] = d /\ Pending[p]' = None
      /\ Given[p]' = Given[p]
      /\ Position[p]' = Position[p] /\ Attached[p]' = Attached[p]
      /\ Position[p] = cursor[p]
  BY <1>2, <1>3 DEF Pending, Given, Position, Attached, SetPC
<1>6. /\ d # None
      /\ Pending' = [Pending EXCEPT ![p] = None]
      /\ UNCHANGED <<Given, Position, Attached>>
  BY <1>2, <1>3, <1>5, OneView, NoneAssumption
<1>7. Tbl!MayCommit(p)
  BY <1>2, WriterMayCommit
<1>8. RowsWhole
  BY DEF FInv
<1>9. \A i \in 1..(n - 1) : ~Matches(file[i].key, d.key)
  <2>1. CASE d.key = EmptyKey
    BY <1>2, <2>1
  <2>2. CASE d.key # EmptyKey
    BY <1>1, <1>2, <2>2 DEF Matches, IInv, UniqueRows
  <2> QED
    BY <2>1, <2>2
<1>10. /\ Complete \in {Len(file), Len(file) - 1} /\ Complete \in Nat
       /\ Len(CompleteRows) = Complete
       /\ \A i \in 1..Complete :
            i \in 1..Len(file) /\ CompleteRows[i] = file[i]
  BY CompleteFacts
<1>11. CASE file[n].data \in Datum
  <2>1. Complete = Len(file)
    BY <1>2, <1>8, <1>11, NobodyAppends
  <2>2. Complete' = Len(file)
    <3>1. file'[Len(file)].data # NoData
      BY <1>1, <1>2, <1>4, <2>1, DataAssumption DEF Complete
    <3> QED
      BY <1>4, <3>1 DEF Complete
  <2>3. CompleteRows = file /\ CompleteRows' = file'
    BY <1>1, <1>4, <2>1, <2>2 DEF CompleteRows
  <2>4. Position[p] # NoScan => n = Position[p]
    BY <1>2, <1>5, SearchFindsHeldRow DEF Scanning, SetPC
  <2>5. Tbl!Overwrite(p)
    <3>1. /\ n \in 1..Len(CompleteRows)
          /\ Tbl!Matches(CompleteRows[n].key, Pending[p].key)
          /\ \A i \in 1..(n - 1) :
               ~Tbl!Matches(CompleteRows[i].key, Pending[p].key)
      BY <1>2, <1>5, <1>9, <2>3 DEF Tbl!Matches, Matches
    <3>2. Position[p] # Tbl!NoScan => n = Position[p]
      BY <2>4 DEF Tbl!NoScan, NoScan
    <3>3. CompleteRows' = [CompleteRows EXCEPT ![n].data = Pending[p]]
      BY <1>3, <1>5, <2>3
    <3>4. Pending[p] # None
      BY <1>5, <1>6
    <3> QED
      BY <1>6, <1>7, <3>1, <3>2, <3>3, <3>4 DEF Tbl!Overwrite
  <2> QED
    BY <2>5 DEF Tbl!Next
<1>12. CASE file[n].data \notin Datum
  <2>1. /\ n = Len(file) /\ file[n].data = NoData
        /\ d.key = file[n].key
    <3>1. PICK q \in Proc :
            pc[q] = "set_data" /\ seek[q] = n /\ row[q].key = file[n].key
      BY <1>2, <1>8, <1>12 DEF RowsWhole
    <3>2. q = p
      BY <1>2, <1>12, <3>1, AppendsAlone DEF AppendsAreExclusive
    <3> QED
      BY <1>2, <1>8, <1>12, <3>1, <3>2 DEF RowsWhole
  <2>2. Position[p] = NoScan
    <3> SUFFICES ASSUME Scanning(p) PROVE FALSE
      BY <1>5 DEF Scanning
    <3>1. seek[p] = cursor[p]
      BY <1>2, SearchFindsHeldRow DEF SetPC
    <3> QED
      BY <1>2, <1>12, <3>1 DEF IInv, ProcInv, HeldRow, Holding, SetPC
  <2>3. Complete = n - 1 /\ Complete' = n
    BY <1>1, <1>2, <1>4, <2>1, DataAssumption DEF Complete
  <2>4. d.key # EmptyKey
    <3>1. file[n] \in RowType
      BY <1>1, <1>2
    <3> QED
      BY <2>1, <3>1, KeyAssumption DEF RowType
  <2>5. \A i \in 1..Complete : ~Matches(CompleteRows[i].key, d.key)
    BY <1>9, <1>10, <2>3
  <2>6. CompleteRows' = Append(CompleteRows, [key |-> d.key, data |-> d])
    <3>1. \A i \in 1..(n - 1) : file'[i] = file[i]
      BY <1>1, <1>2, <1>3
    <3>2. file'[n] = [key |-> d.key, data |-> d]
      <4>1. file[n] \in RowType /\ file'[n] = [file[n] EXCEPT !.data = d]
        BY <1>1, <1>2, <1>3
      <4> QED
        BY <2>1, <4>1 DEF RowType
    <3>3. CompleteRows' = [i \in 1..n |-> file'[i]]
      BY <2>3 DEF CompleteRows
    <3>4. CompleteRows = [i \in 1..(n - 1) |-> file[i]]
      BY <2>3 DEF CompleteRows
    <3> DEFINE s == [i \in 1..(n - 1) |-> file[i]]
               e == [key |-> d.key, data |-> d]
    <3>5. s \in Seq(RowType) /\ Len(s) = n - 1
      BY <1>1, <1>2
    <3>6. Append(s, e) = [i \in 1..n |-> IF i = n THEN e ELSE s[i]]
      BY <1>2, <3>5
    <3> QED
      BY <1>2, <3>1, <3>2, <3>3, <3>4, <3>6
  <2>7. Tbl!Insert(p)
    BY <1>5, <1>6, <1>7, <1>10, <2>2, <2>5, <2>6
       DEF Tbl!Insert, Tbl!NoScan, NoScan, Tbl!Matches, Matches
  <2> QED
    BY <2>7 DEF Tbl!Next
<1> QED
  BY <1>11, <1>12

LEMMA SetCloseMaps ==
  ASSUME IInv, NEW p \in Proc, SetClose(p)
  PROVE  [Tbl!Next]_Tbl!vars
<1>1. /\ pc[p] = "set_close" /\ lock'[p] = "none"
      /\ pc'[p] = IF Scanning(p) THEN "get_lock" ELSE "idle"
      /\ UNCHANGED <<file, cursor>>
      /\ \A q \in Proc \ {p} : SameProcess(q)
  BY DEF SetClose, Goto, IInv, TypeOK, SameProcess
<1>2. /\ Pending[p] = None /\ Pending[p]' = None
      /\ Given[p] = None /\ Given[p]' = None
      /\ Position[p]' = Position[p]
      /\ Attached[p]' = FALSE
  BY <1>1 DEF Pending, Given, Position, Attached, SetPC, Scanning
<1>3. CASE Attached[p]
  <2>1. Tbl!Detach(p)
    BY <1>1, <1>2, <1>3, OneView, SameRows DEF Tbl!Detach
  <2> QED
    BY <2>1 DEF Tbl!Next
<1>4. CASE ~Attached[p]
  <2>1. Attached[p] = FALSE
    BY <1>4 DEF Attached
  <2> QED
    BY <1>1, <1>2, <2>1, Stutter, SameRows DEF SameView
<1> QED
  BY <1>3, <1>4

LEMMA ScanCallMaps ==
  ASSUME IInv, NEW p \in Proc, ScanCall(p)
  PROVE  Tbl!Next
<1>1. /\ pc[p] = "idle" /\ pc'[p] = "get_lock" /\ cursor'[p] = 0
      /\ UNCHANGED <<file, lock>>
      /\ \A q \in Proc \ {p} : SameProcess(q)
  BY DEF ScanCall, Goto, IInv, TypeOK, SameProcess
<1>2. ~Scanning(p) /\ lock[p] = "none"
  BY <1>1 DEF IInv, ProcInv, LockDiscipline
<1>3. /\ Pending[p] = None /\ Pending[p]' = None
      /\ Given[p]' = Given[p]
      /\ Position[p] = NoScan /\ Position[p]' = 0
      /\ Attached[p]' = Attached[p]
  BY <1>1, <1>2 DEF Pending, Given, Position, Attached, SetPC, Scanning
<1>4. Tbl!StartScan(p)
  BY <1>1, <1>3, OneView, SameRows DEF Tbl!StartScan, Tbl!NoScan, NoScan
<1> QED
  BY <1>4 DEF Tbl!Next

LEMMA GetGrantedMaps ==
  ASSUME IInv, NEW p \in Proc, GetGranted(p)
  PROVE  [Tbl!Next]_Tbl!vars
<1>1. /\ pc[p] \in {"get_lock", "get_wait"} /\ pc'[p] = "get_key"
      /\ lock'[p] = "read"
      /\ UNCHANGED <<file, cursor, row>>
      /\ \A q \in Proc \ {p} : SameProcess(q)
  BY DEF GetGranted, Goto, IInv, TypeOK, SameProcess
<1>2. Scanning(p)
  BY <1>1 DEF IInv, ProcInv, LockDiscipline, ScanPC
<1>3. /\ Pending[p]' = Pending[p] /\ Given[p]' = Given[p]
      /\ Position[p]' = Position[p] /\ Position[p] # NoScan
      /\ Attached[p]' = TRUE
  BY <1>1, <1>2 DEF Pending, Given, Position, Attached, SetPC, Scanning
<1>4. CASE ~Attached[p]
  <2>1. Tbl!Attach(p)
    BY <1>1, <1>3, <1>4, OneView, SameRows DEF Tbl!Attach, Tbl!NoScan, NoScan
  <2> QED
    BY <2>1 DEF Tbl!Next
<1>5. CASE Attached[p]
  <2>1. Attached[p] = TRUE
    BY <1>5 DEF Attached
  <2> QED
    BY <1>1, <1>3, <2>1, Stutter, SameRows DEF SameView
<1> QED
  BY <1>4, <1>5

LEMMA GetKeyMaps ==
  ASSUME IInv, FInv, faults = 0, NEW p \in Proc, GetKey(p)
  PROVE  [Tbl!Next]_Tbl!vars
<1>1. /\ pc[p] = "get_key"
      /\ pc'[p] = IF cursor[p] < Len(file) THEN "get_data" ELSE "get_eof"
      /\ UNCHANGED <<file, cursor, row, lock>>
      /\ \A q \in Proc \ {p} : SameProcess(q)
  BY DEF GetKey, Goto, IInv, TypeOK, SameProcess
<1>2. Scanning(p) /\ lock[p] = "read"
  BY <1>1 DEF IInv, ProcInv, LockDiscipline, ScanPC
<1>3. /\ Pending[p] = None /\ Pending[p]' = None
      /\ Given[p] = None /\ Given[p]' = None
      /\ Position[p] = cursor[p] /\ Attached[p] = TRUE
  BY <1>1, <1>2 DEF Pending, Given, Position, Attached, SetPC, Scanning
<1>4. CASE cursor[p] < Len(file)
  <2>1. SameView(p)
    BY <1>1, <1>3, <1>4 DEF SameView, Pending, Given, Position, Attached, SetPC
  <2> QED
    BY <1>1, <2>1, Stutter, SameRows
<1>5. CASE ~(cursor[p] < Len(file))
  <2>1. Position[p]' = NoScan /\ Attached[p]' = FALSE
    BY <1>1, <1>5 DEF Position, Attached
  <2>2. Position[p] = Len(CompleteRows)
    <3>1. cursor[p] <= Complete
      BY <1>2, <1>3 DEF FInv, RowsPassed, Scanning
    <3>2. cursor[p] \in Nat /\ Len(file) \in Nat
      BY <1>2 DEF IInv, TypeOK, Scanning
    <3> QED
      BY <1>3, <1>5, <3>1, <3>2, CompleteFacts
  <2>3. Tbl!EndScan(p)
    BY <1>1, <1>3, <2>1, <2>2, OneView, SameRows
       DEF Tbl!EndScan, Tbl!NoScan, NoScan
  <2> QED
    BY <2>3 DEF Tbl!Next
<1> QED
  BY <1>4, <1>5

LEMMA GetDataMaps ==
  ASSUME IInv, FInv, faults = 0, NEW p \in Proc, GetData(p)
  PROVE  Tbl!Next
<1>1. /\ cursor[p] + 1 \in 1..Complete
      /\ file[cursor[p] + 1].data \in Datum
  BY GetDataFInv
<1>2. /\ pc[p] = "get_data" /\ pc'[p] = "get_row"
      /\ cursor'[p] = cursor[p] + 1
      /\ row'[p] = file[cursor[p] + 1].data
      /\ UNCHANGED <<file, lock>>
      /\ \A q \in Proc \ {p} : SameProcess(q)
  BY <1>1, DataAssumption DEF GetData, Goto, IInv, TypeOK, SameProcess
<1>3. Scanning(p) /\ lock[p] = "read" /\ cursor[p] \in Nat
  BY <1>2 DEF IInv, ProcInv, LockDiscipline, ScanPC, TypeOK, Scanning
<1>4. /\ Pending[p] = None /\ Pending[p]' = None
      /\ Given[p] = None /\ Given[p]' = file[cursor[p] + 1].data
      /\ Position[p] = cursor[p] /\ Position[p]' = cursor[p] + 1
      /\ Attached[p] = TRUE /\ Attached[p]' = TRUE
  <2>1. /\ Position[p] = cursor[p] /\ Position[p]' = cursor[p] + 1
        /\ Position[p] # NoScan /\ Position[p]' # NoScan
    BY <1>2, <1>3 DEF Position, NoScan
  <2> QED
    BY <1>2, <1>3, <2>1 DEF Pending, Given, Attached, SetPC
<1>5. /\ Position[p] < Len(CompleteRows)
      /\ CompleteRows[Position[p] + 1].data = file[cursor[p] + 1].data
  BY <1>1, <1>3, <1>4, CompleteFacts
<1>6. Tbl!Deliver(p)
  BY <1>2, <1>4, <1>5, OneView, SameRows DEF Tbl!Deliver
<1> QED
  BY <1>6 DEF Tbl!Next

LEMMA NextRowMaps ==
  ASSUME IInv, FInv, faults = 0, NEW p \in Proc, NextRow(p)
  PROVE  Tbl!Next
<1>1. /\ pc[p] = "get_row" /\ pc'[p] = "get_lock"
      /\ UNCHANGED <<file, lock, cursor>>
      /\ \A q \in Proc \ {p} : SameProcess(q)
  BY DEF NextRow, Goto, IInv, TypeOK, SameProcess
<1>2. row[p] \in Datum
  BY <1>1 DEF FInv, RowsPassed
<1>3. /\ Pending[p]' = Pending[p]
      /\ Given[p] # None /\ Given[p]' = None
      /\ Position[p]' = Position[p] /\ Attached[p]' = Attached[p]
  BY <1>1, <1>2, NoneAssumption DEF Pending, Given, Position, Attached, SetPC
<1>4. Tbl!Consume(p)
  BY <1>1, <1>3, OneView, SameRows DEF Tbl!Consume
<1> QED
  BY <1>4 DEF Tbl!Next

LEMMA NextMaps ==
  ASSUME IInv, FInv, faults = 0, faults' = 0, [Next]_vars
  PROVE  [Tbl!Next]_Tbl!vars
<1>1. ASSUME NEW p \in Proc, SetCall(p) \/ ScanCall(p)
      PROVE  [Tbl!Next]_Tbl!vars
  BY <1>1, SetCallMaps, ScanCallMaps
<1>2. ASSUME NEW p \in Proc,
             SetGranted(p) \/ SetBlocks(p) \/ SetDeadlk(p) \/ SetFetch(p)
               \/ SetFetchEof(p) \/ GetBlocks(p) \/ GetEof(p) \/ ScanClose(p)
      PROVE  [Tbl!Next]_Tbl!vars
  BY <1>2, QuietMaps
<1>3. ASSUME NEW p \in Proc, SetWriteKey(p) \/ SetWriteData(p) \/ SetClose(p)
      PROVE  [Tbl!Next]_Tbl!vars
  BY <1>3, SetWriteKeyMaps, SetWriteDataMaps, SetCloseMaps
<1>4. ASSUME NEW p \in Proc,
             GetGranted(p) \/ GetKey(p) \/ GetData(p) \/ WriteBack(p) \/ NextRow(p)
      PROVE  [Tbl!Next]_Tbl!vars
  BY <1>4, GetGrantedMaps, GetKeyMaps, GetDataMaps, WriteBackMaps, NextRowMaps
<1>5. ASSUME NEW p \in Proc PROVE ~Kill(p) /\ ~IOError(p)
  BY DEF Kill, IOError
<1>6. ASSUME UNCHANGED vars PROVE UNCHANGED Tbl!vars
  BY <1>6 DEF vars, Tbl!vars, CompleteRows, Complete, Pending, Given, Position,
     Attached
<1> QED
  BY <1>1, <1>2, <1>3, <1>4, <1>5, <1>6 DEF Next, Step, Done

(* While no process is killed and no call fails, storage.c keeps Table's    *)
(* promises whatever the interleaving of system calls: each sto_set takes  *)
(* effect once and at once, and each scan is given every row, whole.       *)
THEOREM StorageIsATable == Spec /\ [](faults = 0) => ImplementsTable
<1>1. Init => FInv
  BY DEF Init, FInv, RowsWhole, RowsPassed, Position
<1>2. Spec => []FInv
  BY <1>1, NextFInv, Inductive, PTL DEF Spec
<1>3. Init => Tbl!Init
  BY InitTable
<1>4. IInv /\ FInv /\ faults = 0 /\ (faults = 0)' /\ [Next]_vars
        => [Tbl!Next]_Tbl!vars
  BY NextMaps
<1> QED
  BY <1>2, <1>3, <1>4, Inductive, PTL DEF Spec, ImplementsTable, Tbl!Spec

=============================================================================
