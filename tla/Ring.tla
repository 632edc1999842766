-------------------------------- MODULE Ring --------------------------------
(***************************************************************************)
(* One direction of a connection in shared memory: transport_send and      *)
(* transport_recv of shmem.c, one semaphore operation at a time, with a    *)
(* ring of ZONE_SIZE bytes between them.  `free' counts the bytes that the *)
(* writer may store, `available' those that the reader may load.           *)
(*                                                                         *)
(* A call may be cut short: sem_wait is interrupted by a signal and the    *)
(* call returns -1, or its process is killed, or a signal handler goes on  *)
(* to another call and never returns.  The semaphores stay as they are.    *)
(***************************************************************************)
EXTENDS Zone

VARIABLES
  zone,        \* the ring
  available,   \* the semaphore of the bytes to load
  free,        \* the semaphore of the bytes to store
  wr,          \* where the writer stores next
  wpc,         \* transport_send: "idle", "wait", "store" or "post"
  out,         \* what it has still to send
  rd,          \* where the reader loads next
  rpc,         \* transport_recv: "idle", "wait", "load" or "post"
  want,        \* how many bytes it has still to read
  in,          \* what it has read
  drift        \* history: the bytes in the ring that `available' will never
               \* count, because a call was cut short

writer == <<wr, wpc, out>>
reader == <<rd, rpc, want, in>>
vars == <<zone, available, free, writer, reader, drift>>

Index == 0..(ZONE_SIZE - 1)

TypeOK ==
  /\ zone \in [Index -> Byte]
  /\ available \in Nat
  /\ free \in Nat
  /\ wr \in Index
  /\ wpc \in {"idle", "wait", "store", "post"}
  /\ out \in Seq(Byte)
  /\ wpc \in {"wait", "store"} => out # << >>
  /\ rd \in Index
  /\ rpc \in {"idle", "wait", "load", "post"}
  /\ want \in Nat
  /\ rpc \in {"wait", "load"} => want > 0
  /\ in \in Seq(Byte)
  /\ drift \in Nat

(* _shm_connect makes the semaphores; what is in the zone does not matter. *)
Init ==
  /\ zone \in [Index -> Byte]
  /\ available = 0 /\ free = ZONE_SIZE
  /\ wr = 0 /\ wpc = "idle" /\ out = << >>
  /\ rd = 0 /\ rpc = "idle" /\ want = 0 /\ in = << >>
  /\ drift = 0

One(b) == IF b THEN 1 ELSE 0

-----------------------------------------------------------------------------
(* transport_send *)

Send(m) ==
  /\ wpc = "idle" /\ out = << >> /\ m # << >>
  /\ wpc' = "wait"
  /\ out' = m
  /\ UNCHANGED <<zone, available, free, wr, reader, drift>>

SendWait ==
  /\ wpc = "wait" /\ free > 0
  /\ free' = free - 1
  /\ wpc' = "store"
  /\ UNCHANGED <<zone, available, wr, out, reader, drift>>

(* Mutant: the index does not wrap where the zone ends. *)
SendStoreAhead ==
  /\ wpc = "store"
  /\ zone' = [zone EXCEPT ![wr] = Head(out)]
  /\ wr' = (wr + 2) % ZONE_SIZE
  /\ out' = Tail(out)
  /\ wpc' = "post"
  /\ UNCHANGED <<available, free, reader, drift>>

(* A byte that is stored while the index is not advanced yet is nowhere:   *)
(* the next one is stored over it.  So the two are one step.               *)
SendStore ==
  /\ wpc = "store"
  /\ zone' = [zone EXCEPT ![wr] = Head(out)]
  /\ wr' = (wr + 1) % ZONE_SIZE
  /\ out' = Tail(out)
  /\ wpc' = "post"
  /\ UNCHANGED <<available, free, reader, drift>>

SendPost ==
  /\ wpc = "post"
  /\ available' = available + 1
  /\ wpc' = IF out = << >> THEN "idle" ELSE "wait"
  /\ UNCHANGED <<zone, free, wr, out, reader, drift>>

(* A byte that was stored and not posted stays in the ring, uncounted. *)
CutSend ==
  /\ wpc # "idle"
  /\ wpc' = "idle"
  /\ out' = << >>
  /\ drift' = drift + One(wpc = "post")
  /\ UNCHANGED <<zone, available, free, wr, reader>>

-----------------------------------------------------------------------------
(* transport_recv *)

Recv(n) ==
  /\ rpc = "idle" /\ n > 0
  /\ rpc' = "wait"
  /\ want' = n
  /\ in' = << >>
  /\ UNCHANGED <<zone, available, free, writer, rd, drift>>

(* Mutant: the reader does not wait. *)
RecvUnwaited ==
  /\ rpc = "wait"
  /\ available' = available - 1
  /\ rpc' = "load"
  /\ UNCHANGED <<zone, free, writer, rd, want, in, drift>>

RecvWait ==
  /\ rpc = "wait" /\ available > 0
  /\ available' = available - 1
  /\ rpc' = "load"
  /\ UNCHANGED <<zone, free, writer, rd, want, in, drift>>

RecvLoad ==
  /\ rpc = "load"
  /\ in' = Append(in, zone[rd])
  /\ rd' = (rd + 1) % ZONE_SIZE
  /\ want' = want - 1
  /\ rpc' = "post"
  /\ UNCHANGED <<zone, available, free, writer, drift>>

RecvPost ==
  /\ rpc = "post"
  /\ free' = free + 1
  /\ rpc' = IF want = 0 THEN "idle" ELSE "wait"
  /\ UNCHANGED <<zone, available, writer, rd, want, in, drift>>

(* A byte that was waited for and not loaded stays in the ring, uncounted. *)
CutRecv ==
  /\ rpc # "idle"
  /\ rpc' = "idle"
  /\ want' = 0
  /\ drift' = drift + One(rpc = "load")
  /\ UNCHANGED <<zone, available, free, writer, rd, in>>

-----------------------------------------------------------------------------

Sending == SendWait \/ SendStore \/ SendPost
Receiving == RecvWait \/ RecvLoad \/ RecvPost

Next ==
  \/ \E m \in Seq(Byte) : Send(m)
  \/ \E n \in Nat : Recv(n)
  \/ Sending \/ Receiving \/ CutSend \/ CutRecv

Spec == Init /\ [][Next]_vars

-----------------------------------------------------------------------------
(* Properties *)

(* The bytes that were stored and not loaded yet. *)
Pending == available + drift + One(wpc = "post") + One(rpc = "load")

(* No byte is stored over one that was not loaded: what the two semaphores *)
(* count, what the two ends hold, and what they will never count again is  *)
(* never more than the ring.                                               *)
Credits ==
  available + drift + free + One(wpc \in {"store", "post"})
    + One(rpc \in {"load", "post"}) <= ZONE_SIZE

(* The writer's index is as far ahead of the reader's as there are bytes   *)
(* pending.                                                                *)
Distance == wr = (rd + Pending) % ZONE_SIZE

(* The ring implements a pipe, whatever calls are cut short. *)
Contents == [i \in 1..Pending |-> zone[(rd + i - 1) % ZONE_SIZE]]
P == INSTANCE Pipe WITH queue <- Contents
ImplementsPipe == P!Spec

=============================================================================
