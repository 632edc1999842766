---------------------------- MODULE ShmemListen ----------------------------
(***************************************************************************)
(* How a client gets a port in shared memory (transport_accept and         *)
(* transport_connect of shmem.c): a process writes the number of the port  *)
(* into the listening zone, which all processes share, posts `available'   *)
(* and waits for `free'.                                                   *)
(***************************************************************************)
EXTENDS Family

VARIABLES
  listenZone,        \* the port in the listening zone
  listenAvailable,   \* the semaphores of transport_listen
  listenFree

shmem == <<listenZone, listenAvailable, listenFree>>

ShmemInit == listenZone = 0 /\ listenAvailable = 0 /\ listenFree = 0

(* The zone is written, whoever's port is in it, and the connection made. *)
ShmemWrite(p) ==
  /\ At(p, "accept")
  /\ listenZone' = next[p]
  /\ conn' = [conn EXCEPT ![p] = next[p]]
  /\ next' = [next EXCEPT ![p] = @ + 1]
  /\ Goto(p, "written")
  /\ UNCHANGED <<parent, pending, clients, faults, listenAvailable, listenFree>>

ShmemPost(p) ==
  /\ At(p, "written")
  /\ listenAvailable' = listenAvailable + 1
  /\ Goto(p, "offered")
  /\ UNCHANGED <<conn, next, parent, pending, clients, faults, listenZone, listenFree>>

(* Mutant: the server does not wait for the port to be read. *)
ShmemTakenUnread(p) ==
  /\ At(p, "offered")
  /\ Goto(p, "accepted")
  /\ UNCHANGED <<conn, next, parent, pending, clients, faults, shmem>>

ShmemTaken(p) ==
  /\ At(p, "offered") /\ listenFree > 0
  /\ listenFree' = listenFree - 1
  /\ Goto(p, "accepted")
  /\ UNCHANGED <<conn, next, parent, pending, clients, faults, listenZone, listenAvailable>>

(* The result of sem_wait is not looked at: a process whose wait a SIGCHLD *)
(* ends takes its port for read.                                           *)
ShmemReap(p) ==
  /\ Reaped(p)
  /\ pending' = [pending EXCEPT ![p] = FALSE]
  /\ spc' = IF spc[p] = "offered" THEN [spc EXCEPT ![p] = "accepted"] ELSE spc
  /\ UNCHANGED <<conn, next, parent, clients, faults, shmem>>

(* A client does not wait for a port. *)
ShmemAsk(c) ==
  /\ cpc[c] = "out"
  /\ IF listenAvailable = 0
       THEN Becomes(c, "failed") /\ UNCHANGED listenAvailable
       ELSE Becomes(c, "reading") /\ listenAvailable' = listenAvailable - 1
  /\ UNCHANGED <<family, link, faults, listenZone, listenFree>>

ShmemRead(c) ==
  /\ cpc[c] = "reading"
  /\ link' = [link EXCEPT ![c] = listenZone]
  /\ listenFree' = listenFree + 1
  /\ Becomes(c, "connected")
  /\ UNCHANGED <<family, faults, listenZone, listenAvailable>>

ShmemProcess(p) == ShmemWrite(p) \/ ShmemPost(p) \/ ShmemTaken(p) \/ ShmemReap(p)

=============================================================================
