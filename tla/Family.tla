------------------------------- MODULE Family -------------------------------
(***************************************************************************)
(* The processes of the server and their clients, as far as they meet: a   *)
(* process accepts a client, with a transport's transport_accept, and      *)
(* forks a child to serve it; the child of a client that says good-bye     *)
(* accepts clients of its own (srv/main.c).  ShmemListen, QueueListen and  *)
(* FifoListen add what accept and connect do, step by step.                *)
(*                                                                         *)
(* Server.tla has what is left out here: the table of clients and its      *)
(* limit, forks that fail and SIGINT.                                      *)
(***************************************************************************)
EXTENDS Integers, FiniteSets, Sequences

CONSTANTS
  MaxProc,     \* bound: how many processes there may be
  Client,      \* the clients, by their process numbers
  None,        \* no client, no connection
  MaxFaults    \* bound: how many processes are killed

ASSUME FamilyAssumption ==
  /\ MaxProc \in Nat \ {0} /\ MaxFaults \in Nat
  /\ IsFiniteSet(Client) /\ None \notin Client

Proc == 1..MaxProc
Root == 1      \* the process that is started first

VARIABLES
  backend,   \* the transport that the program was built with
  spc,       \* spc[p]: "unborn", "accept", a step of transport_accept,
             \* "accepted", "serve" or "dead"
  conn,      \* conn[p]: the connection that p makes or serves
  next,      \* next[p]: what p numbers its next connection with
  parent,    \* parent[p]: the process that forked p
  pending,   \* pending[p]: the SIGCHLD handler of p runs, or is to run
  cpc,       \* cpc[c]: "out", a step of transport_connect, "connected",
             \* "failed", "broken", "left" or "killed"
  link,      \* link[c]: the connection that c has
  faults     \* how many processes were killed

family == <<spc, conn, next, parent, pending>>
clients == <<cpc, link>>

(* BACKEND of the Makefile. *)
Backend == {"shmem", "queue", "fifo"}

FamilyInit ==
  /\ backend \in Backend
  /\ spc = [p \in Proc |-> IF p = Root THEN "accept" ELSE "unborn"]
  /\ conn = [p \in Proc |-> None]
  /\ next = [p \in Proc |-> 0]
  /\ parent = [p \in Proc |-> Root]
  /\ pending = [p \in Proc |-> FALSE]
  /\ cpc = [c \in Client |-> "out"]
  /\ link = [c \in Client |-> None]
  /\ faults = 0

Alive(p) == spc[p] \notin {"unborn", "dead"}
Children(p) == {q \in Proc \ {Root} : parent[q] = p /\ spc[q] # "unborn"}

(* A process that runs its handler does nothing else. *)
At(p, step) == spc[p] = step /\ ~pending[p]

Final == {"connected", "failed", "broken", "left", "killed"}
Asking(c) == cpc[c] \notin Final \cup {"out"}

(* Steps of one process, and of one client. *)
Goto(p, step) == spc' = [spc EXCEPT ![p] = step]
Becomes(c, step) == cpc' = [cpc EXCEPT ![c] = step]

(* p ends.  A parent is sent a SIGCHLD; who has none left is not heard of. *)
Ends(p) ==
  /\ Goto(p, "dead")
  /\ pending' = [q \in Proc |-> CASE q = p -> FALSE
                                  [] q = parent[p] /\ p # Root /\ Alive(q) -> TRUE
                                  [] OTHER -> pending[q]]

-----------------------------------------------------------------------------

(* fork_client: the child has a copy of all that the parent has. *)
Fork(p) ==
  LET unborn == {u \in Proc : spc[u] = "unborn"}
      q == CHOOSE u \in unborn : \A v \in unborn : u <= v
  IN
  /\ At(p, "accepted") /\ unborn # {}
  /\ spc' = [spc EXCEPT ![p] = "accept", ![q] = "serve"]
  /\ conn' = [conn EXCEPT ![q] = conn[p]]
  /\ next' = [next EXCEPT ![q] = next[p]]
  /\ parent' = [parent EXCEPT ![q] = p]
  /\ UNCHANGED pending

(* A client says good-bye to a process that serves its connection, which   *)
(* closes it, and falls back into the loop of listen_channels.             *)
Leave(c, p) ==
  /\ cpc[c] = "connected" /\ At(p, "serve") /\ conn[p] = link[c]
  /\ Becomes(c, "left")
  /\ Goto(p, "accept")
  /\ UNCHANGED <<conn, next, parent, pending, link>>

(* srv_sigchld_handler spins until no child is left.  What p was waiting   *)
(* for when the signal came returns -1.                                    *)
Reaped(p) == pending[p] /\ Alive(p) /\ \A q \in Children(p) : ~Alive(q)

(* A process that serves a client is killed; its connection stays open. *)
Die(p) ==
  /\ spc[p] = "serve" /\ faults < MaxFaults
  /\ faults' = faults + 1
  /\ Ends(p)
  /\ UNCHANGED <<conn, next, parent, clients>>

(* A client is killed while it asks. *)
GiveUp(c) ==
  /\ Asking(c) /\ faults < MaxFaults
  /\ faults' = faults + 1
  /\ Becomes(c, "killed")
  /\ UNCHANGED <<family, link>>

-----------------------------------------------------------------------------
(* What the properties speak of *)

(* Nobody was killed, and no child has been asked to accept yet. *)
Calm == faults = 0 /\ \A c \in Client : cpc[c] # "left"

Serving(k) == {p \in Proc : spc[p] \in {"accepted", "serve"} /\ conn[p] = k}

=============================================================================
