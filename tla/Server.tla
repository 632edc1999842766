------------------------------- MODULE Server -------------------------------
(***************************************************************************)
(* The server's processes (srv/main.c, with the socket transport): who     *)
(* accepts, who serves whom, how processes are counted, and what SIGCHLD   *)
(* and SIGINT do to them.                                                  *)
(*                                                                         *)
(* A child serves one client.  When the client says good-bye it returns    *)
(* from fork_client into the loop of listen_channels, and accepts clients  *)
(* of its own from then on, beside its parent; a write to a client that    *)
(* is gone kills it.  (Protocol.tla shows how the one and the other        *)
(* happen.)                                                                *)
(*                                                                         *)
(* Of `nodes' the model keeps the index that is written.  What kill_client *)
(* closes and fails to move are descriptors of the parent, which it does   *)
(* not use for anything.                                                   *)
(***************************************************************************)
EXTENDS Integers, Sequences, FiniteSets, FiniteSetsExt

CONSTANTS
  Pid,             \* the processes that there may be at one time
  Main,            \* the one that is started first
  Client,          \* the clients
  None,            \* no process, no client
  MAX_CLIENTS,     \* the size of the table `nodes'
  MaxFaults,       \* bound: how many children die and how many forks fail
  MaxInterrupts,   \* bound: how many processes are sent a SIGINT
  MaxSpins         \* bound: how far below zero cur_clients is counted

ASSUME ProcessAssumption ==
  Main \in Pid /\ IsFiniteSet(Pid) /\ None \notin Pid \cup Client
ASSUME TableAssumption == MAX_CLIENTS \in Nat \ {0}
ASSUME ServerBoundAssumption ==
  MaxFaults \in Nat /\ MaxInterrupts \in Nat /\ MaxSpins \in Nat

VARIABLES
  pc,            \* pc[p]: "loop", "accept", "fork", "serve"; "zombie", "none"
  parent,        \* parent[p]: the process that reaps p, None if it is gone
  cur_clients,   \* cur_clients[p]: p's count of clients
  conn,          \* conn[p]: the client that p accepted or serves
  pending,       \* pending[p]: a SIGCHLD waits to be delivered to p
  handling,      \* handling[p]: p is in srv_sigchld_handler
  backlog,       \* the clients that wait to be accepted
  client,        \* client[c]: "out", "waiting", "served", "done", "stranded"
  faults,        \* how many children died and how many forks failed
  interrupts     \* how many processes were sent a SIGINT

processes == <<pc, parent, cur_clients, conn, pending, handling>>
vars == <<processes, backlog, client, faults, interrupts>>

TypeOK ==
  /\ pc \in [Pid -> {"loop", "accept", "fork", "serve", "zombie", "none"}]
  /\ parent \in [Pid -> Pid \cup {None}]
  /\ cur_clients \in [Pid -> -MaxSpins..(MAX_CLIENTS - 1)]
  /\ conn \in [Pid -> Client \cup {None}]
  /\ pending \in [Pid -> BOOLEAN]
  /\ handling \in [Pid -> BOOLEAN]
  /\ backlog \in Seq(Client)
  /\ client \in [Client -> {"out", "waiting", "served", "done", "stranded"}]
  /\ faults \in 0..MaxFaults
  /\ interrupts \in 0..MaxInterrupts

Init ==
  /\ pc = [p \in Pid |-> IF p = Main THEN "loop" ELSE "none"]
  /\ parent = [p \in Pid |-> None]
  /\ cur_clients = [p \in Pid |-> 0]
  /\ conn = [p \in Pid |-> None]
  /\ pending = [p \in Pid |-> FALSE]
  /\ handling = [p \in Pid |-> FALSE]
  /\ backlog = << >>
  /\ client = [c \in Client |-> "out"]
  /\ faults = 0
  /\ interrupts = 0

Alive(p) == pc[p] \notin {"zombie", "none"}
Running(p) == Alive(p) /\ ~handling[p]
Children(p) == {q \in Pid : parent[q] = p /\ pc[q] # "none"}
Zombies(p) == {q \in Children(p) : pc[q] = "zombie"}

-----------------------------------------------------------------------------
(* Clients                                                                 *)

(* A client connects: the kernel queues it. *)
Connect(c) ==
  /\ client[c] = "out"
  /\ client' = [client EXCEPT ![c] = "waiting"]
  /\ backlog' = Append(backlog, c)
  /\ UNCHANGED <<processes, faults, interrupts>>

-----------------------------------------------------------------------------
(* listen_channels and fork_client                                         *)

(* Mutant: the first slot is counted on, too. *)
ListenOneLess(p) ==
  /\ Running(p) /\ pc[p] = "loop"
  /\ cur_clients[p] + 2 < MAX_CLIENTS
  /\ pc' = [pc EXCEPT ![p] = "accept"]
  /\ UNCHANGED <<parent, cur_clients, conn, pending, handling, backlog, client,
                 faults, interrupts>>

(* Mutant: the table is taken to have one slot more. *)
ListenOneMore(p) ==
  /\ Running(p) /\ pc[p] = "loop"
  /\ cur_clients[p] < MAX_CLIENTS
  /\ pc' = [pc EXCEPT ![p] = "accept"]
  /\ UNCHANGED <<parent, cur_clients, conn, pending, handling, backlog, client,
                 faults, interrupts>>

(* A process whose table is full goes round the loop and does nothing. *)
Listen(p) ==
  /\ Running(p) /\ pc[p] = "loop"
  /\ cur_clients[p] + 1 < MAX_CLIENTS
  /\ pc' = [pc EXCEPT ![p] = "accept"]
  /\ UNCHANGED <<parent, cur_clients, conn, pending, handling, backlog, client,
                 faults, interrupts>>

Accept(p) ==
  /\ Running(p) /\ pc[p] = "accept" /\ backlog # << >>
  /\ pc' = [pc EXCEPT ![p] = "fork"]
  /\ conn' = [conn EXCEPT ![p] = Head(backlog)]
  /\ client' = [client EXCEPT ![Head(backlog)] = "served"]
  /\ backlog' = Tail(backlog)
  /\ UNCHANGED <<parent, cur_clients, pending, handling, faults, interrupts>>

(* Mutant: only the parent counts. *)
ForkCountedOnce(p, q) ==
  /\ Running(p) /\ pc[p] = "fork"
  /\ pc[q] = "none" /\ q # Main
  /\ pc' = [pc EXCEPT ![p] = "loop", ![q] = "serve"]
  /\ parent' = [parent EXCEPT ![q] = p]
  /\ cur_clients' = [cur_clients EXCEPT ![p] = @ + 1, ![q] = cur_clients[p]]
  /\ conn' = [conn EXCEPT ![p] = None, ![q] = conn[p]]
  /\ pending' = [pending EXCEPT ![q] = FALSE]
  /\ handling' = [handling EXCEPT ![q] = FALSE]
  /\ UNCHANGED <<backlog, client, faults, interrupts>>

(* Mutant: the parent serves the client as well. *)
ForkBothServe(p, q) ==
  /\ Running(p) /\ pc[p] = "fork"
  /\ pc[q] = "none" /\ q # Main
  /\ pc' = [pc EXCEPT ![p] = "serve", ![q] = "serve"]
  /\ parent' = [parent EXCEPT ![q] = p]
  /\ cur_clients' = [cur_clients EXCEPT ![p] = @ + 1, ![q] = cur_clients[p] + 1]
  /\ conn' = [conn EXCEPT ![q] = conn[p]]
  /\ pending' = [pending EXCEPT ![q] = FALSE]
  /\ handling' = [handling EXCEPT ![q] = FALSE]
  /\ UNCHANGED <<backlog, client, faults, interrupts>>

(* fork, and the count that parent and child go on with.  A SIGCHLD        *)
(* between the two finds the same sums.                                    *)
Fork(p, q) ==
  /\ Running(p) /\ pc[p] = "fork"
  /\ pc[q] = "none" /\ q # Main
  /\ pc' = [pc EXCEPT ![p] = "loop", ![q] = "serve"]
  /\ parent' = [parent EXCEPT ![q] = p]
  /\ cur_clients' = [cur_clients EXCEPT ![p] = @ + 1, ![q] = cur_clients[p] + 1]
  /\ conn' = [conn EXCEPT ![p] = None, ![q] = conn[p]]
  /\ pending' = [pending EXCEPT ![q] = FALSE]
  /\ handling' = [handling EXCEPT ![q] = FALSE]
  /\ UNCHANGED <<backlog, client, faults, interrupts>>

(* fork returns -1, which goes into the table as a child: the client is    *)
(* connected to nobody.                                                    *)
ForkFails(p) ==
  /\ Running(p) /\ pc[p] = "fork"
  /\ faults < MaxFaults
  /\ faults' = faults + 1
  /\ pc' = [pc EXCEPT ![p] = "loop"]
  /\ cur_clients' = [cur_clients EXCEPT ![p] = @ + 1]
  /\ conn' = [conn EXCEPT ![p] = None]
  /\ client' = [client EXCEPT ![conn[p]] = "stranded"]
  /\ UNCHANGED <<parent, pending, handling, backlog, interrupts>>

-----------------------------------------------------------------------------
(* The end of a client, and of a process                                   *)

(* atc_reply returned -1: back to the loop of listen_channels. *)
HangUp(p) ==
  /\ Running(p) /\ pc[p] = "serve"
  /\ pc' = [pc EXCEPT ![p] = "loop"]
  /\ conn' = [conn EXCEPT ![p] = None]
  /\ client' = [client EXCEPT ![conn[p]] = "done"]
  /\ UNCHANGED <<parent, cur_clients, pending, handling, backlog, faults, interrupts>>

(* p ends.  Its parent gets a SIGCHLD (one, however many children end      *)
(* before it is delivered); its own children have nobody to reap them.     *)
Exits(p) ==
  LET orphan(q) == parent[q] = p
      reaper == parent[p]
  IN
  /\ pc' = [q \in Pid |->
       IF q = p THEN IF reaper = None THEN "none" ELSE "zombie"
       ELSE IF orphan(q) /\ pc[q] = "zombie" THEN "none" ELSE pc[q]]
  /\ parent' = [q \in Pid |-> IF orphan(q) THEN None ELSE parent[q]]
  /\ pending' = [q \in Pid |-> IF q = reaper THEN TRUE ELSE IF q = p THEN FALSE ELSE pending[q]]
  /\ handling' = [handling EXCEPT ![p] = FALSE]
  /\ cur_clients' = [cur_clients EXCEPT ![p] = 0]
  /\ conn' = [conn EXCEPT ![p] = None]

(* SIGPIPE: the client is gone without a good-bye, or before the answer to *)
(* it.                                                                     *)
Die(p) ==
  /\ Running(p) /\ pc[p] = "serve"
  /\ faults < MaxFaults
  /\ faults' = faults + 1
  /\ Exits(p)
  /\ client' = [client EXCEPT ![conn[p]] = "done"]
  /\ UNCHANGED <<backlog, interrupts>>

(* srv_sigint_handler.  The client's connection stays open in the other    *)
(* processes that inherited it.                                            *)
Interrupt(p) ==
  /\ Alive(p)
  /\ interrupts < MaxInterrupts
  /\ interrupts' = interrupts + 1
  /\ Exits(p)
  /\ client' = IF conn[p] = None THEN client
                                 ELSE [client EXCEPT ![conn[p]] = "stranded"]
  /\ UNCHANGED <<backlog, faults>>

-----------------------------------------------------------------------------
(* srv_sigchld_handler                                                     *)

Deliver(p) ==
  /\ Running(p) /\ pending[p]
  /\ pending' = [pending EXCEPT ![p] = FALSE]
  /\ handling' = [handling EXCEPT ![p] = TRUE]
  /\ UNCHANGED <<pc, parent, cur_clients, conn, backlog, client, faults, interrupts>>

KillClient(p) ==
  cur_clients' =
    [cur_clients EXCEPT ![p] = IF @ > -MaxSpins THEN @ - 1 ELSE @]

(* waitpid finds a child that ended. *)
Reap(p) ==
  /\ handling[p]
  /\ \E q \in Zombies(p) : /\ pc' = [pc EXCEPT ![q] = "none"]
                           /\ parent' = [parent EXCEPT ![q] = None]
  /\ KillClient(p)
  /\ UNCHANGED <<conn, pending, handling, backlog, client, faults, interrupts>>

(* Other children have not ended: waitpid returns 0, which is not -1, and  *)
(* counts as the end of a client.                                          *)
Spin(p) ==
  /\ handling[p]
  /\ Zombies(p) = {} /\ Children(p) # {}
  /\ KillClient(p)
  /\ UNCHANGED <<pc, parent, conn, pending, handling, backlog, client, faults, interrupts>>

(* Mutant: one signal, one waitpid. *)
ReturnEarly(p) ==
  /\ handling[p]
  /\ handling' = [handling EXCEPT ![p] = FALSE]
  /\ UNCHANGED <<pc, parent, cur_clients, conn, pending, backlog, client, faults,
                 interrupts>>

(* No children are left, and the handler returns.  An accept that it       *)
(* interrupted returns -1 (EINTR), and the process ends.                   *)
Return(p) ==
  /\ handling[p] /\ Children(p) = {}
  /\ IF pc[p] = "accept"
       THEN Exits(p)
       ELSE /\ handling' = [handling EXCEPT ![p] = FALSE]
            /\ UNCHANGED <<pc, parent, cur_clients, conn, pending>>
  /\ UNCHANGED <<backlog, client, faults, interrupts>>

-----------------------------------------------------------------------------

Step(p) ==
  \/ Listen(p) \/ Accept(p) \/ (\E q \in Pid : Fork(p, q))
  \/ Deliver(p) \/ Reap(p) \/ Spin(p) \/ Return(p)

Next ==
  \/ \E c \in Client : Connect(c)
  \/ \E p \in Pid : Step(p) \/ ForkFails(p) \/ HangUp(p) \/ Die(p) \/ Interrupt(p)

Spec == Init /\ [][Next]_vars

(* A process that can go on goes on.  Clients need never leave. *)
FairSpec == Spec /\ \A p \in Pid : WF_vars(Step(p))

-----------------------------------------------------------------------------
(* Properties                                                              *)

Calm == faults = 0 /\ interrupts = 0

(* Every client that was accepted has one process that serves it or is     *)
(* about to make one, and no process serves a client that is not there.    *)
OneServerPerClient ==
  /\ \A c \in Client : client[c] = "served" =>
       Cardinality({p \in Pid : conn[p] = c}) = 1
  /\ \A p \in Pid : conn[p] # None =>
       pc[p] \in {"fork", "serve"} /\ client[conn[p]] = "served"

(* As long as nothing fails no count goes down: each fork makes two        *)
(* processes with one free slot less each.  So MAX_CLIENTS bounds neither  *)
(* the clients nor the processes, but their number is bounded: each of the *)
(* MAX_CLIENTS - 1 slots of the first process doubles them.                *)
Share(p) == 2 ^ (MAX_CLIENTS - 1 - cur_clients[p])
SharesAreConserved ==
  Calm => MapThenSumSet(Share, {p \in Pid : Alive(p)}) = 2 ^ (MAX_CLIENTS - 1)

(* A process only ever writes inside the table of its clients, as long as  *)
(* no child dies: a count that spun below zero is used as an index, too.   *)
SlotsInTable ==
  Calm => \A p \in Pid : pc[p] \in {"accept", "fork"} =>
            cur_clients[p] + 1 \in 0..(MAX_CLIENTS - 1)

(* No child that ended is forgotten, although several ends make one        *)
(* signal: its parent is reaping or is going to.                           *)
ZombiesAreNoticed ==
  \A p \in Pid : Zombies(p) # {} => pending[p] \/ handling[p]

(* A client that waits is accepted, unless all processes are full, serve,  *)
(* or are caught in a signal handler.                                      *)
CanAccept(p) ==
  /\ Running(p) /\ ~pending[p]
  /\ \/ pc[p] \in {"loop", "accept"} /\ cur_clients[p] + 1 < MAX_CLIENTS
     \/ pc[p] = "fork" /\ cur_clients[p] + 2 < MAX_CLIENTS
WaitingAreAccepted ==
  \A c \in Client :
    client[c] = "waiting" ~>
      (client[c] # "waiting" \/ \A p \in Pid : ~CanAccept(p))

(* "Server side logic, does all the forking and client management, while   *)
(* child processes call the backend functions" (README.md:49): no client   *)
(* ends the server.                                                        *)
ServerOutlivesClients == interrupts = 0 => Alive(Main)

=============================================================================
