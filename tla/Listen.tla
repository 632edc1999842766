------------------------------- MODULE Listen -------------------------------
(***************************************************************************)
(* How clients and processes of the server meet, over shared memory,       *)
(* message queues or FIFOs, whichever the program was built with: one of   *)
(* the three transports, with the processes of Family.                     *)
(***************************************************************************)
EXTENDS ShmemListen, QueueListen, FifoListen

vars == <<backend, family, clients, faults, shmem, queue, fifo>>

(* A port, the client's number, or the client's and the server's. *)
Link ==
  {None} \cup CASE backend = "shmem" -> Nat
               [] backend = "queue" -> Client
               [] backend = "fifo" -> Client \X Nat

TypeOK ==
  /\ backend \in Backend
  /\ spc \in [Proc -> {"unborn", "accept", "written", "offered", "received", "reading",
                       "naming", "linking", "accepted", "serve", "dead"}]
  /\ conn \in [Proc -> Link]
  /\ next \in [Proc -> Nat]
  /\ parent \in [Proc -> Proc]
  /\ pending \in [Proc -> BOOLEAN]
  /\ cpc \in [Client -> Final \cup {"out", "reading", "sent", "opening", "open", "named",
                                    "linking", "linked"}]
  /\ link \in [Client -> Link]
  /\ faults \in 0..MaxFaults
  /\ listenZone \in Nat /\ listenAvailable \in Nat /\ listenFree \in Nat
  /\ srvIn \in Seq(Client) /\ Len(srvIn) <= QUEUE_SIZE
  /\ srvOut \in 0..QUEUE_SIZE
  /\ queues \subseteq Client /\ alone \subseteq Client
  /\ inc \in Seq(Client)
  /\ hello \in [Client -> (Client \X Nat) \cup {None}]

Init == FamilyInit /\ ShmemInit /\ QueueInit /\ FifoInit

(* What the processes and the clients do by themselves. *)
Process(p) ==
  \/ backend = "shmem" /\ ShmemProcess(p) /\ UNCHANGED <<backend, queue, fifo>>
  \/ backend = "queue" /\ QueueProcess(p) /\ UNCHANGED <<backend, shmem, fifo>>
  \/ backend = "fifo" /\ FifoProcess(p) /\ UNCHANGED <<backend, shmem, queue>>
  \/ Fork(p) /\ UNCHANGED <<backend, clients, faults, shmem, queue, fifo>>

Connect(c) ==
  \/ backend = "shmem" /\ ShmemRead(c) /\ UNCHANGED <<backend, queue, fifo>>
  \/ backend = "queue" /\ QueueAccepted(c) /\ UNCHANGED <<backend, shmem, fifo>>
  \/ backend = "fifo" /\ FifoConnect(c) /\ UNCHANGED <<backend, shmem, queue>>

(* What they do when somebody wants it. *)
Ask(c) ==
  \/ backend = "shmem" /\ ShmemAsk(c) /\ UNCHANGED <<backend, queue, fifo>>
  \/ backend = "queue" /\ QueueAsk(c) /\ UNCHANGED <<backend, shmem, fifo>>
  \/ backend = "fifo" /\ FifoAsk(c) /\ UNCHANGED <<backend, shmem, queue>>

Others ==
  /\ \/ \E c \in Client, p \in Proc : Leave(c, p) /\ UNCHANGED faults
     \/ \E p \in Proc : Die(p)
     \/ \E c \in Client : GiveUp(c)
  /\ UNCHANGED <<backend, shmem, queue, fifo>>

Next ==
  \/ \E p \in Proc : Process(p)
  \/ \E c \in Client : Connect(c) \/ Ask(c)
  \/ Others

Spec == Init /\ [][Next]_vars

(* A process, and a client that has asked, goes on whenever it can. *)
FairSpec ==
  /\ Spec
  /\ \A p \in Proc : WF_vars(Process(p))
  /\ \A c \in Client : WF_vars(Connect(c))

-----------------------------------------------------------------------------
(* Properties *)

(* No two clients share a connection, and no two processes serve one: with *)
(* FIFOs always, with queues as long as nobody is killed, with shared      *)
(* memory as long as only one process accepts, too (shmem.c:296, where a   *)
(* process writes its port over another one's).                            *)
Undisturbed ==
  CASE backend = "fifo" -> TRUE
    [] backend = "queue" -> faults = 0
    [] backend = "shmem" -> Calm
OneToOne ==
  Undisturbed =>
    \A c \in Client : cpc[c] = "connected" =>
      /\ Cardinality(Serving(link[c])) <= 1
      /\ \A d \in Client \ {c} : cpc[d] = "connected" => link[d] # link[c]

(* An "Accepted" is read by the client that it was meant for, unless two   *)
(* were asking at the same time: nobody who asks alone opens queues that   *)
(* are not there (msgqueue.c:44, whose result connect does not return).    *)
OnlyRivalsBreak ==
  faults = 0 => \A c \in Client : cpc[c] = "broken" => c \notin alone

(* A client that asks is told no, or is connected and served, or nobody is *)
(* left to accept it: with FIFOs a process ends when it reads the end of   *)
(* the file of a client that it has accepted before (fifo.c:51), and the   *)
(* SIGCHLD of one that was a child keeps its parent from accepting until   *)
(* all its children have ended (srv/main.c:56).                            *)
Accepting == \E p \in Proc : spc[p] \notin {"unborn", "serve", "dead"} /\ ~pending[p]
AskersAreServed ==
  \A c \in Client :
    Asking(c) ~> \/ cpc[c] \in {"failed", "broken", "left"}
                 \/ cpc[c] = "connected" /\ Serving(link[c]) # {}
                 \/ ~Undisturbed \/ faults > 0 \/ ~Accepting

=============================================================================
