---------------------------- MODULE QueueListen ----------------------------
(***************************************************************************)
(* How a client and its process get their message queues (queue/           *)
(* msgqueue.c): the client sends its number on one queue of the server and *)
(* waits for an "Accepted" on another one, which says for nobody whom it   *)
(* is for.  QUEUE_SIZE is 1.                                               *)
(***************************************************************************)
EXTENDS Family

VARIABLES
  srvIn,      \* the numbers in /Srv_in
  srvOut,     \* how many "Accepted" there are in /Srv_out
  queues,     \* the clients whose queues exist
  alone       \* history: the clients that asked while no other was asking

queue == <<srvIn, srvOut, queues, alone>>

QUEUE_SIZE == 1

QueueInit == srvIn = << >> /\ srvOut = 0 /\ queues = {} /\ alone = Client

(* Mutant: the queue takes any number of messages. *)
QueueAskAnyway(c) ==
  /\ cpc[c] = "out"
  /\ srvIn' = Append(srvIn, c)
  /\ LET rivals == {d \in Client \ {c} : Asking(d)} IN
       alone' = alone \ (rivals \cup (IF rivals = {} THEN {} ELSE {c}))
  /\ Becomes(c, "sent")
  /\ UNCHANGED <<family, link, faults, srvOut, queues>>

QueueAsk(c) ==
  /\ cpc[c] = "out" /\ Len(srvIn) < QUEUE_SIZE
  /\ srvIn' = Append(srvIn, c)
  /\ LET rivals == {d \in Client \ {c} : Asking(d)} IN
       alone' = alone \ (rivals \cup (IF rivals = {} THEN {} ELSE {c}))
  /\ Becomes(c, "sent")
  /\ UNCHANGED <<family, link, faults, srvOut, queues>>

(* The client opens its queues, which are there or not, and does not look  *)
(* at the result but to report it.                                         *)
QueueAccepted(c) ==
  /\ cpc[c] = "sent" /\ srvOut > 0
  /\ srvOut' = srvOut - 1
  /\ IF c \in queues
       THEN Becomes(c, "connected") /\ link' = [link EXCEPT ![c] = c]
       ELSE Becomes(c, "broken") /\ UNCHANGED link
  /\ UNCHANGED <<family, faults, srvIn, queues, alone>>

(* Mutant: "Accepted" is sent before the queues are made. *)
QueueReceiveEarly(p) ==
  /\ At(p, "accept") /\ srvIn # << >> /\ srvOut < QUEUE_SIZE
  /\ srvIn' = Tail(srvIn)
  /\ srvOut' = srvOut + 1
  /\ conn' = [conn EXCEPT ![p] = Head(srvIn)]
  /\ Goto(p, "received")
  /\ UNCHANGED <<next, parent, pending, clients, faults, queues, alone>>

(* The queues are made if they are not there. *)
QueueReceive(p) ==
  /\ At(p, "accept") /\ srvIn # << >>
  /\ srvIn' = Tail(srvIn)
  /\ conn' = [conn EXCEPT ![p] = Head(srvIn)]
  /\ queues' = queues \cup {Head(srvIn)}
  /\ Goto(p, "received")
  /\ UNCHANGED <<next, parent, pending, clients, faults, srvOut, alone>>

(* Mutant: the client is not told. *)
QueueAnswerUnsent(p) ==
  /\ At(p, "received") /\ srvOut < QUEUE_SIZE
  /\ Goto(p, "accepted")
  /\ UNCHANGED <<conn, next, parent, pending, clients, faults, queue>>

QueueAnswer(p) ==
  /\ At(p, "received") /\ srvOut < QUEUE_SIZE
  /\ srvOut' = srvOut + 1
  /\ Goto(p, "accepted")
  /\ UNCHANGED <<conn, next, parent, pending, clients, faults, srvIn, queues, alone>>

(* The result of mq_receive is not looked at, nor is that of mq_send: when *)
(* a SIGCHLD ends the one, the number, which is not initialised, is that   *)
(* of the last client, still on the stack, or of nobody; when it ends the  *)
(* other, the client is never told.                                        *)
QueueReap(p) ==
  /\ Reaped(p)
  /\ pending' = [pending EXCEPT ![p] = FALSE]
  /\ \/ /\ spc[p] = "accept"
        /\ \E k \in {conn[p], None} :
             /\ conn' = [conn EXCEPT ![p] = k]
             /\ queues' = queues \cup ({k} \ {None})
        /\ Goto(p, "received")
     \/ /\ spc[p] = "received" /\ srvOut = QUEUE_SIZE
        /\ Goto(p, "accepted")
        /\ UNCHANGED <<conn, queues>>
     \/ /\ spc[p] # "accept" /\ (spc[p] = "received" => srvOut < QUEUE_SIZE)
        /\ UNCHANGED <<spc, conn, queues>>
  /\ UNCHANGED <<next, parent, clients, faults, srvIn, srvOut, alone>>

QueueProcess(p) == QueueReceive(p) \/ QueueAnswer(p) \/ QueueReap(p)

=============================================================================
