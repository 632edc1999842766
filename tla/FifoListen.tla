----------------------------- MODULE FifoListen -----------------------------
(***************************************************************************)
(* How a client and its process get their FIFOs (fifo/fifo.c): the client  *)
(* writes the name of one, that it has made, into the FIFO of the server,  *)
(* and reads the name of the other one from it.                            *)
(*                                                                         *)
(* open waits for the other end.  No process closes the server's FIFO once *)
(* it has accepted a client, and its children inherit it: a client's open  *)
(* finds a reader as long as any process lives.  The names are the number  *)
(* of the client, and that number followed by the server's; that two of    *)
(* them are spelled alike (/1 and 0, /10) is left out.                     *)
(***************************************************************************)
EXTENDS Family

VARIABLES
  inc,      \* the names in the server's FIFO
  hello     \* hello[c]: the name that was written into c's FIFO, or None

fifo == <<inc, hello>>

FifoInit == inc = << >> /\ hello = [c \in Client |-> None]

(* The clients that have the server's FIFO open. *)
Writers == {c \in Client : cpc[c] \in {"opening", "open", "named", "linking", "linked"}}

FifoAsk(c) ==
  /\ cpc[c] = "out"
  /\ Becomes(c, "opening")
  /\ UNCHANGED <<family, link, faults, fifo>>

FifoFound(c) ==
  /\ cpc[c] = "opening" /\ \E p \in Proc : Alive(p)
  /\ Becomes(c, "open")
  /\ UNCHANGED <<family, link, faults, fifo>>

FifoName(c) ==
  /\ cpc[c] = "open"
  /\ inc' = Append(inc, c)
  /\ Becomes(c, "named")
  /\ UNCHANGED <<family, link, faults, hello>>

(* The client's FIFO has two ends, and a name in it. *)
FifoHello(c) ==
  /\ cpc[c] = "named" /\ hello[c] # None
  /\ link' = [link EXCEPT ![c] = hello[c]]
  /\ Becomes(c, "linking")
  /\ UNCHANGED <<family, faults, fifo>>

(* The server's FIFO is closed last. *)
FifoClose(c) ==
  /\ cpc[c] = "linked"
  /\ Becomes(c, "connected")
  /\ UNCHANGED <<family, link, faults, fifo>>

(* open waits for a client, any client, to have the FIFO open. *)
FifoOpen(p) ==
  /\ At(p, "accept") /\ Writers # {}
  /\ Goto(p, "reading")
  /\ UNCHANGED <<conn, next, parent, pending, clients, faults, fifo>>

FifoRead(p) ==
  /\ At(p, "reading") /\ inc # << >>
  /\ conn' = [conn EXCEPT ![p] = <<Head(inc), next[p]>>]
  /\ inc' = Tail(inc)
  /\ Goto(p, "naming")
  /\ UNCHANGED <<next, parent, pending, clients, faults, hello>>

(* When the client that had it open was connected already, and closes it,  *)
(* there is nothing to read but its end: the name is none, the write fails,*)
(* and the process ends, as it does when accept fails.                     *)
FifoEof(p) ==
  /\ At(p, "reading") /\ inc = << >> /\ Writers = {}
  /\ Ends(p)
  /\ UNCHANGED <<conn, next, parent, clients, faults, fifo>>

(* The client has opened its FIFO to read: a name is made and written. *)
FifoAnswer(p) ==
  LET c == conn[p][1] IN
  /\ At(p, "naming") /\ cpc[c] = "named"
  /\ hello' = [hello EXCEPT ![c] = conn[p]]
  /\ next' = [next EXCEPT ![p] = @ + 1]
  /\ Goto(p, "linking")
  /\ UNCHANGED <<conn, parent, pending, clients, faults, inc>>

(* Both ends of the second FIFO are opened. *)
FifoMeet(p, c) ==
  /\ At(p, "linking") /\ cpc[c] = "linking" /\ link[c] = conn[p]
  /\ Goto(p, "accepted")
  /\ Becomes(c, "linked")
  /\ UNCHANGED <<conn, next, parent, pending, link, faults, fifo>>

(* A SIGCHLD ends whatever open, read or write accept waits in, and accept *)
(* with it.                                                                *)
FifoReap(p) ==
  /\ Reaped(p)
  /\ IF spc[p] \in {"accept", "reading", "naming", "linking"}
       THEN Ends(p)
       ELSE pending' = [pending EXCEPT ![p] = FALSE] /\ UNCHANGED spc
  /\ UNCHANGED <<conn, next, parent, clients, faults, fifo>>

FifoProcess(p) ==
  \/ FifoOpen(p) \/ FifoRead(p) \/ FifoEof(p) \/ FifoAnswer(p) \/ FifoReap(p)
  \/ \E c \in Client : FifoMeet(p, c)

FifoConnect(c) == FifoFound(c) \/ FifoName(c) \/ FifoHello(c) \/ FifoClose(c)

=============================================================================
