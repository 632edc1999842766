---------------------------- MODULE ServerProofs ----------------------------
(***************************************************************************)
(* Proofs about Server, for any number of processes, clients, slots,       *)
(* deaths and signals.                                                     *)
(***************************************************************************)
EXTENDS Server, FiniteSetTheorems, WellFoundedInduction, TLAPS

-----------------------------------------------------------------------------
(* The inductive invariant                                                 *)

PC == {"loop", "accept", "fork", "serve", "zombie", "none"}
State == {"out", "waiting", "served", "done", "stranded"}

(* A parent is alive, and another process: whoever ends leaves no children *)
(* behind.                                                                 *)
Family ==
  /\ \A q \in Pid : parent[q] # None => Alive(parent[q]) /\ parent[q] # q
  /\ \A p \in Pid : handling[p] \/ pending[p] => Alive(p)

(* The queue of the kernel holds those who wait, each once. *)
Queue ==
  /\ \A i \in 1..Len(backlog) : client[backlog[i]] = "waiting"
  /\ \A i, j \in 1..Len(backlog) : backlog[i] = backlog[j] => i = j

(* Who has a client, and which clients are had. *)
Pairs ==
  /\ \A p \in Pid : pc[p] \in {"fork", "serve"} <=> conn[p] # None
  /\ \A p \in Pid : conn[p] # None => client[conn[p]] = "served"
  /\ \A p, q \in Pid : conn[p] # None /\ conn[p] = conn[q] => p = q
  /\ \A c \in Client : client[c] = "served" => \E p \in Pid : conn[p] = c

(* A process that accepts has a slot to fill. *)
Room == \A p \in Pid : pc[p] \in {"accept", "fork"} => cur_clients[p] + 1 < MAX_CLIENTS

(* While nothing fails no child ends, and no count goes down. *)
Quiet ==
  Calm => \A p \in Pid : /\ ~pending[p] /\ ~handling[p]
                         /\ pc[p] # "zombie" /\ cur_clients[p] >= 0

SInv ==
  /\ TypeOK /\ Family /\ Queue /\ Pairs /\ Room /\ Quiet /\ ZombiesAreNoticed

-----------------------------------------------------------------------------
(* Constants and helpers                                                   *)

LEMMA Bounds ==
  /\ MAX_CLIENTS \in Nat /\ MAX_CLIENTS >= 1
  /\ MaxFaults \in Nat /\ MaxInterrupts \in Nat /\ MaxSpins \in Nat
  /\ 0 \in -MaxSpins..(MAX_CLIENTS - 1)
  /\ \A c \in Client : c # None
  /\ \A p \in Pid : p # None
BY TableAssumption, ServerBoundAssumption, ProcessAssumption

LEMMA InitSInv == Init => SInv
<1> SUFFICES ASSUME Init PROVE SInv
  OBVIOUS
<1>1. TypeOK
  BY Bounds DEF Init, TypeOK
<1>2. Family /\ Queue /\ Pairs /\ Room /\ Quiet
  BY Bounds DEF Init, Family, Queue, Pairs, Room, Quiet
<1>3. ZombiesAreNoticed
  BY DEF Init, ZombiesAreNoticed, Zombies, Children
<1> QED
  BY <1>1, <1>2, <1>3 DEF SInv

-----------------------------------------------------------------------------
(* Clients and the queue                                                   *)

LEMMA ConnectStep ==
  ASSUME SInv, NEW c \in Client, Connect(c)
  PROVE  SInv'
<1>1. /\ client[c] = "out" /\ client' = [client EXCEPT ![c] = "waiting"]
      /\ backlog' = Append(backlog, c)
      /\ UNCHANGED <<pc, parent, cur_clients, conn, pending, handling, faults, interrupts>>
  BY DEF Connect, processes
<1>2. client \in [Client -> State] /\ backlog \in Seq(Client) /\ conn \in [Pid -> Client \cup {None}]
  BY DEF SInv, TypeOK, State
<1>3. client' \in [Client -> State] /\ backlog' \in Seq(Client)
  BY <1>1, <1>2 DEF State
<1>4. TypeOK'
  BY <1>1, <1>3 DEF SInv, TypeOK, State
<1>5. Family' /\ Room' /\ Quiet' /\ ZombiesAreNoticed'
  BY <1>1 DEF SInv, Family, Room, Quiet, Calm, ZombiesAreNoticed, Zombies, Children, Alive
<1>6. \A d \in Client : client'[d] = IF d = c THEN "waiting" ELSE client[d]
  BY <1>1, <1>2
<1>7. Queue'
  <2>1. /\ Len(backlog') = Len(backlog) + 1 /\ backlog'[Len(backlog) + 1] = c
        /\ \A i \in 1..Len(backlog) : backlog'[i] = backlog[i] /\ backlog[i] \in Client
        /\ Len(backlog) \in Nat
    BY <1>1, <1>2
  <2>2. \A i \in 1..Len(backlog') : i \in 1..Len(backlog) \/ i = Len(backlog) + 1
    BY <2>1
  <2>3. \A i \in 1..Len(backlog) : client[backlog[i]] = "waiting" /\ backlog[i] # c
    BY <1>1 DEF SInv, Queue
  <2> QED
    BY <1>6, <2>1, <2>2, <2>3 DEF SInv, Queue
<1>8. Pairs'
  <2>1. \A p \in Pid : conn[p] # None => conn[p] \in Client /\ conn[p] # c
    BY <1>1, <1>2 DEF SInv, Pairs
  <2>2. \A d \in Client : client'[d] = "served" => client[d] = "served"
    BY <1>6
  <2> QED
    BY <1>1, <1>6, <2>1, <2>2 DEF SInv, Pairs
<1> QED
  BY <1>4, <1>5, <1>7, <1>8 DEF SInv

LEMMA ListenStep ==
  ASSUME SInv, NEW p \in Pid, Listen(p)
  PROVE  SInv'
<1>1. /\ Running(p) /\ pc[p] = "loop" /\ cur_clients[p] + 1 < MAX_CLIENTS
      /\ pc' = [pc EXCEPT ![p] = "accept"]
      /\ UNCHANGED <<parent, cur_clients, conn, pending, handling, backlog, client,
                     faults, interrupts>>
  BY DEF Listen
<1>2. pc \in [Pid -> PC]
  BY DEF SInv, TypeOK, PC
<1>3. \A q \in Pid : pc'[q] = IF q = p THEN "accept" ELSE pc[q]
  BY <1>1, <1>2
<1>4. TypeOK'
  BY <1>1, <1>2 DEF SInv, TypeOK
<1>5. \A q \in Pid : Alive(q)' <=> Alive(q)
  BY <1>1, <1>3 DEF Alive
<1>6. Family' /\ Queue' /\ Room'
  <2>1. \A q \in Pid : parent[q] # None => parent[q] \in Pid
    BY DEF SInv, TypeOK
  <2> QED
    BY <1>1, <1>3, <1>5, <2>1 DEF SInv, Family, Queue, Room, Alive
<1>7. Pairs'
  BY <1>1, <1>3 DEF SInv, Pairs
<1>8. Quiet' /\ ZombiesAreNoticed'
  BY <1>1, <1>3 DEF SInv, Quiet, Calm, ZombiesAreNoticed, Zombies, Children
<1> QED
  BY <1>4, <1>6, <1>7, <1>8 DEF SInv

LEMMA AcceptStep ==
  ASSUME SInv, NEW p \in Pid, Accept(p)
  PROVE  SInv'
<1> DEFINE c == Head(backlog)
<1>1. /\ Running(p) /\ pc[p] = "accept" /\ backlog # << >>
      /\ pc' = [pc EXCEPT ![p] = "fork"] /\ conn' = [conn EXCEPT ![p] = c]
      /\ client' = [client EXCEPT ![c] = "served"] /\ backlog' = Tail(backlog)
      /\ UNCHANGED <<parent, cur_clients, pending, handling, faults, interrupts>>
  BY DEF Accept
<1>2. /\ pc \in [Pid -> PC] /\ conn \in [Pid -> Client \cup {None}]
      /\ client \in [Client -> State] /\ backlog \in Seq(Client)
  BY DEF SInv, TypeOK, PC, State
<1>3. /\ c \in Client /\ c = backlog[1] /\ 1 \in 1..Len(backlog) /\ Len(backlog) \in Nat
      /\ backlog' \in Seq(Client) /\ Len(backlog') = Len(backlog) - 1
      /\ \A i \in 1..Len(backlog') : backlog'[i] = backlog[i + 1] /\ i + 1 \in 1..Len(backlog)
  BY <1>1, <1>2
<1>4. client[c] = "waiting" /\ c # None
  BY <1>3, Bounds DEF SInv, Queue
<1> HIDE DEF c
<1>5. \A q \in Pid : /\ pc'[q] = IF q = p THEN "fork" ELSE pc[q]
                     /\ conn'[q] = IF q = p THEN c ELSE conn[q]
  BY <1>1, <1>2
<1>6. \A d \in Client : client'[d] = IF d = c THEN "served" ELSE client[d]
  BY <1>1, <1>2
<1>7. TypeOK'
  BY <1>1, <1>2, <1>3 DEF SInv, TypeOK, PC, State
<1>8. \A q \in Pid : Alive(q)' <=> Alive(q)
  BY <1>1, <1>5 DEF Alive
<1>9. Family'
  <2>1. \A q \in Pid : parent[q] # None => parent[q] \in Pid
    BY DEF SInv, TypeOK
  <2> QED
    BY <1>1, <1>8, <2>1 DEF SInv, Family, Alive
<1>10. Queue'
  <2>1. \A i \in 1..Len(backlog') : backlog'[i] \in Client /\ backlog'[i] # c
    BY <1>2, <1>3 DEF SInv, Queue
  <2>2. \A i \in 1..Len(backlog') : client'[backlog'[i]] = "waiting"
    <3> SUFFICES ASSUME NEW i \in 1..Len(backlog')
                 PROVE  client'[backlog'[i]] = "waiting"
      OBVIOUS
    <3>1. backlog'[i] = backlog[i + 1] /\ i + 1 \in 1..Len(backlog)
      BY <1>3
    <3>2. client[backlog[i + 1]] = "waiting"
      BY <3>1 DEF SInv, Queue
    <3>3. client'[backlog'[i]] = client[backlog'[i]]
      BY <1>6, <2>1
    <3> QED
      BY <3>1, <3>2, <3>3
  <2>3. \A i, j \in 1..Len(backlog') : backlog'[i] = backlog'[j] => i = j
    <3> SUFFICES ASSUME NEW i \in 1..Len(backlog'), NEW j \in 1..Len(backlog'),
                        backlog'[i] = backlog'[j]
                 PROVE  i = j
      OBVIOUS
    <3>1. i + 1 = j + 1
      BY <1>3 DEF SInv, Queue
    <3> QED
      BY <3>1
  <2> QED
    BY <2>2, <2>3 DEF Queue
<1>11. Pairs'
  <2>1. conn[p] = None /\ \A q \in Pid : conn[q] # c
    BY <1>1, <1>4 DEF SInv, Pairs
  <2>2. \A q \in Pid : conn[q] # None => conn[q] \in Client
    BY <1>2
  <2>3. \A d \in Client : client'[d] = "served" => \E q \in Pid : conn'[q] = d
    <3> SUFFICES ASSUME NEW d \in Client, client'[d] = "served"
                 PROVE  \E q \in Pid : conn'[q] = d
      OBVIOUS
    <3>1. CASE d = c
      BY <1>5, <3>1
    <3>2. CASE d # c
      <4>1. PICK q \in Pid : conn[q] = d
        BY <1>6, <3>2 DEF SInv, Pairs
      <4> QED
        BY <1>5, <2>1, <4>1, Bounds
    <3> QED
      BY <3>1, <3>2
  <2> QED
    BY <1>3, <1>4, <1>5, <1>6, <2>1, <2>2, <2>3 DEF SInv, Pairs
<1>12. Room' /\ Quiet' /\ ZombiesAreNoticed'
  BY <1>1, <1>5 DEF SInv, Room, Quiet, Calm, ZombiesAreNoticed, Zombies, Children
<1> QED
  BY <1>7, <1>9, <1>10, <1>11, <1>12 DEF SInv

-----------------------------------------------------------------------------
(* Forks                                                                   *)

LEMMA ForkStep ==
  ASSUME SInv, NEW p \in Pid, NEW k \in Pid, Fork(p, k)
  PROVE  SInv'
<1> DEFINE n == cur_clients[p] + 1
<1>1. /\ Running(p) /\ pc[p] = "fork" /\ pc[k] = "none"
      /\ pc' = [pc EXCEPT ![p] = "loop", ![k] = "serve"]
      /\ parent' = [parent EXCEPT ![k] = p]
      /\ cur_clients' = [cur_clients EXCEPT ![p] = n, ![k] = n]
      /\ conn' = [conn EXCEPT ![p] = None, ![k] = conn[p]]
      /\ pending' = [pending EXCEPT ![k] = FALSE] /\ handling' = [handling EXCEPT ![k] = FALSE]
      /\ UNCHANGED <<backlog, client, faults, interrupts>>
  BY DEF Fork
<1>2. /\ pc \in [Pid -> PC] /\ parent \in [Pid -> Pid \cup {None}]
      /\ conn \in [Pid -> Client \cup {None}] /\ pending \in [Pid -> BOOLEAN]
      /\ handling \in [Pid -> BOOLEAN]
      /\ cur_clients \in [Pid -> -MaxSpins..(MAX_CLIENTS - 1)]
  BY DEF SInv, TypeOK, PC
<1>3. p # k
  BY <1>1
<1>4. n \in -MaxSpins..(MAX_CLIENTS - 1)
  BY <1>1, <1>2, Bounds DEF SInv, Room
<1> HIDE DEF n
<1>5. \A q \in Pid :
        /\ pc'[q] = IF q = k THEN "serve" ELSE IF q = p THEN "loop" ELSE pc[q]
        /\ parent'[q] = IF q = k THEN p ELSE parent[q]
        /\ cur_clients'[q] = IF q \in {p, k} THEN n ELSE cur_clients[q]
        /\ conn'[q] = IF q = k THEN conn[p] ELSE IF q = p THEN None ELSE conn[q]
  BY <1>1, <1>2, <1>3
<1>6. \A q \in Pid : /\ pending'[q] = (q # k /\ pending[q])
                     /\ handling'[q] = (q # k /\ handling[q])
  BY <1>1, <1>2
<1>7. TypeOK'
  <2>1. pc' \in [Pid -> PC]
    BY <1>1, <1>2 DEF PC
  <2>2. parent' \in [Pid -> Pid \cup {None}] /\ conn' \in [Pid -> Client \cup {None}]
    BY <1>1, <1>2
  <2>3. cur_clients' \in [Pid -> -MaxSpins..(MAX_CLIENTS - 1)]
    BY <1>1, <1>2, <1>4
  <2>4. pending' \in [Pid -> BOOLEAN] /\ handling' \in [Pid -> BOOLEAN]
    BY <1>1, <1>2
  <2> QED
    BY <1>1, <2>1, <2>2, <2>3, <2>4 DEF SInv, TypeOK, PC
<1>8. \A q \in Pid : pc[q] \notin {"zombie", "none"} =>
                       q # k /\ pc'[q] \notin {"zombie", "none"}
  <2>1. pc[k] = "none"
    BY <1>1
  <2> QED
    BY <1>5, <2>1
<1>9. Family'
  <2>1. ASSUME NEW q \in Pid, parent'[q] # None
        PROVE  pc'[parent'[q]] \notin {"zombie", "none"} /\ parent'[q] # q
    <3>1. CASE q = k
      BY <1>1, <1>5, <1>8, <3>1 DEF Running, Alive
    <3>2. CASE q # k
      <4>1. parent'[q] = parent[q] /\ parent[q] \in Pid
        BY <1>2, <1>5, <2>1, <3>2
      <4>2. pc[parent[q]] \notin {"zombie", "none"} /\ parent[q] # q
        BY <2>1, <4>1 DEF SInv, Family, Alive
      <4> QED
        BY <1>8, <4>1, <4>2
    <3> QED
      BY <3>1, <3>2
  <2>2. \A q \in Pid : handling'[q] \/ pending'[q] => pc'[q] \notin {"zombie", "none"}
    BY <1>6, <1>8 DEF SInv, Family, Alive
  <2> QED
    BY <2>1, <2>2 DEF Family, Alive
<1>10. Queue'
  BY <1>1 DEF SInv, Queue
<1>11. Pairs'
  <2>1. conn[k] = None /\ conn[p] # None
    BY <1>1 DEF SInv, Pairs
  <2>2. \A q \in Pid : pc'[q] \in {"fork", "serve"} <=> conn'[q] # None
    BY <1>5, <2>1 DEF SInv, Pairs
  <2>3. ASSUME NEW q \in Pid, conn'[q] # None PROVE client'[conn'[q]] = "served"
    <3>1. conn'[q] = conn[p] \/ conn'[q] = conn[q]
      BY <1>5, <2>3
    <3> QED
      BY <1>1, <2>3, <3>1 DEF SInv, Pairs
  <2>4. \A q, r \in Pid : conn'[q] # None /\ conn'[q] = conn'[r] => q = r
    BY <1>5, <2>1 DEF SInv, Pairs
  <2>5. \A c \in Client : client'[c] = "served" => \E q \in Pid : conn'[q] = c
    <3> SUFFICES ASSUME NEW c \in Client, client'[c] = "served"
                 PROVE  \E q \in Pid : conn'[q] = c
      OBVIOUS
    <3>1. PICK q \in Pid : conn[q] = c
      BY <1>1 DEF SInv, Pairs
    <3>2. c # None
      BY Bounds
    <3> QED
      BY <1>5, <2>1, <3>1, <3>2
  <2> QED
    BY <2>2, <2>3, <2>4, <2>5 DEF Pairs
<1>12. Room'
  BY <1>5 DEF SInv, Room
<1>13. Quiet'
  <2>1. n = cur_clients[p] + 1
    BY DEF n
  <2> QED
    BY <1>1, <1>2, <1>5, <1>6, <2>1 DEF SInv, Quiet, Calm
<1>14. ZombiesAreNoticed'
  <2> SUFFICES ASSUME NEW q \in Pid, NEW z \in Pid, parent'[z] = q, pc'[z] = "zombie"
               PROVE  pending'[q] \/ handling'[q]
    BY DEF ZombiesAreNoticed, Zombies, Children
  <2>1. z # k /\ pc[z] = "zombie" /\ parent[z] = q
    BY <1>5
  <2>2. pending[q] \/ handling[q]
    BY <2>1 DEF SInv, ZombiesAreNoticed, Zombies, Children
  <2>3. q # k
    BY <1>1, <2>2 DEF SInv, Family, Alive
  <2> QED
    BY <1>6, <2>2, <2>3
<1> QED
  BY <1>7, <1>9, <1>10, <1>11, <1>12, <1>13, <1>14 DEF SInv

(* A client is let go, by a fork that failed or at its good-bye. *)
LEMMA LetGoStep ==
  ASSUME SInv, NEW p \in Pid, ForkFails(p) \/ HangUp(p)
  PROVE  SInv'
<1>1. /\ Running(p) /\ pc[p] \in {"fork", "serve"}
      /\ pc' = [pc EXCEPT ![p] = "loop"] /\ conn' = [conn EXCEPT ![p] = None]
      /\ \E s \in {"done", "stranded"} : client' = [client EXCEPT ![conn[p]] = s]
      /\ UNCHANGED <<parent, pending, handling, backlog, interrupts>>
  BY DEF ForkFails, HangUp
<1>2. /\ pc \in [Pid -> PC] /\ parent \in [Pid -> Pid \cup {None}]
      /\ conn \in [Pid -> Client \cup {None}] /\ client \in [Client -> State]
      /\ cur_clients \in [Pid -> -MaxSpins..(MAX_CLIENTS - 1)]
      /\ faults \in 0..MaxFaults
  BY DEF SInv, TypeOK, PC, State
<1>3. \/ UNCHANGED <<cur_clients, faults>>
      \/ /\ pc[p] = "fork" /\ faults < MaxFaults /\ faults' = faults + 1
         /\ cur_clients' = [cur_clients EXCEPT ![p] = cur_clients[p] + 1]
  BY DEF ForkFails, HangUp
<1>4. conn[p] # None /\ conn[p] \in Client /\ client[conn[p]] = "served"
  BY <1>1, <1>2 DEF SInv, Pairs
<1>5. \A q \in Pid : /\ pc'[q] = IF q = p THEN "loop" ELSE pc[q]
                     /\ conn'[q] = IF q = p THEN None ELSE conn[q]
  BY <1>1, <1>2
<1>6. \A c \in Client : /\ c # conn[p] => client'[c] = client[c]
                        /\ c = conn[p] => client'[c] \in {"done", "stranded"}
  BY <1>1, <1>2
<1>7. cur_clients' \in [Pid -> -MaxSpins..(MAX_CLIENTS - 1)] /\ faults' \in 0..MaxFaults
  <2>1. pc[p] = "fork" => cur_clients[p] + 1 \in -MaxSpins..(MAX_CLIENTS - 1)
    BY <1>2, Bounds DEF SInv, Room
  <2>2. faults < MaxFaults => faults + 1 \in 0..MaxFaults
    BY <1>2, Bounds
  <2> QED
    BY <1>2, <1>3, <2>1, <2>2
<1>8. TypeOK'
  <2>1. pc' \in [Pid -> PC] /\ conn' \in [Pid -> Client \cup {None}]
    BY <1>1, <1>2 DEF PC
  <2>2. client' \in [Client -> State]
    BY <1>1, <1>2 DEF State
  <2> QED
    BY <1>1, <1>7, <2>1, <2>2 DEF SInv, TypeOK, PC, State
<1>9. \A q \in Pid : Alive(q)' <=> Alive(q)
  BY <1>1, <1>5 DEF Alive
<1>10. Family'
  BY <1>1, <1>2, <1>9 DEF SInv, Family, Alive
<1>11. Queue'
  <2>1. \A i \in 1..Len(backlog) : backlog[i] \in Client /\ backlog[i] # conn[p]
    BY <1>4 DEF SInv, Queue, TypeOK
  <2> QED
    BY <1>1, <1>6, <2>1 DEF SInv, Queue
<1>12. Pairs'
  <2>1. \A q \in Pid : pc'[q] \in {"fork", "serve"} <=> conn'[q] # None
    BY <1>5 DEF SInv, Pairs
  <2>2. \A q \in Pid : conn'[q] # None => client'[conn'[q]] = "served"
    BY <1>2, <1>4, <1>5, <1>6 DEF SInv, Pairs
  <2>3. \A q, r \in Pid : conn'[q] # None /\ conn'[q] = conn'[r] => q = r
    BY <1>5 DEF SInv, Pairs
  <2>4. \A c \in Client : client'[c] = "served" => \E q \in Pid : conn'[q] = c
    <3> SUFFICES ASSUME NEW c \in Client, client'[c] = "served"
                 PROVE  \E q \in Pid : conn'[q] = c
      OBVIOUS
    <3>1. c # conn[p] /\ client[c] = "served"
      BY <1>6
    <3>2. PICK q \in Pid : conn[q] = c
      BY <3>1 DEF SInv, Pairs
    <3> QED
      BY <1>5, <3>1, <3>2
  <2> QED
    BY <2>1, <2>2, <2>3, <2>4 DEF Pairs
<1>13. Room'
  <2> SUFFICES ASSUME NEW q \in Pid, pc'[q] \in {"accept", "fork"}
               PROVE  cur_clients'[q] + 1 < MAX_CLIENTS
    BY DEF Room
  <2>1. q # p /\ cur_clients'[q] = cur_clients[q]
    BY <1>2, <1>3, <1>5
  <2> QED
    BY <1>5, <2>1 DEF SInv, Room
<1>14. Quiet'
  <2> SUFFICES ASSUME Calm', NEW q \in Pid
               PROVE  ~pending'[q] /\ ~handling'[q] /\ pc'[q] # "zombie" /\ cur_clients'[q] >= 0
    BY DEF Quiet, Calm
  <2>1. UNCHANGED <<cur_clients, faults>> /\ Calm
    BY <1>1, <1>2, <1>3 DEF Calm
  <2> QED
    BY <1>1, <1>5, <2>1 DEF SInv, Quiet
<1>15. ZombiesAreNoticed'
  BY <1>1, <1>5 DEF SInv, ZombiesAreNoticed, Zombies, Children
<1> QED
  BY <1>8, <1>10, <1>11, <1>12, <1>13, <1>14, <1>15 DEF SInv

-----------------------------------------------------------------------------
(* Ends                                                                    *)

(* What the end of p does to its family, whatever becomes of its client. *)
LEMMA ExitsKeeps ==
  ASSUME SInv, NEW p \in Pid, Alive(p), Exits(p)
  PROVE  /\ pc' \in [Pid -> PC] /\ parent' \in [Pid -> Pid \cup {None}]
         /\ pending' \in [Pid -> BOOLEAN] /\ handling' \in [Pid -> BOOLEAN]
         /\ cur_clients' \in [Pid -> -MaxSpins..(MAX_CLIENTS - 1)]
         /\ conn' \in [Pid -> Client \cup {None}]
         /\ Family' /\ Room' /\ ZombiesAreNoticed'
         /\ \A q \in Pid : conn'[q] = IF q = p THEN None ELSE conn[q]
         /\ \A q \in Pid : pc'[q] \in {"fork", "serve"} <=> conn'[q] # None
<1>1. /\ pc \in [Pid -> PC] /\ parent \in [Pid -> Pid \cup {None}]
      /\ pending \in [Pid -> BOOLEAN] /\ handling \in [Pid -> BOOLEAN]
      /\ cur_clients \in [Pid -> -MaxSpins..(MAX_CLIENTS - 1)]
      /\ conn \in [Pid -> Client \cup {None}]
  BY DEF SInv, TypeOK, PC
<1>2. \A q \in Pid :
        /\ q = p => pc'[q] \in {"none", "zombie"}
        /\ q # p => pc'[q] = pc[q] \/ (pc[q] = "zombie" /\ pc'[q] = "none")
        /\ q # p /\ parent[q] = p => pc'[q] # "zombie"
  BY DEF Exits
<1>3. \A q \in Pid : parent'[q] = IF parent[q] = p THEN None ELSE parent[q]
  BY DEF Exits
<1>4. \A q \in Pid : pending'[q] = (q = parent[p] \/ (q # p /\ pending[q]))
  BY <1>1 DEF Exits
<1>5. /\ handling' = [handling EXCEPT ![p] = FALSE]
      /\ cur_clients' = [cur_clients EXCEPT ![p] = 0] /\ conn' = [conn EXCEPT ![p] = None]
  BY DEF Exits
<1>6. /\ pc' \in [Pid -> PC] /\ parent' \in [Pid -> Pid \cup {None}]
      /\ pending' \in [Pid -> BOOLEAN] /\ handling' \in [Pid -> BOOLEAN]
      /\ cur_clients' \in [Pid -> -MaxSpins..(MAX_CLIENTS - 1)]
      /\ conn' \in [Pid -> Client \cup {None}]
  <2>1. DOMAIN pc' = Pid /\ pc' = [q \in Pid |-> pc'[q]]
    BY DEF Exits
  <2>2. pc' \in [Pid -> PC]
    BY <1>1, <1>2, <2>1 DEF PC
  <2>3. parent' \in [Pid -> Pid \cup {None}] /\ pending' \in [Pid -> BOOLEAN]
    BY <1>1 DEF Exits
  <2> QED
    BY <1>1, <1>5, <2>2, <2>3, Bounds
<1>7. \A q \in Pid \ {p} : pc[q] \notin {"zombie", "none"} => pc'[q] \notin {"zombie", "none"}
  BY <1>2
<1>8. parent[p] # p /\ \A q \in Pid : q = parent[p] => pc[q] \notin {"zombie", "none"}
  BY <1>1, Bounds DEF SInv, Family, Alive
<1>9. Family'
  <2>1. ASSUME NEW q \in Pid, parent'[q] # None
        PROVE  pc'[parent'[q]] \notin {"zombie", "none"} /\ parent'[q] # q
    <3>1. parent'[q] = parent[q] /\ parent[q] \in Pid \ {p}
      BY <1>1, <1>3, <2>1
    <3>2. pc[parent[q]] \notin {"zombie", "none"} /\ parent[q] # q
      BY <2>1, <3>1 DEF SInv, Family, Alive
    <3> QED
      BY <1>7, <3>1, <3>2
  <2>2. ASSUME NEW q \in Pid, handling'[q] \/ pending'[q]
        PROVE  pc'[q] \notin {"zombie", "none"}
    <3>1. q # p
      BY <1>1, <1>4, <1>5, <1>8, <2>2
    <3>2. q = parent[p] \/ pending[q] \/ handling[q]
      BY <1>1, <1>4, <1>5, <2>2
    <3>3. pc[q] \notin {"zombie", "none"}
      BY <1>8, <3>2 DEF SInv, Family, Alive
    <3> QED
      BY <1>7, <3>1, <3>3
  <2> QED
    BY <2>1, <2>2 DEF Family, Alive
<1>10. Room'
  BY <1>1, <1>2, <1>5 DEF SInv, Room
<1>11. ZombiesAreNoticed'
  <2> SUFFICES ASSUME NEW q \in Pid, NEW z \in Pid, parent'[z] = q, pc'[z] = "zombie"
               PROVE  pending'[q] \/ handling'[q]
    BY DEF ZombiesAreNoticed, Zombies, Children
  <2>1. parent[z] = q /\ q # p
    BY <1>3, Bounds
  <2>2. CASE z = p
    BY <1>4, <2>1, <2>2
  <2>3. CASE z # p
    <3>1. pc[z] = "zombie"
      BY <1>2, <2>3
    <3>2. pending[q] \/ handling[q]
      BY <2>1, <3>1 DEF SInv, ZombiesAreNoticed, Zombies, Children
    <3> QED
      BY <1>1, <1>4, <1>5, <2>1, <3>2
  <2> QED
    BY <2>2, <2>3
<1>12. \A q \in Pid : conn'[q] = IF q = p THEN None ELSE conn[q]
  BY <1>1, <1>5
<1>13. \A q \in Pid : pc'[q] \in {"fork", "serve"} <=> conn'[q] # None
  BY <1>2, <1>12 DEF SInv, Pairs
<1> QED
  BY <1>6, <1>9, <1>10, <1>11, <1>12, <1>13

(* The end of p, whose client, if it has one, is no longer served. *)
LEMMA EndKeeps ==
  ASSUME SInv, NEW p \in Pid, Alive(p), Exits(p), ~Calm', UNCHANGED backlog,
         faults' \in 0..MaxFaults, interrupts' \in 0..MaxInterrupts,
         NEW s \in State \ {"served", "waiting"},
         client' = IF conn[p] = None THEN client ELSE [client EXCEPT ![conn[p]] = s]
  PROVE  SInv'
<1>1. /\ pc' \in [Pid -> PC] /\ parent' \in [Pid -> Pid \cup {None}]
      /\ pending' \in [Pid -> BOOLEAN] /\ handling' \in [Pid -> BOOLEAN]
      /\ cur_clients' \in [Pid -> -MaxSpins..(MAX_CLIENTS - 1)]
      /\ conn' \in [Pid -> Client \cup {None}]
      /\ Family' /\ Room' /\ ZombiesAreNoticed'
      /\ \A q \in Pid : conn'[q] = IF q = p THEN None ELSE conn[q]
      /\ \A q \in Pid : pc'[q] \in {"fork", "serve"} <=> conn'[q] # None
  BY ExitsKeeps
<1>2. /\ conn \in [Pid -> Client \cup {None}] /\ client \in [Client -> State]
      /\ backlog \in Seq(Client)
  BY DEF SInv, TypeOK, State
<1>3. conn[p] # None => conn[p] \in Client /\ client[conn[p]] = "served"
  BY <1>2 DEF SInv, Pairs
<1>4. \A c \in Client : /\ c # conn[p] => client'[c] = client[c]
                        /\ c = conn[p] => client'[c] = s
  BY <1>2, <1>3, Bounds
<1>5. client' \in [Client -> State]
  BY <1>2
<1>6. TypeOK'
  BY <1>1, <1>2, <1>5 DEF TypeOK, PC, State
<1>7. Queue'
  <2>1. \A i \in 1..Len(backlog) : backlog[i] \in Client
    BY <1>2
  <2>2. \A i \in 1..Len(backlog) : backlog[i] # conn[p]
    BY <1>3, <2>1, Bounds DEF SInv, Queue
  <2> QED
    BY <1>4, <2>1, <2>2 DEF SInv, Queue
<1>8. Pairs'
  <2>1. ASSUME NEW q \in Pid, conn'[q] # None PROVE client'[conn'[q]] = "served"
    <3>1. q # p /\ conn'[q] = conn[q] /\ conn[q] # None /\ conn[q] \in Client
      BY <1>1, <1>2, <2>1
    <3>2. conn[q] # conn[p] /\ client[conn[q]] = "served"
      BY <3>1 DEF SInv, Pairs
    <3> QED
      BY <1>4, <3>1, <3>2
  <2>2. \A q, r \in Pid : conn'[q] # None /\ conn'[q] = conn'[r] => q = r
    BY <1>1 DEF SInv, Pairs
  <2>3. \A c \in Client : client'[c] = "served" => \E q \in Pid : conn'[q] = c
    <3> SUFFICES ASSUME NEW c \in Client, client'[c] = "served"
                 PROVE  \E q \in Pid : conn'[q] = c
      OBVIOUS
    <3>1. c # conn[p] /\ client[c] = "served"
      BY <1>4
    <3>2. PICK q \in Pid : conn[q] = c
      BY <3>1 DEF SInv, Pairs
    <3> QED
      BY <1>1, <3>1, <3>2
  <2> QED
    BY <1>1, <2>1, <2>2, <2>3 DEF Pairs
<1>9. Quiet'
  BY DEF Quiet, Calm
<1> QED
  BY <1>1, <1>6, <1>7, <1>8, <1>9 DEF SInv

LEMMA DeathStep ==
  ASSUME SInv, NEW p \in Pid, Die(p) \/ Interrupt(p)
  PROVE  SInv'
<1>1. faults \in 0..MaxFaults /\ interrupts \in 0..MaxInterrupts
  BY DEF SInv, TypeOK
<1>2. CASE Die(p)
  <2>1. /\ Alive(p) /\ pc[p] = "serve" /\ faults < MaxFaults /\ faults' = faults + 1
        /\ Exits(p) /\ client' = [client EXCEPT ![conn[p]] = "done"]
        /\ UNCHANGED <<backlog, interrupts>>
    BY <1>2 DEF Die, Running
  <2>2. conn[p] # None
    BY <2>1 DEF SInv, Pairs
  <2>3. faults' \in 0..MaxFaults /\ ~Calm'
    BY <1>1, <2>1, Bounds DEF Calm
  <2> QED
    BY <1>1, <2>1, <2>2, <2>3, EndKeeps DEF State
<1>3. CASE Interrupt(p)
  <2>1. /\ Alive(p) /\ interrupts < MaxInterrupts /\ interrupts' = interrupts + 1
        /\ Exits(p) /\ UNCHANGED <<backlog, faults>>
        /\ client' = IF conn[p] = None THEN client
                                       ELSE [client EXCEPT ![conn[p]] = "stranded"]
    BY <1>3 DEF Interrupt
  <2>2. interrupts' \in 0..MaxInterrupts /\ ~Calm'
    BY <1>1, <2>1, Bounds DEF Calm
  <2> QED
    BY <1>1, <2>1, <2>2, EndKeeps DEF State
<1> QED
  BY <1>2, <1>3

-----------------------------------------------------------------------------
(* The signal handler                                                      *)

LEMMA DeliverStep ==
  ASSUME SInv, NEW p \in Pid, Deliver(p)
  PROVE  SInv'
<1>1. /\ Alive(p) /\ pending[p]
      /\ pending' = [pending EXCEPT ![p] = FALSE] /\ handling' = [handling EXCEPT ![p] = TRUE]
      /\ UNCHANGED <<pc, parent, cur_clients, conn, backlog, client, faults, interrupts>>
  BY DEF Deliver, Running
<1>2. pending \in [Pid -> BOOLEAN] /\ handling \in [Pid -> BOOLEAN]
  BY DEF SInv, TypeOK
<1>3. \A q \in Pid : /\ pending'[q] = (q # p /\ pending[q])
                     /\ handling'[q] = (q = p \/ handling[q])
  BY <1>1, <1>2
<1>4. TypeOK'
  BY <1>1, <1>2 DEF SInv, TypeOK
<1>5. Family' /\ Queue' /\ Pairs' /\ Room'
  BY <1>1, <1>3 DEF SInv, Family, Queue, Pairs, Room, Alive
<1>6. Quiet'
  BY <1>1 DEF SInv, Quiet, Calm
<1>7. ZombiesAreNoticed'
  BY <1>1, <1>3 DEF SInv, ZombiesAreNoticed, Zombies, Children
<1> QED
  BY <1>4, <1>5, <1>6, <1>7 DEF SInv

LEMMA CountKeeps ==
  ASSUME SInv, NEW p \in Pid, handling[p], KillClient(p)
  PROVE  /\ cur_clients' \in [Pid -> -MaxSpins..(MAX_CLIENTS - 1)]
         /\ \A q \in Pid : cur_clients'[q] <= cur_clients[q]
         /\ ~Calm
<1>1. cur_clients \in [Pid -> -MaxSpins..(MAX_CLIENTS - 1)]
  BY DEF SInv, TypeOK
<1> DEFINE n == IF cur_clients[p] > -MaxSpins THEN cur_clients[p] - 1 ELSE cur_clients[p]
<1>2. cur_clients' = [cur_clients EXCEPT ![p] = n]
  BY DEF KillClient
<1>3. n \in -MaxSpins..(MAX_CLIENTS - 1) /\ n <= cur_clients[p]
  BY <1>1, Bounds
<1> HIDE DEF n
<1>4. ~Calm
  BY DEF SInv, Quiet
<1>5. \A q \in Pid : cur_clients'[q] = IF q = p THEN n ELSE cur_clients[q]
  BY <1>1, <1>2
<1>6. \A q \in Pid : cur_clients[q] \in Int
  BY <1>1, Bounds
<1> QED
  BY <1>1, <1>2, <1>3, <1>4, <1>5, <1>6

LEMMA SpinStep ==
  ASSUME SInv, NEW p \in Pid, Spin(p)
  PROVE  SInv'
<1>1. /\ handling[p] /\ KillClient(p)
      /\ UNCHANGED <<pc, parent, conn, pending, handling, backlog, client, faults, interrupts>>
  BY DEF Spin
<1>2. /\ cur_clients' \in [Pid -> -MaxSpins..(MAX_CLIENTS - 1)]
      /\ \A q \in Pid : cur_clients'[q] <= cur_clients[q]
      /\ ~Calm
  BY <1>1, CountKeeps
<1>3. TypeOK'
  BY <1>1, <1>2 DEF SInv, TypeOK
<1>4. Family' /\ Queue' /\ Pairs' /\ Quiet' /\ ZombiesAreNoticed'
  BY <1>1, <1>2 DEF SInv, Family, Queue, Pairs, Quiet, Calm, ZombiesAreNoticed, Zombies,
     Children, Alive
<1>5. Room'
  <2>1. \A q \in Pid : cur_clients[q] \in Int /\ cur_clients'[q] \in Int
    BY <1>2, Bounds DEF SInv, TypeOK
  <2> QED
    BY <1>1, <1>2, <2>1, Bounds DEF SInv, Room
<1> QED
  BY <1>3, <1>4, <1>5 DEF SInv

LEMMA ReapStep ==
  ASSUME SInv, NEW p \in Pid, Reap(p)
  PROVE  SInv'
<1>1. /\ handling[p] /\ KillClient(p)
      /\ UNCHANGED <<conn, pending, handling, backlog, client, faults, interrupts>>
  BY DEF Reap
<1>2. PICK z \in Zombies(p) : /\ pc' = [pc EXCEPT ![z] = "none"]
                             /\ parent' = [parent EXCEPT ![z] = None]
  BY DEF Reap
<1>3. z \in Pid /\ pc[z] = "zombie" /\ parent[z] = p
  BY <1>2 DEF Zombies, Children
<1>4. /\ cur_clients' \in [Pid -> -MaxSpins..(MAX_CLIENTS - 1)]
      /\ \A q \in Pid : cur_clients'[q] <= cur_clients[q]
      /\ ~Calm
  BY <1>1, CountKeeps
<1>5. pc \in [Pid -> PC] /\ parent \in [Pid -> Pid \cup {None}]
  BY DEF SInv, TypeOK, PC
<1>6. \A q \in Pid : /\ pc'[q] = IF q = z THEN "none" ELSE pc[q]
                     /\ parent'[q] = IF q = z THEN None ELSE parent[q]
  BY <1>2, <1>5
<1>7. TypeOK'
  <2>1. pc' \in [Pid -> PC] /\ parent' \in [Pid -> Pid \cup {None}]
    BY <1>2, <1>5 DEF PC
  <2> QED
    BY <1>1, <1>4, <2>1 DEF SInv, TypeOK, PC
<1>8. Family'
  <2>1. ASSUME NEW q \in Pid, parent'[q] # None
        PROVE  pc'[parent'[q]] \notin {"zombie", "none"} /\ parent'[q] # q
    <3>1. parent'[q] = parent[q] /\ parent[q] # None /\ parent[q] \in Pid
      BY <1>5, <1>6, <2>1
    <3>2. pc[parent[q]] \notin {"zombie", "none"} /\ parent[q] # q
      BY <3>1 DEF SInv, Family, Alive
    <3> QED
      BY <1>3, <1>6, <3>1, <3>2
  <2>2. \A q \in Pid : handling[q] \/ pending[q] => pc'[q] \notin {"zombie", "none"}
    BY <1>3, <1>6 DEF SInv, Family, Alive
  <2> QED
    BY <1>1, <2>1, <2>2 DEF Family, Alive
<1>9. Queue' /\ Quiet'
  BY <1>1, <1>4 DEF SInv, Queue, Quiet, Calm
<1>10. Pairs'
  BY <1>1, <1>3, <1>6 DEF SInv, Pairs
<1>11. Room'
  <2>1. \A q \in Pid : cur_clients[q] \in Int /\ cur_clients'[q] \in Int
    BY <1>4, Bounds DEF SInv, TypeOK
  <2>2. \A q \in Pid : pc'[q] \in {"accept", "fork"} => pc[q] \in {"accept", "fork"}
    BY <1>6
  <2> QED
    BY <1>4, <2>1, <2>2, Bounds DEF SInv, Room
<1>12. ZombiesAreNoticed'
  <2> SUFFICES ASSUME NEW q \in Pid, NEW y \in Pid, parent'[y] = q, pc'[y] = "zombie"
               PROVE  pending'[q] \/ handling'[q]
    BY DEF ZombiesAreNoticed, Zombies, Children
  <2>1. parent[y] = q /\ pc[y] = "zombie"
    BY <1>6
  <2> QED
    BY <1>1, <2>1 DEF SInv, ZombiesAreNoticed, Zombies, Children
<1> QED
  BY <1>7, <1>8, <1>9, <1>10, <1>11, <1>12 DEF SInv

LEMMA ReturnStep ==
  ASSUME SInv, NEW p \in Pid, Return(p)
  PROVE  SInv'
<1>1. /\ handling[p] /\ Children(p) = {}
      /\ UNCHANGED <<backlog, client, faults, interrupts>>
  BY DEF Return
<1>2. CASE pc[p] = "accept"
  <2>1. Exits(p)
    BY <1>2 DEF Return
  <2>2. Alive(p) /\ conn[p] = None
    BY <1>2 DEF SInv, Pairs, Alive
  <2>3. ~Calm'
    BY <1>1 DEF SInv, Quiet, Calm
  <2>4. faults' \in 0..MaxFaults /\ interrupts' \in 0..MaxInterrupts
    BY <1>1 DEF SInv, TypeOK
  <2> QED
    BY <1>1, <2>1, <2>2, <2>3, <2>4, EndKeeps DEF State
<1>3. CASE pc[p] # "accept"
  <2>1. handling' = [handling EXCEPT ![p] = FALSE]
        /\ UNCHANGED <<pc, parent, cur_clients, conn, pending>>
    BY <1>3 DEF Return
  <2>2. handling \in [Pid -> BOOLEAN]
    BY DEF SInv, TypeOK
  <2>3. \A q \in Pid : handling'[q] = (q # p /\ handling[q])
    BY <2>1, <2>2
  <2>4. TypeOK'
    BY <1>1, <2>1, <2>2 DEF SInv, TypeOK
  <2>5. Family' /\ Queue' /\ Pairs' /\ Room' /\ Quiet'
    BY <1>1, <2>1, <2>3 DEF SInv, Family, Queue, Pairs, Room, Quiet, Calm, Alive
  <2>6. ZombiesAreNoticed'
    BY <1>1, <2>1, <2>3 DEF SInv, ZombiesAreNoticed, Zombies, Children
  <2> QED
    BY <2>4, <2>5, <2>6 DEF SInv
<1> QED
  BY <1>2, <1>3

-----------------------------------------------------------------------------
(* The induction                                                           *)

LEMMA NextKeepsSInv == SInv /\ [Next]_vars => SInv'
<1> SUFFICES ASSUME SInv, [Next]_vars PROVE SInv'
  OBVIOUS
<1>1. ASSUME NEW p \in Pid, Step(p) \/ ForkFails(p) \/ HangUp(p) \/ Die(p) \/ Interrupt(p)
      PROVE  SInv'
  BY <1>1, ListenStep, AcceptStep, ForkStep, DeliverStep, ReapStep, SpinStep, ReturnStep,
     LetGoStep, DeathStep DEF Step
<1>2. CASE UNCHANGED vars
  <2>1. UNCHANGED <<pc, parent, cur_clients, conn, pending, handling, backlog, client,
                    faults, interrupts>>
    BY <1>2 DEF vars, processes
  <2>2. TypeOK' /\ Family' /\ Queue' /\ Pairs'
    BY <2>1 DEF SInv, TypeOK, Family, Queue, Pairs, Alive
  <2>3. Room' /\ Quiet' /\ ZombiesAreNoticed'
    BY <2>1 DEF SInv, Room, Quiet, Calm, ZombiesAreNoticed, Zombies, Children
  <2> QED
    BY <2>2, <2>3 DEF SInv
<1> QED
  BY <1>1, <1>2, ConnectStep DEF Next

(* SInv holds throughout. *)
THEOREM Inductive == Spec => []SInv
BY InitSInv, NextKeepsSInv, PTL DEF Spec

-----------------------------------------------------------------------------
(***************************************************************************)
(* Sums.  MapThenSumSet picks the elements in some order; what it adds up  *)
(* to depends neither on that order nor on the set it started with.        *)
(***************************************************************************)

Pick(s) == CHOOSE x \in s : TRUE

(* g adds up w over each of the sets in D, over each of the subsets of S. *)
AddsOn(g, w, D) ==
  g = [s \in D |-> IF s = {} THEN 0 ELSE w[Pick(s)] + g[s \ {Pick(s)}]]

Adds(g, w, S) == AddsOn(g, w, SUBSET S)

(* Of some subsets of a finite set, one has none of the others in it. *)
LEMMA Smallest ==
  ASSUME NEW S, IsFiniteSet(S), NEW B, B \subseteq SUBSET S, B # {}
  PROVE  \E s \in B : \A t \in SUBSET s : t # s => t \notin B
<1>1. IsWellFoundedOn(StrictSubsetOrdering(S), SUBSET S)
  BY FS_StrictSubsetOrderingWellFounded, FS_FiniteSubsetsOfFinite
<1>2. PICK s \in B : \A t \in B : <<t, s>> \notin StrictSubsetOrdering(S)
  BY <1>1, WFMin
<1>3. ASSUME NEW t \in SUBSET s, t # s, t \in B PROVE FALSE
  BY <1>2, <1>3 DEF StrictSubsetOrdering
<1> QED
  BY <1>3

(* A set of numbers has a least one. *)
LEMMA Least ==
  ASSUME NEW S, S \subseteq Nat, S # {}
  PROVE  \E m \in S : \A n \in S : ~ (n < m)
<1>1. PICK m \in S : \A n \in S : ~ (<<n, m>> \in OpToRel(<, Nat))
  BY NatLessThanWellFounded, WFMin
<1>2. ASSUME NEW n \in S PROVE ~ (n < m)
  BY <1>1 DEF OpToRel
<1> QED
  BY <1>2

(* What is picked is one of the elements. *)
LEMMA Picked == \A s : s # {} => Pick(s) \in s
BY DEF Pick

(* There is a way to add up. *)
LEMMA AddsExists ==
  ASSUME NEW S, IsFiniteSet(S), NEW w
  PROVE  \E g : Adds(g, w, S)
<1> DEFINE L(n) == {s \in SUBSET S : Cardinality(s) <= n}
           B == {n \in Nat : ~ \E g : AddsOn(g, w, L(n))}
<1>1. \A s \in SUBSET S : IsFiniteSet(s) /\ Cardinality(s) \in Nat
  BY FS_Subset, FS_CardinalityType
<1>2. \A s \in SUBSET S, n \in Nat :
        s \in L(n + 1) /\ s # {} => s \ {Pick(s)} \in L(n)
  <2> SUFFICES ASSUME NEW s \in SUBSET S, NEW n \in Nat, s \in L(n + 1), s # {}
               PROVE  s \ {Pick(s)} \in L(n)
    OBVIOUS
  <2>1. Cardinality(s \ {Pick(s)}) = Cardinality(s) - 1
    BY <1>1, Picked, FS_RemoveElement
  <2>2. Cardinality(s) <= n + 1 /\ Cardinality(s) \in Nat
    BY <1>1
  <2> QED
    BY <2>1, <2>2
<1>3. \E g : AddsOn(g, w, L(0))
  <2>1. \A s \in L(0) : s = {}
    BY <1>1, FS_EmptySet
  <2> DEFINE g == [s \in L(0) |-> 0]
  <2>2. AddsOn(g, w, L(0))
    BY <2>1 DEF AddsOn
  <2> QED
    BY <2>2
<1>4. ASSUME NEW n \in Nat, NEW f, AddsOn(f, w, L(n))
      PROVE  \E g : AddsOn(g, w, L(n + 1))
  <2> DEFINE g == [s \in L(n + 1) |-> IF s = {} THEN 0 ELSE w[Pick(s)] + f[s \ {Pick(s)}]]
  <2>1. L(n) \subseteq L(n + 1)
    BY <1>1
  <2>2. \A s \in L(n) : f[s] = g[s]
    BY <1>4, <2>1 DEF AddsOn
  <2>3. \A s \in L(n + 1) : s # {} => g[s \ {Pick(s)}] = f[s \ {Pick(s)}]
    BY <1>2, <2>2
  <2> HIDE DEF L
  <2>4. g = [s \in L(n + 1) |-> IF s = {} THEN 0 ELSE w[Pick(s)] + g[s \ {Pick(s)}]]
    BY <2>3
  <2> QED
    BY <2>4 DEF AddsOn
<1>5. B = {}
  <2> SUFFICES ASSUME B # {} PROVE FALSE
    OBVIOUS
  <2> HIDE DEF L
  <2>1. PICK m \in B : \A n \in B : ~ (n < m)
    BY Least
  <2>2. m \in Nat /\ m # 0
    BY <1>3
  <2>3. m - 1 \in Nat /\ m - 1 \notin B
    BY <2>1, <2>2
  <2>4. PICK f : AddsOn(f, w, L(m - 1))
    BY <2>3
  <2>5. \E g : AddsOn(g, w, L((m - 1) + 1))
    BY <1>4, <2>3, <2>4
  <2>6. (m - 1) + 1 = m
    BY <2>2
  <2> QED
    BY <2>1, <2>5, <2>6
<1>6. Cardinality(S) \in Nat
  BY FS_CardinalityType
<1>7. L(Cardinality(S)) = SUBSET S
  BY FS_Subset
<1> QED
  BY <1>5, <1>6, <1>7 DEF Adds

(* What is added up over a set: what one picks, and the rest. *)
LEMMA AddsFacts ==
  ASSUME NEW g, NEW w, NEW S, Adds(g, w, S)
  PROVE  /\ g[{}] = 0
         /\ \A s \in SUBSET S : s # {} => /\ s \ {Pick(s)} \in SUBSET S
                                          /\ s \ {Pick(s)} # s
                                          /\ g[s] = w[Pick(s)] + g[s \ {Pick(s)}]
BY Picked DEF Adds, AddsOn

(* The same, of what is not empty. *)
LEMMA AddsStep ==
  ASSUME NEW g, NEW w, NEW S, Adds(g, w, S)
  PROVE  \A s \in SUBSET S : s # {} => g[s] = w[Pick(s)] + g[s \ {Pick(s)}]
BY AddsFacts

(* The sum over a set depends on what is added over that set. *)
LEMMA AddsSame ==
  ASSUME NEW g, NEW w, NEW S, IsFiniteSet(S), Adds(g, w, S),
         NEW h, NEW v, NEW T, Adds(h, v, T)
  PROVE  \A r \in SUBSET S :
           r \in SUBSET T /\ (\A x \in r : w[x] = v[x]) => g[r] = h[r]
<1>1. \A s \in SUBSET S : s # {} => g[s] = w[Pick(s)] + g[s \ {Pick(s)}]
  BY AddsStep
<1>2. \A s \in SUBSET T : s # {} => h[s] = v[Pick(s)] + h[s \ {Pick(s)}]
  BY AddsStep
<1> SUFFICES ASSUME NEW r \in SUBSET S, r \in SUBSET T, \A x \in r : w[x] = v[x]
             PROVE  g[r] = h[r]
  OBVIOUS
<1> DEFINE B == {s \in SUBSET r : g[s] # h[s]}
<1> SUFFICES ASSUME B # {} PROVE FALSE
  OBVIOUS
<1>3. IsFiniteSet(r) /\ B \subseteq SUBSET r
  BY FS_Subset
<1>4. PICK s \in B : \A t \in SUBSET s : t # s => t \notin B
  <2> HIDE DEF B
  <2> QED
    BY <1>3, Smallest
<1>5. s # {}
  <2>1. g[{}] = 0 /\ h[{}] = 0
    BY AddsFacts
  <2> QED
    BY <2>1
<1>6. Pick(s) \in s /\ s \in SUBSET S /\ s \in SUBSET T
  BY <1>5, Picked
<1>7. g[s] = w[Pick(s)] + g[s \ {Pick(s)}] /\ h[s] = v[Pick(s)] + h[s \ {Pick(s)}]
  BY <1>1, <1>2, <1>5, <1>6
<1>8. g[s \ {Pick(s)}] = h[s \ {Pick(s)}]
  <2>1. s \ {Pick(s)} # s /\ s \ {Pick(s)} \in SUBSET s
    BY <1>6
  <2>2. s \ {Pick(s)} \notin B
    BY <1>4, <2>1
  <2> QED
    BY <2>2
<1> QED
  BY <1>6, <1>7, <1>8

(* An element may be taken out first. *)
LEMMA AddsAny ==
  ASSUME NEW S, IsFiniteSet(S), NEW w, \A x \in S : w[x] \in Nat,
         NEW g, Adds(g, w, S)
  PROVE  \A s \in SUBSET S : g[s] \in Nat /\ \A x \in s : g[s] = w[x] + g[s \ {x}]
<1> DEFINE B == {s \in SUBSET S : ~ (g[s] \in Nat /\ \A x \in s : g[s] = w[x] + g[s \ {x}])}
<1> SUFFICES ASSUME B # {} PROVE FALSE
  OBVIOUS
<1> B \subseteq SUBSET S
  OBVIOUS
<1>1. PICK s \in B : \A t \in SUBSET s : t # s => t \notin B
  <2> HIDE DEF B
  <2> QED
    BY Smallest
<1>2. s # {}
  <2> SUFFICES ASSUME s = {} PROVE FALSE
    OBVIOUS
  <2>1. g[s] = 0 /\ \A x \in s : FALSE
    BY AddsFacts
  <2>2. g[s] \in Nat /\ \A x \in s : g[s] = w[x] + g[s \ {x}]
    BY <2>1
  <2> QED
    BY <2>2
<1> DEFINE y == Pick(s)
<1>3. y \in s /\ g[s] = w[y] + g[s \ {y}]
  <2>1. s \in SUBSET S
    OBVIOUS
  <2> QED
    BY <1>2, <2>1, AddsFacts, Picked
<1>4. \A x \in s : /\ g[s \ {x}] \in Nat
                   /\ \A z \in s \ {x} : g[s \ {x}] = w[z] + g[(s \ {x}) \ {z}]
  <2> SUFFICES ASSUME NEW x \in s PROVE s \ {x} \in SUBSET S /\ s \ {x} \notin B
    OBVIOUS
  <2>1. s \ {x} # s /\ s \ {x} \in SUBSET s
    OBVIOUS
  <2> QED
    BY <1>1, <2>1
<1> HIDE DEF y
<1>5. ASSUME NEW x \in s PROVE g[s] = w[x] + g[s \ {x}]
  <2>1. CASE x = y
    BY <1>3, <2>1
  <2>2. CASE x # y
    <3>1. g[s \ {y}] = w[x] + g[(s \ {y}) \ {x}]
      BY <1>3, <1>4, <2>2
    <3>2. g[s \ {x}] = w[y] + g[(s \ {x}) \ {y}]
      BY <1>3, <1>4, <2>2
    <3>3. (s \ {y}) \ {x} = (s \ {x}) \ {y}
      OBVIOUS
    <3>4. g[s] = w[y] + (w[x] + g[(s \ {x}) \ {y}])
      BY <1>3, <3>1, <3>3
    <3>5. (s \ {x}) \ {y} \in SUBSET S /\ (s \ {x}) \ {y} # s
      BY <1>3
    <3>6. g[(s \ {x}) \ {y}] \in Nat
      <4>1. (s \ {x}) \ {y} \notin B
        BY <1>1, <3>5
      <4> QED
        BY <3>5, <4>1
    <3>7. w[x] \in Nat /\ w[y] \in Nat
      BY <1>3
    <3> QED
      BY <3>2, <3>4, <3>6, <3>7
  <2> QED
    BY <2>1, <2>2
<1>6. g[s] \in Nat
  <2>1. w[y] \in Nat /\ g[s \ {y}] \in Nat
    BY <1>3, <1>4
  <2> HIDE DEF B
  <2> QED
    BY <1>3, <2>1
<1> QED
  BY <1>1, <1>5, <1>6

(* What MapThenSumSet adds up. *)
Shares == [p \in Pid |-> Share(p)]

SumsAreFound ==
  \A S \in SUBSET Pid :
    \E g : Adds(g, Shares, S) /\ MapThenSumSet(Share, S) = g[S]

LEMMA SumIs == SumsAreFound
<1> SUFFICES ASSUME NEW S \in SUBSET Pid
             PROVE  \E g : Adds(g, Shares, S) /\ MapThenSumSet(Share, S) = g[S]
  BY DEF SumsAreFound
<1> DEFINE P(f) == f = [s \in SUBSET S |->
                      IF s = {} THEN 0 ELSE Share(Pick(s)) + f[s \ {Pick(s)}]]
           c == CHOOSE f : P(f)
<1>1. MapThenSumSet(Share, S) = c[S]
  BY DEF MapThenSumSet, MapThenFoldSet, Pick
<1>2. \A f : P(f) <=> Adds(f, Shares, S)
  <2> SUFFICES ASSUME NEW f
               PROVE  [s \in SUBSET S |-> IF s = {} THEN 0 ELSE Share(Pick(s)) + f[s \ {Pick(s)}]]
                      = [s \in SUBSET S |-> IF s = {} THEN 0 ELSE Shares[Pick(s)] + f[s \ {Pick(s)}]]
    BY DEF Adds, AddsOn
  <2>1. \A s \in SUBSET S : s # {} => Shares[Pick(s)] = Share(Pick(s))
    BY Picked DEF Shares
  <2> QED
    BY <2>1
<1>3. \E f : P(f)
  BY <1>2, AddsExists, ProcessAssumption, FS_Subset
<1> HIDE DEF P
<1>4. P(c)
  BY <1>3
<1> QED
  BY <1>1, <1>2, <1>4

(* And after a step. *)
LEMMA SumIsThen == SumsAreFound'
BY SumIs, PTL

-----------------------------------------------------------------------------
(* The shares of the processes                                            *)

(* A set with one more element has twice the subsets. *)
LEMMA Powers ==
  ASSUME NEW n \in Nat
  PROVE  2^n \in Nat /\ 2^n >= 1 /\ 2^(n + 1) = 2^n + 2^n
<1> DEFINE S == 1..n
           m == n + 1
           With == {s \cup {m} : s \in SUBSET S}
           f == [s \in SUBSET S |-> s \cup {m}]
<1>1. IsFiniteSet(S) /\ Cardinality(S) = n
  BY FS_Interval
<1>2. m \notin S /\ IsFiniteSet(S \cup {m}) /\ Cardinality(S \cup {m}) = n + 1
  <2>1. m \notin S
    OBVIOUS
  <2> HIDE DEF S, m
  <2> QED
    BY <1>1, <2>1, FS_AddElement
<1> HIDE DEF S, m
<1>3. /\ IsFiniteSet(SUBSET S) /\ Cardinality(SUBSET S) = 2^n
      /\ Cardinality(SUBSET (S \cup {m})) = 2^(n + 1)
  BY <1>1, <1>2, FS_SUBSET
<1>4. SUBSET (S \cup {m}) = (SUBSET S) \cup With
  <2>1. ASSUME NEW t \in SUBSET (S \cup {m}), m \in t PROVE t \in With
    <3>1. t = (t \ {m}) \cup {m} /\ t \ {m} \in SUBSET S
      BY <2>1
    <3> QED
      BY <3>1
  <2>2. \A t \in SUBSET (S \cup {m}) : m \notin t => t \in SUBSET S
    OBVIOUS
  <2>3. With \subseteq SUBSET (S \cup {m})
    OBVIOUS
  <2> HIDE DEF With
  <2> QED
    BY <2>1, <2>2, <2>3
<1>5. (SUBSET S) \cap With = {}
  BY <1>2
<1>6. f \in Bijection(SUBSET S, With)
  <2>1. f \in [SUBSET S -> With] /\ \A t \in With : \E s \in SUBSET S : f[s] = t
    OBVIOUS
  <2>2. \A s, t \in SUBSET S : f[s] = f[t] => s = t
    <3> SUFFICES ASSUME NEW s \in SUBSET S, NEW t \in SUBSET S, s \cup {m} = t \cup {m}
                 PROVE  s = t
      OBVIOUS
    <3>1. m \notin s /\ m \notin t
      BY <1>2
    <3> QED
      BY <3>1
  <2> HIDE DEF f, With
  <2> QED
    BY <2>1, <2>2 DEF Bijection, Injection, IsInjective, Surjection
<1> HIDE DEF f, With
<1>7. IsFiniteSet(With) /\ Cardinality(With) = 2^n
  BY <1>3, <1>6, FS_Bijection DEF ExistsBijection
<1>8. 2^n \in Nat /\ 2^n # 0
  <2>1. SUBSET S # {}
    OBVIOUS
  <2> QED
    BY <1>3, <2>1, FS_CardinalityType, FS_EmptySet
<1>9. Cardinality((SUBSET S) \cup With) = 2^n + 2^n
  <2>1. Cardinality((SUBSET S) \cap With) = 0
    BY <1>5, FS_EmptySet
  <2>2. Cardinality((SUBSET S) \cup With)
          = Cardinality(SUBSET S) + Cardinality(With) - Cardinality((SUBSET S) \cap With)
    BY <1>3, <1>7, FS_Union
  <2> QED
    BY <1>3, <1>7, <1>8, <2>1, <2>2
<1>10. \A a \in Nat : a # 0 => a >= 1
  OBVIOUS
<1>11. 2^n >= 1
  BY <1>8, <1>10
<1>12. 2^(n + 1) = 2^n + 2^n
  BY <1>3, <1>4, <1>9
<1> QED
  BY <1>8, <1>11, <1>12

(* The sum of the invariant. *)
SharesAdded == MapThenSumSet(Share, {p \in Pid : Alive(p)})

(* What is alone is the sum. *)
LEMMA AddsOne ==
  ASSUME NEW S, NEW x \in S, \A y \in S : y = x,
         NEW g, NEW w, Adds(g, w, S), w[x] \in Nat
  PROVE  g[S] = w[x]
<1>1. g[{}] = 0
  BY AddsFacts
<1>2. \A s \in SUBSET S : s # {} => g[s] = w[Pick(s)] + g[s \ {Pick(s)}]
  BY AddsFacts
<1>3. S # {} /\ S \in SUBSET S /\ Pick(S) = x
  BY Picked
<1>4. S \ {x} = {}
  OBVIOUS
<1>5. g[S] = w[x] + 0
  BY <1>1, <1>2, <1>3, <1>4
<1> QED
  BY <1>5

(* The first process has all there is. *)
LEMMA InitShares == Init => SharesAreConserved
<1> SUFFICES ASSUME Init PROVE SharesAdded = 2^(MAX_CLIENTS - 1)
  BY DEF SharesAreConserved, SharesAdded
<1>1. PICK A \in SUBSET Pid : A = {p \in Pid : Alive(p)} /\ A = {Main}
  BY ProcessAssumption DEF Init, Alive
<1>2. PICK g, w : w = Shares /\ Adds(g, w, A) /\ SharesAdded = g[A]
  BY <1>1, SumIs DEF SharesAdded, SumsAreFound
<1>3. Shares[Main] = 2^(MAX_CLIENTS - 1)
  <2>1. cur_clients[Main] = 0 /\ Main \in Pid
    BY ProcessAssumption DEF Init
  <2>2. MAX_CLIENTS - 1 - 0 = MAX_CLIENTS - 1
    BY Bounds
  <2> QED
    BY <2>1, <2>2 DEF Shares, Share
<1>4. 2^(MAX_CLIENTS - 1) \in Nat
  BY Bounds, Powers
<1>5. Main \in A /\ \A p \in A : p = Main
  BY <1>1
<1>6. w[Main] \in Nat
  BY <1>2, <1>3, <1>4
<1>7. g[A] = w[Main]
  BY <1>2, <1>5, <1>6, AddsOne
<1> QED
  BY <1>2, <1>3, <1>7

(* Shares are numbers. *)
LEMMA SharesAreNumbers ==
  SInv => \A p \in Pid : Shares[p] \in Nat /\ Shares[p] >= 1
<1> SUFFICES ASSUME SInv, NEW p \in Pid PROVE Shares[p] \in Nat /\ Shares[p] >= 1
  OBVIOUS
<1>1. cur_clients[p] \in -MaxSpins..(MAX_CLIENTS - 1)
  BY DEF SInv, TypeOK
<1>2. MAX_CLIENTS - 1 - cur_clients[p] \in Nat
  BY <1>1, Bounds
<1> QED
  BY <1>2, Powers DEF Shares, Share

(* And after a step. *)
LEMMA SharesAreNumbersThen ==
  SInv' => \A p \in Pid : Shares'[p] \in Nat
<1>1. SInv' => (\A p \in Pid : Shares[p] \in Nat /\ Shares[p] >= 1)'
  BY SharesAreNumbers, PTL
<1> QED
  BY <1>1

(* Two ways to add up the same come to the same. *)
LEMMA SumUnchanged ==
  ASSUME NEW A, IsFiniteSet(A), NEW w,
         NEW g, Adds(g, w, A), NEW h, Adds(h, w, A)
  PROVE  g[A] = h[A]
<1>1. A \in SUBSET A /\ \A x \in A : w[x] = w[x]
  OBVIOUS
<1> QED
  BY <1>1, AddsSame

(* Whatever leaves the living and their counts alone leaves the sum alone. *)
LEMMA SumSame ==
  ASSUME UNCHANGED cur_clients, \A p \in Pid : Alive(p)' <=> Alive(p)
  PROVE  SharesAdded' = SharesAdded
<1>1. PICK A \in SUBSET Pid : A = {p \in Pid : Alive(p)} /\ A = {p \in Pid : Alive(p)'}
  OBVIOUS
<1>2. PICK g, w : w = Shares /\ Adds(g, w, A) /\ SharesAdded = g[A]
  BY <1>1, SumIs DEF SharesAdded, SumsAreFound
<1>3. Shares' = Shares
  BY DEF Shares, Share
<1>4. SumsAreFound'
  BY SumIsThen
<1>5. PICK h, v : v = Shares' /\ Adds(h, v, A) /\ SharesAdded' = h[A]
  BY <1>1, <1>4 DEF SumsAreFound, SharesAdded, Adds
<1>6. IsFiniteSet(A)
  BY ProcessAssumption, FS_Subset
<1>7. g[A] = h[A]
  <2>1. Adds(g, w, A) /\ Adds(h, w, A)
    BY <1>2, <1>3, <1>5
  <2> QED
    BY <1>6, <2>1, SumUnchanged
<1> QED
  BY <1>2, <1>5, <1>7

(* Of shares of at least one each there are no more than their sum. *)
LEMMA AddsCount ==
  ASSUME NEW S, IsFiniteSet(S), NEW w, \A x \in S : w[x] \in Nat /\ w[x] >= 1,
         NEW g, Adds(g, w, S)
  PROVE  Cardinality(S) <= g[S]
<1>1. \A s \in SUBSET S : g[s] \in Nat /\ \A x \in s : g[s] = w[x] + g[s \ {x}]
  BY AddsAny
<1>2. \A s \in SUBSET S : IsFiniteSet(s) /\ Cardinality(s) \in Nat
  BY FS_Subset, FS_CardinalityType
<1> DEFINE B == {s \in SUBSET S : ~ (Cardinality(s) <= g[s])}
<1>3. B = {}
  <2> SUFFICES ASSUME B # {} PROVE FALSE
    OBVIOUS
  <2>1. B \subseteq SUBSET S
    OBVIOUS
  <2>2. PICK s \in B : \A t \in SUBSET s : t # s => t \notin B
    <3> HIDE DEF B
    <3> QED
      BY <2>1, Smallest
  <2>3. s # {}
    <3>1. g[{}] \in Nat /\ Cardinality({}) = 0
      BY <1>1, FS_EmptySet
    <3>2. Cardinality({}) <= g[{}]
      BY <3>1
    <3> QED
      BY <3>2
  <2>4. PICK x : x \in s
    BY <2>3
  <2>5. s \ {x} \in SUBSET S /\ s \ {x} \notin B
    BY <2>2, <2>4
  <2>6. Cardinality(s \ {x}) <= g[s \ {x}]
    BY <2>5
  <2>7. Cardinality(s \ {x}) = Cardinality(s) - 1
    BY <1>2, <2>4, FS_RemoveElement
  <2>8. g[s] = w[x] + g[s \ {x}] /\ w[x] \in Nat /\ w[x] >= 1 /\ g[s \ {x}] \in Nat
    BY <1>1, <2>4, <2>5
  <2>9. Cardinality(s) \in Nat /\ ~ (Cardinality(s) <= g[s])
    BY <1>2
  <2> HIDE DEF B
  <2> QED
    BY <2>6, <2>7, <2>8, <2>9
<1> QED
  BY <1>3

(* One share becomes two halves, and the sum stays. *)
LEMMA AddsHalves ==
  ASSUME NEW A, IsFiniteSet(A), NEW w, \A x \in A : w[x] \in Nat, NEW g, Adds(g, w, A),
         NEW B, IsFiniteSet(B), NEW v, \A x \in B : v[x] \in Nat, NEW h, Adds(h, v, B)
  PROVE  \A p \in A, q \in B :
           /\ p \in B /\ q \notin A /\ A \ {p} = (B \ {q}) \ {p}
           /\ \A x \in A \ {p} : v[x] = w[x]
           /\ v[q] = v[p] /\ w[p] = v[p] + v[p]
           => h[B] = g[A]
<1>1. \A s \in SUBSET A : g[s] \in Nat /\ \A x \in s : g[s] = w[x] + g[s \ {x}]
  BY AddsAny
<1>2. \A s \in SUBSET B : h[s] \in Nat /\ \A x \in s : h[s] = v[x] + h[s \ {x}]
  BY AddsAny
<1>3. \A s \in SUBSET A : s \in SUBSET B /\ (\A x \in s : w[x] = v[x]) => g[s] = h[s]
  BY AddsSame
<1> SUFFICES ASSUME NEW p \in A, NEW q \in B, p \in B, q \notin A,
                    A \ {p} = (B \ {q}) \ {p}, \A x \in A \ {p} : v[x] = w[x],
                    v[q] = v[p], w[p] = v[p] + v[p]
             PROVE  h[B] = g[A]
  OBVIOUS
<1> DEFINE r == A \ {p}
<1>4. g[A] = w[p] + g[r] /\ g[r] \in Nat
  BY <1>1
<1>5. h[B] = v[q] + h[B \ {q}]
  BY <1>2
<1>6. h[B \ {q}] = v[p] + h[r]
  BY <1>2
<1>7. h[r] = g[r]
  <2>1. r \in SUBSET A /\ r \in SUBSET B
    OBVIOUS
  <2> QED
    BY <1>3, <2>1
<1>8. v[p] \in Nat
  OBVIOUS
<1> HIDE DEF r
<1> QED
  BY <1>4, <1>5, <1>6, <1>7, <1>8

(* A fork: parent and child have half of the parent's share each. *)
LEMMA ForkKeepsSum ==
  ASSUME SInv, SInv', NEW p \in Pid, NEW k \in Pid, Fork(p, k)
  PROVE  SharesAdded' = SharesAdded
<1> DEFINE n == cur_clients[p]
<1>1. /\ pc[p] = "fork" /\ pc[k] = "none" /\ p # k
      /\ pc' = [pc EXCEPT ![p] = "loop", ![k] = "serve"]
      /\ cur_clients' = [cur_clients EXCEPT ![p] = n + 1, ![k] = n + 1]
  BY DEF Fork
<1>2. pc \in [Pid -> PC] /\ cur_clients \in [Pid -> -MaxSpins..(MAX_CLIENTS - 1)]
  BY DEF SInv, TypeOK, PC
<1>3. \A q \in Pid :
        /\ pc'[q] = IF q = k THEN "serve" ELSE IF q = p THEN "loop" ELSE pc[q]
        /\ cur_clients'[q] = IF q \in {p, k} THEN n + 1 ELSE cur_clients[q]
  BY <1>1, <1>2
<1>4. PICK A \in SUBSET Pid : A = {q \in Pid : Alive(q)}
  OBVIOUS
<1>5. PICK B \in SUBSET Pid : B = {q \in Pid : Alive(q)'}
  OBVIOUS
<1>6. /\ p \in A /\ p \in B /\ k \in B /\ k \notin A /\ A \ {p} = (B \ {k}) \ {p}
  <2>1. \A q \in Pid : q # p /\ q # k => (Alive(q)' <=> Alive(q))
    BY <1>3 DEF Alive
  <2>2. Alive(p) /\ Alive(p)' /\ Alive(k)' /\ ~Alive(k)
    <3>1. pc'[p] = "loop" /\ pc'[k] = "serve"
      BY <1>1, <1>3
    <3> QED
      BY <1>1, <3>1 DEF Alive
  <2> QED
    BY <1>1, <1>4, <1>5, <2>1, <2>2
<1>7. IsFiniteSet(A) /\ IsFiniteSet(B)
  BY ProcessAssumption, FS_Subset
<1>8. PICK g, w : w = Shares /\ Adds(g, w, A) /\ SharesAdded = g[A]
  BY <1>4, SumIs DEF SharesAdded, SumsAreFound
<1>9. PICK h, v : v = Shares' /\ Adds(h, v, B) /\ SharesAdded' = h[B]
  BY <1>5, SumIsThen DEF SharesAdded, SumsAreFound
<1>10. (\A q \in Pid : w[q] \in Nat) /\ (\A q \in Pid : v[q] \in Nat)
  <2>1. \A q \in Pid : Shares[q] \in Nat
    BY SharesAreNumbers
  <2>2. \A q \in Pid : Shares'[q] \in Nat
    BY SharesAreNumbersThen
  <2> QED
    BY <1>8, <1>9, <2>1, <2>2
<1>11. \A q \in Pid : /\ w[q] = 2^(MAX_CLIENTS - 1 - cur_clients[q])
                      /\ v[q] = 2^(MAX_CLIENTS - 1 - cur_clients'[q])
  BY <1>8, <1>9 DEF Shares, Share
<1>12. (\A q \in A \ {p} : v[q] = w[q]) /\ v[k] = v[p]
  BY <1>3, <1>6, <1>11
<1>13. w[p] = v[p] + v[p]
  <2> DEFINE m == MAX_CLIENTS - 1 - (n + 1)
  <2>1. m \in Nat /\ m + 1 = MAX_CLIENTS - 1 - n
    <3>1. n \in Int /\ n + 1 < MAX_CLIENTS
      BY <1>1, <1>2, Bounds DEF SInv, Room
    <3> QED
      BY <3>1, Bounds
  <2>2. v[p] = 2^m /\ w[p] = 2^(m + 1)
    BY <1>3, <1>11, <2>1
  <2> HIDE DEF m
  <2> QED
    BY <2>1, <2>2, Powers
<1> QED
  <2>1. h[B] = g[A]
    BY <1>6, <1>7, <1>8, <1>9, <1>10, <1>12, <1>13, AddsHalves
  <2> QED
    BY <1>8, <1>9, <2>1

(* While nothing fails, the rest of the steps leave the processes and      *)
(* their counts alone.                                                     *)
LEMMA SharesStay == SInv /\ SInv' /\ SharesAreConserved /\ [Next]_vars => SharesAreConserved'
<1> SUFFICES ASSUME SInv, SInv', SharesAreConserved, [Next]_vars, Calm'
             PROVE  SharesAdded' = 2^(MAX_CLIENTS - 1)
  BY DEF SharesAreConserved, SharesAdded
<1>1. faults \in Nat /\ interrupts \in Nat
  BY DEF SInv, TypeOK
<1>2. ASSUME NEW p \in Pid PROVE ~ForkFails(p) /\ ~Die(p) /\ ~Interrupt(p)
  BY <1>1 DEF ForkFails, Die, Interrupt, Calm
<1>3. Calm
  <2>1. CASE UNCHANGED vars
    BY <2>1 DEF vars, Calm
  <2>2. CASE Next
    BY <1>2, <2>2 DEF Next, Step, Connect, Listen, Accept, Fork, Deliver, Reap, Spin, Return,
       HangUp, Calm
  <2> QED
    BY <2>1, <2>2
<1>4. SharesAdded = 2^(MAX_CLIENTS - 1)
  BY <1>3 DEF SharesAreConserved, SharesAdded
<1>5. ASSUME NEW p \in Pid PROVE ~Deliver(p) /\ ~Reap(p) /\ ~Spin(p) /\ ~Return(p)
  BY <1>3 DEF SInv, Quiet, Deliver, Reap, Spin, Return
<1>6. CASE \E p, q \in Pid : Fork(p, q)
  BY <1>4, <1>6, ForkKeepsSum
<1>7. CASE UNCHANGED cur_clients /\ \A q \in Pid : Alive(q)' <=> Alive(q)
  BY <1>4, <1>7, SumSame
<1>8. CASE UNCHANGED vars
  BY <1>7, <1>8 DEF vars, processes, Alive
<1>9. ASSUME NEW c \in Client, Connect(c) PROVE SharesAdded' = 2^(MAX_CLIENTS - 1)
  BY <1>7, <1>9 DEF Connect, processes, Alive
<1>10. ASSUME NEW p \in Pid, Listen(p) \/ Accept(p) \/ HangUp(p)
       PROVE  SharesAdded' = 2^(MAX_CLIENTS - 1)
  <2>1. /\ UNCHANGED cur_clients /\ Alive(p)
        /\ \E s \in {"loop", "accept", "fork"} : pc' = [pc EXCEPT ![p] = s]
    BY <1>10 DEF Listen, Accept, HangUp, Running
  <2>2. pc \in [Pid -> PC]
    BY DEF SInv, TypeOK, PC
  <2>3. \A q \in Pid : Alive(q)' <=> Alive(q)
    BY <2>1, <2>2 DEF Alive
  <2> QED
    BY <1>7, <2>1, <2>3
<1> QED
  BY <1>2, <1>5, <1>6, <1>8, <1>9, <1>10 DEF Next, Step

-----------------------------------------------------------------------------
(* Theorems                                                                *)

(* Types: the table of clients of a process is never written past its end. *)
THEOREM TypeCorrect == Spec => []TypeOK
<1>1. SInv => TypeOK
  BY DEF SInv
<1> QED
  BY <1>1, Inductive, PTL

(* Every client that was accepted is some one process's, through every     *)
(* fork, death and signal.                                                 *)
THEOREM ClientsHaveOneServer == Spec => []OneServerPerClient
<1>1. SInv => OneServerPerClient
  <2> SUFFICES ASSUME SInv PROVE OneServerPerClient
    OBVIOUS
  <2>1. ASSUME NEW c \in Client, client[c] = "served"
        PROVE  Cardinality({p \in Pid : conn[p] = c}) = 1
    <3>1. PICK p \in Pid : conn[p] = c
      BY <2>1 DEF SInv, Pairs
    <3>2. {q \in Pid : conn[q] = c} = {p}
      BY <3>1, Bounds DEF SInv, Pairs
    <3> QED
      BY <3>2, FS_Singleton
  <2>2. \A p \in Pid : conn[p] # None =>
          pc[p] \in {"fork", "serve"} /\ client[conn[p]] = "served"
    BY DEF SInv, Pairs
  <2> QED
    BY <2>1, <2>2 DEF OneServerPerClient
<1> QED
  BY <1>1, Inductive, PTL

(* As long as nothing fails, a process writes inside its table of clients. *)
THEOREM SlotsStayInTable == Spec => []SlotsInTable
<1>1. SInv => SlotsInTable
  <2> SUFFICES ASSUME SInv, Calm, NEW p \in Pid, pc[p] \in {"accept", "fork"}
               PROVE  cur_clients[p] + 1 \in 0..(MAX_CLIENTS - 1)
    BY DEF SlotsInTable
  <2>1. cur_clients[p] \in Int
    BY Bounds DEF SInv, TypeOK
  <2>2. cur_clients[p] >= 0 /\ cur_clients[p] + 1 < MAX_CLIENTS
    BY DEF SInv, Quiet, Room
  <2> QED
    BY <2>1, <2>2, Bounds
<1> QED
  BY <1>1, Inductive, PTL

(* A child that ended is reaped or going to be, however many end at once.  *)
THEOREM ZombiesAreKnown == Spec => []ZombiesAreNoticed
<1>1. SInv => ZombiesAreNoticed
  BY DEF SInv
<1> QED
  BY <1>1, Inductive, PTL

(* As long as nothing fails, a fork divides what one process may still     *)
(* start between parent and child, and nothing else changes it.            *)
THEOREM SharesAreKept == Spec => []SharesAreConserved
BY Inductive, InitShares, SharesStay, PTL DEF Spec

(* So there are at most 2^(MAX_CLIENTS - 1) processes, and not MAX_CLIENTS *)
(* of them, as long as nothing fails.                                      *)
ProcessesAreBounded ==
  Calm => Cardinality({p \in Pid : Alive(p)}) <= 2^(MAX_CLIENTS - 1)

THEOREM SharesBoundProcesses == Spec => []ProcessesAreBounded
<1>1. SInv /\ SharesAreConserved => ProcessesAreBounded
  <2> SUFFICES ASSUME SInv, SharesAreConserved, Calm
               PROVE  Cardinality({p \in Pid : Alive(p)}) <= 2^(MAX_CLIENTS - 1)
    BY DEF ProcessesAreBounded
  <2>1. PICK A \in SUBSET Pid : A = {p \in Pid : Alive(p)}
    OBVIOUS
  <2>2. PICK g, w : w = Shares /\ Adds(g, w, A) /\ SharesAdded = g[A]
    BY <2>1, SumIs DEF SharesAdded, SumsAreFound
  <2>3. IsFiniteSet(A) /\ \A p \in A : w[p] \in Nat /\ w[p] >= 1
    BY <2>2, ProcessAssumption, FS_Subset, SharesAreNumbers
  <2>4. Cardinality(A) <= g[A]
    BY <2>2, <2>3, AddsCount
  <2>5. SharesAdded = 2^(MAX_CLIENTS - 1)
    BY DEF SharesAreConserved, SharesAdded
  <2> QED
    BY <2>1, <2>2, <2>4, <2>5
<1> QED
  BY <1>1, Inductive, SharesAreKept, PTL

=============================================================================
