---------------------------- MODULE ListenProofs ----------------------------
(***************************************************************************)
(* Proofs about Listen, for any number of clients, processes and deaths,   *)
(* over the three transports: types, that nobody shares a connection, and  *)
(* that nobody is given another one's answer but by a rival.               *)
(***************************************************************************)
EXTENDS Listen, FiniteSetTheorems, WellFoundedInduction, TLAPS

RootBorn == spc[Root] # "unborn"

Steps == {"unborn", "accept", "written", "offered", "received", "reading",
          "naming", "linking", "accepted", "serve", "dead"}

(* A set of numbers has a least one. *)
LEMMA Least ==
  ASSUME NEW S, S \subseteq Nat, S # {}
  PROVE  \E m \in S : \A n \in S : m <= n
<1>1. PICK m \in S : \A n \in S : ~ (<<n, m>> \in OpToRel(<, Nat))
  BY NatLessThanWellFounded, WFMin
<1>2. ASSUME NEW n \in S PROVE m <= n
  <2>1. ~ (n < m)
    BY <1>1 DEF OpToRel
  <2> QED
    BY <2>1
<1> QED
  BY <1>2

LEMMA RootIsProc == Root \in Proc /\ Proc \subseteq Nat
BY FamilyAssumption DEF Root, Proc

LEMMA LinkIs ==
  /\ backend = "shmem" => Link = {None} \cup Nat
  /\ backend = "queue" => Link = {None} \cup Client
  /\ backend = "fifo" => Link = {None} \cup (Client \X Nat)
BY DEF Link

(* fork_client makes one process of those that are not born. *)
LEMMA ForkFacts ==
  ASSUME NEW p \in Proc, Fork(p)
  PROVE  /\ spc[p] = "accepted" /\ ~pending[p]
         /\ \E q \in Proc :
              /\ spc[q] = "unborn"
              /\ spc' = [spc EXCEPT ![p] = "accept", ![q] = "serve"]
              /\ conn' = [conn EXCEPT ![q] = conn[p]]
              /\ next' = [next EXCEPT ![q] = next[p]]
              /\ parent' = [parent EXCEPT ![q] = p]
              /\ UNCHANGED pending
<1> DEFINE unborn == {u \in Proc : spc[u] = "unborn"}
           q == CHOOSE u \in unborn : \A v \in unborn : u <= v
<1>1. /\ spc[p] = "accepted" /\ ~pending[p] /\ unborn # {}
      /\ spc' = [spc EXCEPT ![p] = "accept", ![q] = "serve"]
      /\ conn' = [conn EXCEPT ![q] = conn[p]]
      /\ next' = [next EXCEPT ![q] = next[p]]
      /\ parent' = [parent EXCEPT ![q] = p]
      /\ UNCHANGED pending
  BY DEF Fork, At
<1>2. unborn \subseteq Nat
  BY RootIsProc
<1>3. \E u \in unborn : \A v \in unborn : u <= v
  BY <1>1, <1>2, Least
<1>4. q \in unborn
  BY <1>3
<1> QED
  BY <1>1, <1>4

-----------------------------------------------------------------------------
(* Types                                                                   *)

TInv == TypeOK /\ RootBorn

(* The part of the types that all transports share. *)
FamilyTypes ==
  /\ backend \in Backend
  /\ spc \in [Proc -> Steps]
  /\ next \in [Proc -> Nat]
  /\ parent \in [Proc -> Proc]
  /\ pending \in [Proc -> BOOLEAN]
  /\ cpc \in [Client -> Final \cup {"out", "reading", "sent", "opening", "open", "named",
                                    "linking", "linked"}]
  /\ faults \in 0..MaxFaults
  /\ RootBorn

ZoneTypes == listenZone \in Nat /\ listenAvailable \in Nat /\ listenFree \in Nat
QueueTypes ==
  /\ srvIn \in Seq(Client) /\ Len(srvIn) <= QUEUE_SIZE
  /\ srvOut \in 0..QUEUE_SIZE
  /\ queues \subseteq Client /\ alone \subseteq Client
FifoTypes ==
  /\ inc \in Seq(Client)
  /\ hello \in [Client -> (Client \X Nat) \cup {None}]
LinkTypes == conn \in [Proc -> Link] /\ link \in [Client -> Link]

LEMMA TypeParts ==
  TInv <=> FamilyTypes /\ ZoneTypes /\ QueueTypes /\ FifoTypes /\ LinkTypes
BY DEF TInv, TypeOK, FamilyTypes, ZoneTypes, QueueTypes, FifoTypes, LinkTypes, Steps

LEMMA TypePartsNext ==
  FamilyTypes' /\ ZoneTypes' /\ QueueTypes' /\ FifoTypes' /\ LinkTypes' => TInv'
BY DEF TInv, TypeOK, FamilyTypes, ZoneTypes, QueueTypes, FifoTypes, LinkTypes, Steps

LEMMA SameLink == UNCHANGED backend => Link' = Link
BY DEF Link

LEMMA EndsTypes ==
  ASSUME FamilyTypes, NEW p \in Proc, Alive(p), Ends(p)
  PROVE  /\ spc' \in [Proc -> Steps] /\ RootBorn'
         /\ pending' \in [Proc -> BOOLEAN]
BY RootIsProc DEF FamilyTypes, Ends, Goto, Alive, Steps, RootBorn

LEMMA ForkTypes ==
  ASSUME TInv, NEW p \in Proc, Fork(p),
         UNCHANGED <<backend, clients, faults, shmem, queue, fifo>>
  PROVE  TInv'
<1>1. PICK q \in Proc :
        /\ spc[q] = "unborn"
        /\ spc' = [spc EXCEPT ![p] = "accept", ![q] = "serve"]
        /\ conn' = [conn EXCEPT ![q] = conn[p]]
        /\ next' = [next EXCEPT ![q] = next[p]]
        /\ parent' = [parent EXCEPT ![q] = p]
        /\ UNCHANGED pending
  BY ForkFacts
<1> USE DEF clients, shmem, queue, fifo
<1>2. FamilyTypes'
  BY <1>1, TypeParts, TypePartsNext, RootIsProc DEF FamilyTypes, Steps, RootBorn
<1>3. LinkTypes'
  BY <1>1, TypeParts, TypePartsNext, SameLink DEF LinkTypes
<1> QED
  BY <1>2, <1>3, TypeParts, TypePartsNext DEF ZoneTypes, QueueTypes, FifoTypes

LEMMA OthersTypes ==
  ASSUME TInv, Others
  PROVE  TInv'
<1> USE DEF family, clients, shmem, queue, fifo
<1>1. FamilyTypes /\ LinkTypes
  BY TypeParts, TypePartsNext
<1>2. UNCHANGED <<backend, conn, next, parent, link>>
  BY DEF Others, Leave, Die, GiveUp
<1>3. ASSUME NEW c \in Client, NEW p \in Proc, Leave(c, p), UNCHANGED faults
      PROVE  FamilyTypes'
  BY <1>1, <1>2, <1>3, RootIsProc
     DEF Leave, Becomes, Goto, At, FamilyTypes, Steps, Final, RootBorn, Others
<1>4. ASSUME NEW p \in Proc, Die(p) PROVE FamilyTypes'
  <2>1. spc' \in [Proc -> Steps] /\ RootBorn' /\ pending' \in [Proc -> BOOLEAN]
    BY <1>1, <1>4, EndsTypes DEF Die, Alive
  <2> QED
    BY <1>1, <1>2, <1>4, <2>1, FamilyAssumption DEF Die, FamilyTypes, Others
<1>5. ASSUME NEW c \in Client, GiveUp(c) PROVE FamilyTypes'
  BY <1>1, <1>2, <1>5, FamilyAssumption
     DEF GiveUp, Becomes, FamilyTypes, Final, RootBorn, Others
<1>6. FamilyTypes'
  BY <1>3, <1>4, <1>5 DEF Others
<1>7. LinkTypes'
  BY <1>1, <1>2, SameLink DEF LinkTypes
<1> QED
  BY <1>6, <1>7, TypeParts, TypePartsNext DEF Others, ZoneTypes, QueueTypes, FifoTypes

LEMMA ShmemTypes ==
  ASSUME TInv, backend = "shmem",
         \/ \E p \in Proc : ShmemProcess(p)
         \/ \E c \in Client : ShmemRead(c) \/ ShmemAsk(c),
         UNCHANGED <<backend, queue, fifo>>
  PROVE  TInv'
<1> USE DEF family, clients, shmem, queue, fifo, Goto, Becomes, At
<1>1. FamilyTypes /\ LinkTypes /\ ZoneTypes
  BY TypeParts, TypePartsNext
<1>2. Link = {None} \cup Nat
  BY LinkIs
<1>3. QueueTypes' /\ FifoTypes'
  BY TypeParts, TypePartsNext DEF QueueTypes, FifoTypes
<1>4. ASSUME NEW p \in Proc, ShmemProcess(p)
      PROVE  FamilyTypes' /\ LinkTypes' /\ ZoneTypes'
  <2>1. FamilyTypes'
    <3>1. CASE ShmemWrite(p)
      BY <1>1, <3>1, RootIsProc DEF FamilyTypes, Steps, RootBorn, ShmemWrite
    <3>2. CASE ShmemPost(p) \/ ShmemTaken(p)
      BY <1>1, <3>2, RootIsProc
         DEF FamilyTypes, Steps, RootBorn, ShmemPost, ShmemTaken
    <3>3. CASE ShmemReap(p)
      BY <1>1, <3>3, RootIsProc DEF FamilyTypes, Steps, RootBorn, ShmemReap
    <3> QED
      BY <1>4, <3>1, <3>2, <3>3 DEF ShmemProcess
  <2>2. LinkTypes'
    BY <1>1, <1>2, <1>4, SameLink
       DEF FamilyTypes, LinkTypes, ShmemProcess, ShmemWrite, ShmemPost,
           ShmemTaken, ShmemReap
  <2>3. ZoneTypes'
    BY <1>1, <1>4
       DEF FamilyTypes, ZoneTypes, ShmemProcess, ShmemWrite, ShmemPost,
           ShmemTaken, ShmemReap
  <2> QED
    BY <2>1, <2>2, <2>3
<1>5. ASSUME NEW c \in Client, ShmemRead(c) \/ ShmemAsk(c)
      PROVE  FamilyTypes' /\ LinkTypes' /\ ZoneTypes'
  <2>1. FamilyTypes'
    BY <1>1, <1>5 DEF FamilyTypes, RootBorn, Final, ShmemRead, ShmemAsk
  <2>2. LinkTypes'
    BY <1>1, <1>2, <1>5, SameLink DEF LinkTypes, ZoneTypes, ShmemRead, ShmemAsk
  <2>3. ZoneTypes'
    BY <1>1, <1>5 DEF ZoneTypes, ShmemRead, ShmemAsk
  <2> QED
    BY <2>1, <2>2, <2>3
<1> QED
  BY <1>3, <1>4, <1>5, TypeParts, TypePartsNext

LEMMA QueueTypesKept ==
  ASSUME TInv, backend = "queue",
         \/ \E p \in Proc : QueueProcess(p)
         \/ \E c \in Client : QueueAccepted(c) \/ QueueAsk(c),
         UNCHANGED <<backend, shmem, fifo>>
  PROVE  TInv'
<1> USE DEF family, clients, shmem, queue, fifo, Goto, Becomes, At
<1>1. FamilyTypes /\ LinkTypes /\ QueueTypes
  BY TypeParts, TypePartsNext
<1>2. Link = {None} \cup Client
  BY LinkIs
<1>3. ZoneTypes' /\ FifoTypes'
  BY TypeParts, TypePartsNext DEF ZoneTypes, FifoTypes
<1>4. ASSUME NEW p \in Proc, QueueProcess(p)
      PROVE  FamilyTypes' /\ LinkTypes' /\ QueueTypes'
  <2>1. FamilyTypes'
    <3>1. CASE QueueReceive(p) \/ QueueAnswer(p)
      BY <1>1, <3>1, RootIsProc
         DEF FamilyTypes, Steps, RootBorn, QueueReceive, QueueAnswer
    <3>2. CASE QueueReap(p)
      <4>1. /\ spc' = spc \/ spc' = [spc EXCEPT ![p] = "received"]
               \/ spc' = [spc EXCEPT ![p] = "accepted"]
            /\ pending' = [pending EXCEPT ![p] = FALSE]
            /\ UNCHANGED <<next, parent, cpc, faults>>
        BY <3>2 DEF QueueReap
      <4> QED
        BY <1>1, <4>1, RootIsProc DEF FamilyTypes, Steps, RootBorn
    <3> QED
      BY <1>4, <3>1, <3>2 DEF QueueProcess
  <2>2. srvIn # << >> => Head(srvIn) \in Client /\ Tail(srvIn) \in Seq(Client)
                         /\ Len(Tail(srvIn)) <= Len(srvIn)
    BY <1>1 DEF QueueTypes
  <2>3. LinkTypes'
    BY <1>1, <1>2, <1>4, <2>2, SameLink
       DEF LinkTypes, QueueProcess, QueueReceive, QueueAnswer, QueueReap
  <2>4. QueueTypes'
    BY <1>1, <1>2, <1>4, <2>2
       DEF QueueTypes, LinkTypes, QUEUE_SIZE, QueueProcess, QueueReceive,
           QueueAnswer, QueueReap
  <2> QED
    BY <2>1, <2>3, <2>4
<1>5. ASSUME NEW c \in Client, QueueAccepted(c) \/ QueueAsk(c)
      PROVE  FamilyTypes' /\ LinkTypes' /\ QueueTypes'
  <2>1. FamilyTypes'
    BY <1>1, <1>5 DEF FamilyTypes, RootBorn, Final, QueueAccepted, QueueAsk
  <2>2. LinkTypes'
    BY <1>1, <1>2, <1>5, SameLink DEF LinkTypes, QueueAccepted, QueueAsk
  <2>3. QueueTypes'
    BY <1>1, <1>5 DEF QueueTypes, QUEUE_SIZE, QueueAccepted, QueueAsk
  <2> QED
    BY <2>1, <2>2, <2>3
<1> QED
  BY <1>3, <1>4, <1>5, TypeParts, TypePartsNext

LEMMA FifoTypesKept ==
  ASSUME TInv, backend = "fifo",
         \/ \E p \in Proc : FifoProcess(p)
         \/ \E c \in Client : FifoConnect(c) \/ FifoAsk(c),
         UNCHANGED <<backend, shmem, queue>>
  PROVE  TInv'
<1> USE DEF family, clients, shmem, queue, fifo, Goto, Becomes, At
<1>1. FamilyTypes /\ LinkTypes /\ FifoTypes
  BY TypeParts, TypePartsNext
<1>2. Link = {None} \cup (Client \X Nat)
  BY LinkIs
<1>3. ZoneTypes' /\ QueueTypes'
  BY TypeParts, TypePartsNext DEF ZoneTypes, QueueTypes
<1>4. ASSUME NEW p \in Proc, FifoProcess(p)
      PROVE  FamilyTypes' /\ LinkTypes' /\ FifoTypes'
  <2>1. FamilyTypes'
    <3>1. CASE Ends(p) /\ Alive(p) /\ UNCHANGED <<next, parent, clients, faults>>
      BY <1>1, <3>1, EndsTypes DEF FamilyTypes
    <3>2. CASE FifoOpen(p) \/ FifoRead(p) \/ FifoAnswer(p)
      BY <1>1, <3>2, RootIsProc
         DEF FamilyTypes, Steps, RootBorn, FifoOpen, FifoRead, FifoAnswer
    <3>3. CASE \E c \in Client : FifoMeet(p, c)
      BY <1>1, <3>3, RootIsProc
         DEF FamilyTypes, Steps, RootBorn, FifoMeet
    <3>4. CASE pending' = [pending EXCEPT ![p] = FALSE]
                 /\ UNCHANGED <<spc, next, parent, clients, faults>>
      BY <1>1, <3>4 DEF FamilyTypes, RootBorn
    <3> QED
      BY <1>4, <3>1, <3>2, <3>3, <3>4 DEF FifoProcess, FifoEof, FifoReap, Reaped, Alive
  <2>2. inc # << >> => Head(inc) \in Client /\ Tail(inc) \in Seq(Client)
    BY <1>1 DEF FifoTypes
  <2>3. LinkTypes'
    BY <1>1, <1>2, <1>4, <2>2, SameLink
       DEF LinkTypes, FamilyTypes, FifoProcess, FifoOpen, FifoRead, FifoEof,
           FifoAnswer, FifoReap, FifoMeet
  <2>4. FifoTypes'
    <3>1. CASE FifoAnswer(p)
      <4>1. hello' = [hello EXCEPT ![conn[p][1]] = conn[p]] /\ inc' = inc
        BY <3>1 DEF FifoAnswer
      <4>2. conn[p] \in (Client \X Nat) \cup {None}
        BY <1>1, <1>2 DEF LinkTypes
      <4> QED
        BY <1>1, <4>1, <4>2 DEF FifoTypes
    <3>2. CASE FifoRead(p)
      BY <1>1, <2>2, <3>2 DEF FifoTypes, FifoRead
    <3>3. CASE UNCHANGED fifo
      BY <1>1, <3>3 DEF FifoTypes
    <3> QED
      BY <1>4, <3>1, <3>2, <3>3
         DEF FifoProcess, FifoOpen, FifoEof, FifoReap, FifoMeet
  <2> QED
    BY <2>1, <2>3, <2>4
<1>5. ASSUME NEW c \in Client, FifoConnect(c) \/ FifoAsk(c)
      PROVE  FamilyTypes' /\ LinkTypes' /\ FifoTypes'
  <2>1. FamilyTypes'
    BY <1>1, <1>5 DEF FamilyTypes, RootBorn, Final, FifoConnect, FifoAsk,
       FifoFound, FifoName, FifoHello, FifoClose
  <2>2. LinkTypes'
    BY <1>1, <1>2, <1>5, SameLink DEF LinkTypes, FifoTypes, FifoConnect, FifoAsk,
       FifoFound, FifoName, FifoHello, FifoClose
  <2>3. FifoTypes'
    BY <1>1, <1>5 DEF FifoTypes, FifoConnect, FifoAsk,
       FifoFound, FifoName, FifoHello, FifoClose
  <2> QED
    BY <2>1, <2>2, <2>3
<1> QED
  BY <1>3, <1>4, <1>5, TypeParts, TypePartsNext

LEMMA InitTypes == Init => TInv
<1> SUFFICES ASSUME Init PROVE TInv
  OBVIOUS
<1> USE DEF Init, FamilyInit, ShmemInit, QueueInit, FifoInit
<1>1. FamilyTypes
  BY RootIsProc, FamilyAssumption DEF FamilyTypes, Steps, RootBorn
<1>2. LinkTypes
  <2>1. None \in Link
    BY LinkIs DEF Backend
  <2> QED
    BY <2>1 DEF LinkTypes
<1>3. ZoneTypes /\ QueueTypes /\ FifoTypes
  BY DEF ZoneTypes, QueueTypes, FifoTypes, QUEUE_SIZE
<1> QED
  BY <1>1, <1>2, <1>3, TypeParts, TypePartsNext

LEMMA NextTypes == TInv /\ [Next]_vars => TInv'
<1> SUFFICES ASSUME TInv, [Next]_vars PROVE TInv'
  OBVIOUS
<1>1. ASSUME UNCHANGED vars PROVE TInv'
  <2> USE DEF vars, family, clients, shmem, queue, fifo
  <2>1. FamilyTypes' /\ LinkTypes'
    BY <1>1, TypeParts, TypePartsNext, SameLink DEF FamilyTypes, RootBorn, LinkTypes
  <2> QED
    BY <1>1, <2>1, TypeParts, TypePartsNext DEF ZoneTypes, QueueTypes, FifoTypes
<1>2. ASSUME NEW p \in Proc, Process(p) PROVE TInv'
  BY <1>2, ForkTypes, ShmemTypes, QueueTypesKept, FifoTypesKept DEF Process
<1>3. ASSUME NEW c \in Client, Connect(c) \/ Ask(c) PROVE TInv'
  BY <1>3, ShmemTypes, QueueTypesKept, FifoTypesKept DEF Connect, Ask
<1> QED
  BY <1>1, <1>2, <1>3, OthersTypes DEF Next

LEMMA TypesKept == Spec => []TInv
BY InitTypes, NextTypes, PTL DEF Spec

-----------------------------------------------------------------------------
(* FIFOs                                                                   *)

(* The processes that have a client. *)
Held == {p \in Proc : spc[p] \in {"received", "naming", "linking", "accepted", "serve"}}

(* The clients that have not written their name yet. *)
Early == {"out", "opening", "open"}

Unique(s) == \A i, j \in 1..Len(s) : s[i] = s[j] => i = j

(* A name is written once, read once, and stays with one process. *)
FifoHeld ==
  /\ \A p \in Held :
       /\ conn[p] \in Client \X Nat
       /\ cpc[conn[p][1]] \notin Early
       /\ \A i \in 1..Len(inc) : inc[i] # conn[p][1]
  /\ \A p, q \in Held : conn[p][1] = conn[q][1] => p = q
  /\ Unique(inc)
  /\ \A i \in 1..Len(inc) : cpc[inc[i]] \notin Early

(* What a client reads from its own FIFO is a name of its own. *)
FifoClients ==
  \A c \in Client :
    /\ cpc[c] # "broken"
    /\ hello[c] # None => hello[c] \in {c} \X Nat
    /\ cpc[c] \in {"linking", "linked", "connected"} => link[c] \in {c} \X Nat

FifoInv == FifoHeld /\ FifoClients

LEMMA FifoHeldFrame ==
  ASSUME TInv, FifoHeld, UNCHANGED inc, Held' \subseteq Held,
         \A p \in Held' : conn'[p] = conn[p],
         \A c \in Client : cpc[c] \notin Early => cpc'[c] \notin Early
  PROVE  FifoHeld'
<1>1. inc \in Seq(Client)
  BY DEF TInv, TypeOK
<1>2. \A i \in 1..Len(inc) : inc[i] \in Client
  BY <1>1
<1>3. Unique(inc)'
  BY DEF FifoHeld, Unique
<1>4. \A i \in 1..Len(inc) : cpc'[inc[i]] \notin Early
  BY <1>2 DEF FifoHeld
<1>5. ASSUME NEW p \in Held'
      PROVE  /\ conn'[p] \in Client \X Nat
             /\ cpc'[conn'[p][1]] \notin Early
             /\ \A i \in 1..Len(inc) : inc[i] # conn'[p][1]
  <2>1. p \in Held /\ conn'[p] = conn[p]
    OBVIOUS
  <2>2. conn[p] \in Client \X Nat /\ cpc[conn[p][1]] \notin Early
        /\ \A i \in 1..Len(inc) : inc[i] # conn[p][1]
    BY <2>1 DEF FifoHeld
  <2>3. conn[p][1] \in Client
    BY <2>2
  <2> QED
    BY <2>1, <2>2, <2>3
<1>6. \A p, q \in Held' : conn'[p][1] = conn'[q][1] => p = q
  BY DEF FifoHeld
<1> QED
  BY <1>3, <1>4, <1>5, <1>6 DEF FifoHeld, Early

LEMMA FifoClientsFrame ==
  ASSUME FifoClients, UNCHANGED <<hello, link>>,
         \A c \in Client : cpc'[c] # cpc[c] =>
           cpc'[c] \notin {"broken", "linking", "linked", "connected"}
  PROVE  FifoClients'
BY DEF FifoClients

LEMMA ForkFifo ==
  ASSUME TInv, FifoInv, NEW p \in Proc, Fork(p), UNCHANGED <<clients, fifo>>
  PROVE  FifoInv'
<1> USE DEF clients, fifo
<1>1. PICK q \in Proc :
        /\ spc[q] = "unborn"
        /\ spc' = [spc EXCEPT ![p] = "accept", ![q] = "serve"]
        /\ conn' = [conn EXCEPT ![q] = conn[p]]
  BY ForkFacts
<1>2. TypeOK /\ spc[p] = "accepted"
  BY ForkFacts DEF TInv
<1>3. Held' = (Held \ {p}) \cup {q} /\ q # p /\ p \in Held /\ q \notin Held
  BY <1>1, <1>2 DEF TypeOK, Held
<1>4. conn'[q] = conn[p] /\ \A r \in Proc \ {q} : conn'[r] = conn[r]
  BY <1>1, <1>2 DEF TypeOK
<1>5. Held \subseteq Proc
  BY DEF Held
<1>6. ASSUME NEW r \in Held'
      PROVE  \E s \in Held : conn'[r] = conn[s] /\ (s = p <=> r = q) /\ (r # q => s = r)
  BY <1>3, <1>4, <1>5
<1>7. FifoHeld'
  <2>1. \A r \in Held' :
          /\ conn'[r] \in Client \X Nat
          /\ cpc[conn'[r][1]] \notin Early
          /\ \A i \in 1..Len(inc) : inc[i] # conn'[r][1]
    BY <1>6 DEF FifoInv, FifoHeld
  <2>2. \A r, s \in Held' : conn'[r][1] = conn'[s][1] => r = s
    BY <1>6 DEF FifoInv, FifoHeld
  <2> QED
    BY <2>1, <2>2 DEF FifoInv, FifoHeld, Unique, Early
<1>8. FifoClients'
  BY FifoClientsFrame DEF FifoInv
<1> QED
  BY <1>7, <1>8 DEF FifoInv

LEMMA OthersFifo ==
  ASSUME TInv, FifoInv, Others
  PROVE  FifoInv'
<1> USE DEF family, clients, fifo, Goto, Becomes, Ends, At, Early
<1>1. TypeOK
  BY DEF TInv
<1>2. UNCHANGED <<inc, hello, link, conn>>
  BY DEF Others, Leave, Die, GiveUp
<1>3. /\ \A c \in Client : cpc'[c] \in {cpc[c], "left", "killed"}
      /\ Held' \subseteq Held
  <2>1. CASE \E c \in Client, p \in Proc : Leave(c, p)
    BY <1>1, <2>1 DEF Leave, Held, TypeOK
  <2>2. CASE \E p \in Proc : Die(p)
    BY <1>1, <2>2 DEF Die, Held, TypeOK
  <2>3. CASE \E c \in Client : GiveUp(c)
    BY <1>1, <2>3 DEF GiveUp, Held, TypeOK
  <2> QED
    BY <2>1, <2>2, <2>3 DEF Others
<1>4. FifoHeld'
  BY <1>2, <1>3, FifoHeldFrame DEF FifoInv, Held
<1>5. FifoClients'
  BY <1>2, <1>3, FifoClientsFrame DEF FifoInv
<1> QED
  BY <1>4, <1>5 DEF FifoInv

(* The client of the name that is read gets a process, and only one. *)
LEMMA ReadFifo ==
  ASSUME TInv, FifoInv, NEW p \in Proc, FifoRead(p)
  PROVE  FifoInv'
<1> USE DEF clients, Goto, At
<1> DEFINE c == Head(inc)
<1>1. TypeOK /\ inc \in Seq(Client) /\ next[p] \in Nat
  BY DEF TInv, TypeOK
<1>2. /\ spc[p] = "reading" /\ inc # << >>
      /\ conn' = [conn EXCEPT ![p] = <<c, next[p]>>]
      /\ inc' = Tail(inc)
      /\ spc' = [spc EXCEPT ![p] = "naming"]
      /\ UNCHANGED <<cpc, link, hello>>
  BY DEF FifoRead
<1>3. /\ c = inc[1] /\ Len(inc) > 0 /\ c \in Client
      /\ Len(inc') = Len(inc) - 1
      /\ \A i \in 1..Len(inc') : inc'[i] = inc[i + 1] /\ i + 1 \in 1..Len(inc)
  BY <1>1, <1>2
<1>4. /\ Held' = Held \cup {p} /\ p \notin Held
      /\ conn'[p] = <<c, next[p]>>
      /\ \A q \in Held : conn'[q] = conn[q]
  BY <1>1, <1>2 DEF TypeOK, Held
<1>5. cpc[c] \notin Early /\ \A q \in Held : conn[q][1] # c
  BY <1>3 DEF FifoInv, FifoHeld
<1>6. \A i \in 1..Len(inc') : inc'[i] # c /\ cpc[inc'[i]] \notin Early
  BY <1>1, <1>3 DEF FifoInv, FifoHeld, Unique
<1>7. Unique(inc)'
  BY <1>1, <1>3 DEF FifoInv, FifoHeld, Unique
<1>8. ASSUME NEW q \in Held'
      PROVE  /\ conn'[q] \in Client \X Nat
             /\ cpc[conn'[q][1]] \notin Early
             /\ \A i \in 1..Len(inc') : inc'[i] # conn'[q][1]
  <2>1. CASE q = p
    <3>1. c \in Client /\ next[p] \in Nat /\ conn'[q] = <<c, next[p]>>
      BY <1>1, <1>3, <1>4, <2>1
    <3> HIDE DEF c
    <3>2. conn'[q] \in Client \X Nat /\ conn'[q][1] = c
      BY <3>1
    <3> QED
      BY <1>5, <1>6, <3>2
  <2>2. CASE q # p
    <3>1. q \in Held /\ conn'[q] = conn[q]
      BY <1>4, <2>2
    <3>2. /\ conn[q] \in Client \X Nat /\ cpc[conn[q][1]] \notin Early
          /\ \A i \in 1..Len(inc) : inc[i] # conn[q][1]
      BY <3>1 DEF FifoInv, FifoHeld
    <3> QED
      BY <1>3, <3>1, <3>2
  <2> QED
    BY <2>1, <2>2
<1>9. \A q, r \in Held' : conn'[q][1] = conn'[r][1] => q = r
  <2>1. \A q, r \in Held : conn'[q][1] = conn'[r][1] => q = r
    BY <1>4 DEF FifoInv, FifoHeld
  <2>2. conn'[p][1] = c /\ \A q \in Held : conn'[q][1] # c
    BY <1>4, <1>5
  <2> QED
    BY <1>4, <2>1, <2>2
<1>10. FifoHeld'
  BY <1>2, <1>6, <1>7, <1>8, <1>9 DEF FifoHeld, Early
<1>11. FifoClients'
  BY <1>2, FifoClientsFrame DEF FifoInv
<1> QED
  BY <1>10, <1>11 DEF FifoInv

(* A client writes its name once. *)
LEMMA NameFifo ==
  ASSUME TInv, FifoInv, NEW c \in Client, FifoName(c)
  PROVE  FifoInv'
<1> USE DEF family, Becomes
<1>1. TypeOK /\ inc \in Seq(Client)
  BY DEF TInv, TypeOK
<1>2. /\ cpc[c] = "open"
      /\ inc' = Append(inc, c)
      /\ cpc' = [cpc EXCEPT ![c] = "named"]
      /\ UNCHANGED <<spc, conn, link, hello>>
  BY DEF FifoName
<1>3. /\ Len(inc') = Len(inc) + 1 /\ inc'[Len(inc) + 1] = c
      /\ \A i \in 1..Len(inc) : inc'[i] = inc[i] /\ inc[i] \in Client
  BY <1>1, <1>2
<1>4. \A d \in Client : cpc'[d] = IF d = c THEN "named" ELSE cpc[d]
  BY <1>1, <1>2 DEF TypeOK
<1>5. \A i \in 1..Len(inc) : inc[i] # c
  BY <1>2 DEF FifoInv, FifoHeld, Early
<1>6. Unique(inc)' /\ \A i \in 1..Len(inc') : cpc'[inc'[i]] \notin Early
  BY <1>1, <1>3, <1>4, <1>5 DEF FifoInv, FifoHeld, Unique, Early
<1>7. Held' = Held
  BY <1>2 DEF Held
<1>8. ASSUME NEW p \in Held
      PROVE  /\ conn[p] \in Client \X Nat
             /\ cpc'[conn[p][1]] \notin Early
             /\ \A i \in 1..Len(inc') : inc'[i] # conn[p][1]
  <2>1. /\ conn[p] \in Client \X Nat /\ cpc[conn[p][1]] \notin Early
        /\ \A i \in 1..Len(inc) : inc[i] # conn[p][1]
    BY DEF FifoInv, FifoHeld
  <2>2. conn[p][1] # c /\ conn[p][1] \in Client
    BY <1>2, <2>1 DEF Early
  <2> QED
    BY <1>1, <1>3, <1>4, <2>1, <2>2
<1>9. FifoHeld'
  BY <1>2, <1>6, <1>7, <1>8 DEF FifoInv, FifoHeld, Early
<1>10. FifoClients'
  BY <1>2, <1>4, FifoClientsFrame DEF FifoInv
<1> QED
  BY <1>9, <1>10 DEF FifoInv

LEMMA ProcessFifo ==
  ASSUME TInv, FifoInv, NEW p \in Proc, FifoProcess(p)
  PROVE  FifoInv'
<1> USE DEF clients, fifo, Goto, Becomes, Ends, At
<1>1. TypeOK
  BY DEF TInv
<1>2. CASE FifoRead(p)
  BY <1>2, ReadFifo
<1>3. CASE FifoOpen(p) \/ FifoEof(p) \/ FifoReap(p)
  <2>1. /\ UNCHANGED <<conn, cpc, link, inc, hello>>
        /\ Held' \subseteq Held
    BY <1>1, <1>3 DEF FifoOpen, FifoEof, FifoReap, Held, TypeOK
  <2> QED
    BY <2>1, FifoHeldFrame, FifoClientsFrame DEF FifoInv
<1>4. CASE FifoAnswer(p)
  <2> DEFINE c == conn[p][1]
  <2>1. p \in Held /\ conn[p] \in Client \X Nat
    BY <1>4 DEF FifoAnswer, FifoInv, FifoHeld, Held
  <2>2. c \in Client /\ conn[p] \in {c} \X Nat
    BY <2>1
  <2>3. /\ UNCHANGED <<conn, cpc, link, inc>>
        /\ hello' = [hello EXCEPT ![c] = conn[p]]
        /\ Held' \subseteq Held
    BY <1>1, <1>4 DEF FifoAnswer, Held, TypeOK
  <2>4. FifoClients'
    BY <1>1, <2>2, <2>3 DEF TypeOK, FifoInv, FifoClients
  <2> QED
    BY <2>3, <2>4, FifoHeldFrame DEF FifoInv
<1>5. ASSUME NEW c \in Client, FifoMeet(p, c) PROVE FifoInv'
  <2>1. /\ UNCHANGED <<conn, link, inc, hello>>
        /\ Held' \subseteq Held
        /\ cpc[c] = "linking"
        /\ \A d \in Client : cpc'[d] = IF d = c THEN "linked" ELSE cpc[d]
    BY <1>1, <1>5 DEF FifoMeet, Held, TypeOK
  <2>2. FifoClients'
    BY <2>1 DEF FifoInv, FifoClients
  <2> QED
    BY <2>1, <2>2, FifoHeldFrame DEF FifoInv, Early
<1> QED
  BY <1>2, <1>3, <1>4, <1>5 DEF FifoProcess

LEMMA ClientFifo ==
  ASSUME TInv, FifoInv, NEW c \in Client, FifoConnect(c) \/ FifoAsk(c)
  PROVE  FifoInv'
<1> USE DEF family, fifo, Becomes
<1>1. TypeOK
  BY DEF TInv
<1>2. CASE FifoName(c)
  BY <1>2, NameFifo
<1>3. CASE FifoAsk(c) \/ FifoFound(c)
  <2>1. /\ UNCHANGED <<spc, conn, link, inc, hello>>
        /\ \A d \in Client : cpc'[d] = cpc[d] \/ cpc'[d] \in {"opening", "open"}
        /\ cpc[c] \in Early /\ \A d \in Client \ {c} : cpc'[d] = cpc[d]
    BY <1>1, <1>3 DEF FifoAsk, FifoFound, TypeOK, Early
  <2>2. Held' = Held
    BY <2>1 DEF Held
  <2> QED
    BY <2>1, <2>2, FifoHeldFrame, FifoClientsFrame DEF FifoInv, Early
<1>4. CASE FifoHello(c) \/ FifoClose(c)
  <2>1. /\ UNCHANGED <<spc, conn, inc, hello>>
        /\ \A d \in Client \ {c} : cpc'[d] = cpc[d] /\ link'[d] = link[d]
        /\ cpc'[c] \in {"linking", "connected"}
        /\ \/ cpc[c] = "linked" /\ link'[c] = link[c]
           \/ hello[c] # None /\ link'[c] = hello[c]
    BY <1>1, <1>4 DEF FifoHello, FifoClose, TypeOK
  <2>2. Held' = Held
    BY <2>1 DEF Held
  <2>3. FifoClients'
    BY <2>1 DEF FifoInv, FifoClients
  <2> QED
    BY <2>1, <2>2, <2>3, FifoHeldFrame DEF FifoInv, Early
<1> QED
  BY <1>2, <1>3, <1>4 DEF FifoConnect

(* Everyone that is served has its own process and its own connection. *)
LEMMA FifoOneToOne ==
  ASSUME TInv, FifoInv, NEW c \in Client, cpc[c] = "connected"
  PROVE  /\ \A p, q \in Serving(link[c]) : p = q
         /\ \A d \in Client \ {c} : cpc[d] = "connected" => link[d] # link[c]
<1>1. \A d \in Client : cpc[d] = "connected" => link[d] \in {d} \X Nat
  BY DEF FifoInv, FifoClients
<1>2. \A d \in Client : cpc[d] = "connected" => link[d][1] = d
  BY <1>1
<1>3. \A p, q \in Serving(link[c]) : p \in Held /\ q \in Held /\ conn[p] = conn[q]
  BY DEF Serving, Held
<1>4. \A p, q \in Serving(link[c]) : p = q
  BY <1>3 DEF FifoInv, FifoHeld
<1>5. \A d \in Client \ {c} : cpc[d] = "connected" => link[d] # link[c]
  BY <1>2
<1> QED
  BY <1>4, <1>5

-----------------------------------------------------------------------------
(* Message queues                                                          *)

NoneReaped == \A p \in Proc : ~pending[p]

Sent == {c \in Client : cpc[c] = "sent"}
Received == {p \in Proc : spc[p] = "received"}

(* A number is sent once, received once, and stays with one process. *)
QueueHeld ==
  /\ \A p \in Held :
       /\ conn[p] \in Client
       /\ cpc[conn[p]] # "out"
       /\ \A i \in 1..Len(srvIn) : srvIn[i] # conn[p]
  /\ \A p, q \in Held : conn[p] = conn[q] => p = q
  /\ Unique(srvIn)
  /\ \A i \in 1..Len(srvIn) : cpc[srvIn[i]] # "out"

(* A client whose number is no more in the queue has its queues. *)
QueueClients ==
  \A c \in Client :
    /\ cpc[c] \in {"out", "sent", "connected", "broken", "left"}
    /\ cpc[c] = "connected" => link[c] = c
    /\ cpc[c] = "sent" => c \in queues \/ \E i \in 1..Len(srvIn) : srvIn[i] = c
    /\ cpc[c] = "sent" /\ c \in alone => Sent = {c}
    /\ cpc[c] = "broken" => c \notin alone

(* To each client that waits belongs a number that was sent, one that was  *)
(* received, or an "Accepted", whosever it is.                             *)
Outstanding == Cardinality(Sent) = Len(srvIn) + Cardinality(Received) + srvOut

QueueParts == NoneReaped /\ QueueHeld /\ QueueClients /\ Outstanding
QueueInv == faults = 0 => QueueParts

LEMMA QueueFinite ==
  /\ IsFiniteSet(Sent) /\ Cardinality(Sent) \in Nat
  /\ IsFiniteSet(Received) /\ Cardinality(Received) \in Nat
<1>1. IsFiniteSet(Proc)
  BY FamilyAssumption, FS_Interval DEF Proc
<1>2. IsFiniteSet(Sent)
  BY FamilyAssumption, FS_Subset DEF Sent
<1>3. IsFiniteSet(Received)
  BY <1>1, FS_Subset DEF Received
<1> QED
  BY <1>2, <1>3, FS_CardinalityType

LEMMA QueueHeldFrame ==
  ASSUME TInv, QueueHeld, UNCHANGED srvIn, Held' \subseteq Held,
         \A p \in Held' : conn'[p] = conn[p],
         \A c \in Client : cpc[c] # "out" => cpc'[c] # "out"
  PROVE  QueueHeld'
<1>1. \A i \in 1..Len(srvIn) : srvIn[i] \in Client
  BY DEF TInv, TypeOK
<1>2. \A i \in 1..Len(srvIn) : cpc'[srvIn[i]] # "out"
  BY <1>1 DEF QueueHeld
<1>3. ASSUME NEW p \in Held'
      PROVE  /\ conn'[p] \in Client
             /\ cpc'[conn'[p]] # "out"
             /\ \A i \in 1..Len(srvIn) : srvIn[i] # conn'[p]
  BY <1>3 DEF QueueHeld
<1>4. \A p, q \in Held' : conn'[p] = conn'[q] => p = q
  BY DEF QueueHeld
<1> QED
  BY <1>2, <1>3, <1>4 DEF QueueHeld, Unique

LEMMA ForkQueue ==
  ASSUME TInv, QueueParts, NEW p \in Proc, Fork(p), UNCHANGED <<clients, queue>>
  PROVE  QueueParts'
<1> USE DEF clients, queue
<1>1. PICK q \in Proc :
        /\ spc[q] = "unborn"
        /\ spc' = [spc EXCEPT ![p] = "accept", ![q] = "serve"]
        /\ conn' = [conn EXCEPT ![q] = conn[p]]
        /\ UNCHANGED pending
  BY ForkFacts
<1>2. TypeOK /\ spc[p] = "accepted"
  BY ForkFacts DEF TInv
<1>3. Held' = (Held \ {p}) \cup {q} /\ q # p /\ p \in Held /\ q \notin Held
  BY <1>1, <1>2 DEF TypeOK, Held
<1>4. conn'[q] = conn[p] /\ \A r \in Proc \ {q} : conn'[r] = conn[r]
  BY <1>1, <1>2 DEF TypeOK
<1>5. Held \subseteq Proc
  BY DEF Held
<1>6. ASSUME NEW r \in Held'
      PROVE  \E s \in Held : conn'[r] = conn[s] /\ (s = p <=> r = q) /\ (r # q => s = r)
  BY <1>3, <1>4, <1>5
<1>7. QueueHeld'
  <2>1. \A r \in Held' :
          /\ conn'[r] \in Client
          /\ cpc[conn'[r]] # "out"
          /\ \A i \in 1..Len(srvIn) : srvIn[i] # conn'[r]
    BY <1>6 DEF QueueParts, QueueHeld
  <2>2. \A r, s \in Held' : conn'[r] = conn'[s] => r = s
    BY <1>6 DEF QueueParts, QueueHeld
  <2> QED
    BY <2>1, <2>2 DEF QueueParts, QueueHeld, Unique
<1>8. Received' = Received /\ Sent' = Sent
  BY <1>1, <1>2 DEF TypeOK, Received, Sent
<1> QED
  BY <1>1, <1>7, <1>8 DEF QueueParts, NoneReaped, QueueClients, Outstanding

LEMMA OthersQueue ==
  ASSUME TInv, QueueInv, Others
  PROVE  QueueInv'
<1> SUFFICES ASSUME faults' = 0 PROVE QueueParts'
  BY DEF QueueInv
<1>1. TypeOK /\ faults \in Nat
  BY DEF TInv, TypeOK
<1>2. PICK c \in Client, p \in Proc : Leave(c, p) /\ UNCHANGED faults
  BY <1>1 DEF Others, Die, GiveUp
<1>3. QueueParts /\ UNCHANGED queue
  BY <1>2 DEF QueueInv, Others
<1>4. /\ UNCHANGED <<conn, link, pending, srvIn, srvOut, queues, alone>>
      /\ spc[p] = "serve" /\ spc' = [spc EXCEPT ![p] = "accept"]
      /\ cpc[c] = "connected" /\ cpc' = [cpc EXCEPT ![c] = "left"]
  BY <1>2, <1>3 DEF Leave, At, Goto, Becomes, queue
<1>5. /\ Held' \subseteq Held /\ Received' = Received
      /\ \A d \in Client \ {c} : cpc'[d] = cpc[d]
      /\ cpc'[c] = "left" /\ Sent' = Sent
  BY <1>1, <1>4 DEF TypeOK, Held, Received, Sent
<1>6. QueueHeld'
  BY <1>3, <1>4, <1>5, QueueHeldFrame DEF QueueParts, Held
<1>7. QueueClients'
  BY <1>3, <1>4, <1>5 DEF QueueParts, QueueClients
<1> QED
  BY <1>3, <1>4, <1>5, <1>6, <1>7 DEF QueueParts, NoneReaped, Outstanding

LEMMA AskQueue ==
  ASSUME TInv, QueueParts, NEW c \in Client, QueueAsk(c)
  PROVE  QueueParts'
<1> DEFINE rivals == {d \in Client \ {c} : Asking(d)}
<1>1. TypeOK /\ srvIn \in Seq(Client) /\ Len(srvIn) \in Nat /\ srvOut \in Nat
  BY DEF TInv, TypeOK, QUEUE_SIZE
<1>2. /\ cpc[c] = "out"
      /\ srvIn' = Append(srvIn, c)
      /\ alone' = alone \ (rivals \cup (IF rivals = {} THEN {} ELSE {c}))
      /\ cpc' = [cpc EXCEPT ![c] = "sent"]
      /\ UNCHANGED <<spc, conn, pending, link, srvOut, queues>>
  BY DEF QueueAsk, Becomes, family
<1>3. /\ Len(srvIn') = Len(srvIn) + 1 /\ srvIn'[Len(srvIn) + 1] = c
      /\ \A i \in 1..Len(srvIn) : srvIn'[i] = srvIn[i] /\ srvIn[i] \in Client
  BY <1>1, <1>2
<1>4. \A d \in Client : cpc'[d] = IF d = c THEN "sent" ELSE cpc[d]
  BY <1>1, <1>2 DEF TypeOK
<1>5. /\ Sent' = Sent \cup {c} /\ c \notin Sent
      /\ Held' = Held /\ Received' = Received
      /\ Held \subseteq Proc
  BY <1>2, <1>4 DEF Sent, Held, Received
<1>6. rivals = Sent \ {c}
  BY DEF QueueParts, QueueClients, Sent, Asking, Final
<1> HIDE DEF rivals
<1>7. QueueHeld'
  <2>1. \A i \in 1..Len(srvIn) : srvIn[i] # c
    BY <1>2 DEF QueueParts, QueueHeld
  <2>2. Unique(srvIn)' /\ \A i \in 1..Len(srvIn') : cpc'[srvIn'[i]] # "out"
    BY <1>1, <1>3, <1>4, <2>1 DEF QueueParts, QueueHeld, Unique
  <2>3. ASSUME NEW p \in Held
        PROVE  /\ conn[p] \in Client
               /\ cpc'[conn[p]] # "out"
               /\ \A i \in 1..Len(srvIn') : srvIn'[i] # conn[p]
    <3>1. /\ conn[p] \in Client /\ cpc[conn[p]] # "out"
          /\ \A i \in 1..Len(srvIn) : srvIn[i] # conn[p]
      BY DEF QueueParts, QueueHeld
    <3> QED
      BY <1>1, <1>2, <1>3, <1>4, <3>1
  <2> QED
    BY <1>2, <1>5, <2>2, <2>3 DEF QueueParts, QueueHeld
<1>8. QueueClients'
  <2>1. ASSUME NEW d \in Client, cpc'[d] = "sent"
        PROVE  d \in queues \/ \E i \in 1..Len(srvIn') : srvIn'[i] = d
    <3>1. CASE d = c
      BY <1>1, <1>3, <3>1
    <3>2. CASE d # c
      BY <1>1, <1>3, <1>4, <2>1, <3>2 DEF QueueParts, QueueClients
    <3> QED
      BY <3>1, <3>2
  <2>2. ASSUME NEW d \in Client, cpc'[d] = "sent", d \in alone'
        PROVE  Sent' = {d}
    BY <1>2, <1>4, <1>5, <1>6, <2>2 DEF Sent
  <2> QED
    BY <1>2, <1>4, <2>1, <2>2 DEF QueueParts, QueueClients
<1>9. Outstanding'
  <2>1. Cardinality(Sent') = Cardinality(Sent) + 1
    BY <1>5, QueueFinite, FS_AddElement
  <2> QED
    BY <1>1, <1>2, <1>3, <1>5, <2>1, QueueFinite DEF QueueParts, Outstanding
<1> QED
  BY <1>2, <1>7, <1>8, <1>9 DEF QueueParts, NoneReaped

(* A client that asked alone reads its own answer, and has its queues.     *)
LEMMA AcceptedQueue ==
  ASSUME TInv, QueueParts, NEW c \in Client, QueueAccepted(c)
  PROVE  QueueParts'
<1>1. TypeOK /\ srvIn \in Seq(Client) /\ Len(srvIn) \in Nat /\ srvOut \in Nat
  BY DEF TInv, TypeOK, QUEUE_SIZE
<1>2. /\ cpc[c] = "sent" /\ srvOut > 0 /\ srvOut' = srvOut - 1
      /\ IF c \in queues
           THEN /\ cpc' = [cpc EXCEPT ![c] = "connected"]
                /\ link' = [link EXCEPT ![c] = c]
           ELSE cpc' = [cpc EXCEPT ![c] = "broken"] /\ link' = link
      /\ UNCHANGED <<spc, conn, pending, srvIn, queues, alone>>
  BY DEF QueueAccepted, Becomes, family
<1>3. /\ \A d \in Client \ {c} : cpc'[d] = cpc[d] /\ link'[d] = link[d]
      /\ IF c \in queues THEN cpc'[c] = "connected" /\ link'[c] = c
                         ELSE cpc'[c] = "broken"
  BY <1>1, <1>2 DEF TypeOK
<1>4. /\ Sent' = Sent \ {c} /\ c \in Sent
      /\ Held' = Held /\ Received' = Received
  BY <1>2, <1>3 DEF Sent, Held, Received
<1>5. QueueHeld'
  BY <1>2, <1>3, <1>4, QueueHeldFrame DEF QueueParts
<1>6. c \notin queues => c \notin alone
  <2> SUFFICES ASSUME c \notin queues, c \in alone PROVE FALSE
    OBVIOUS
  <2>1. Len(srvIn) > 0
    BY <1>1, <1>2 DEF QueueParts, QueueClients
  <2>2. Cardinality(Sent) = 1
    <3>1. Sent = {c}
      BY <1>2 DEF QueueParts, QueueClients
    <3> QED
      BY <3>1, FS_Singleton
  <2> QED
    BY <1>1, <1>2, <2>1, <2>2, QueueFinite DEF QueueParts, Outstanding
<1>7. QueueClients'
  <2>1. ASSUME NEW d \in Client, cpc'[d] = "sent", d \in alone
        PROVE  FALSE
    <3>1. d # c /\ Sent = {d}
      BY <1>3, <2>1 DEF QueueParts, QueueClients
    <3> QED
      BY <1>4, <3>1
  <2> QED
    BY <1>2, <1>3, <1>6, <2>1 DEF QueueParts, QueueClients
<1>8. Outstanding'
  <2>1. Cardinality(Sent') = Cardinality(Sent) - 1
    BY <1>4, QueueFinite, FS_RemoveElement
  <2> QED
    BY <1>1, <1>2, <1>4, <2>1, QueueFinite DEF QueueParts, Outstanding
<1> QED
  BY <1>2, <1>5, <1>7, <1>8 DEF QueueParts, NoneReaped

LEMMA ReceiveQueue ==
  ASSUME TInv, QueueParts, NEW p \in Proc, QueueReceive(p)
  PROVE  QueueParts'
<1> DEFINE c == Head(srvIn)
<1>1. TypeOK /\ srvIn \in Seq(Client) /\ Len(srvIn) \in Nat /\ srvOut \in Nat
  BY DEF TInv, TypeOK, QUEUE_SIZE
<1>2. /\ spc[p] = "accept" /\ srvIn # << >>
      /\ srvIn' = Tail(srvIn)
      /\ conn' = [conn EXCEPT ![p] = c]
      /\ queues' = queues \cup {c}
      /\ spc' = [spc EXCEPT ![p] = "received"]
      /\ UNCHANGED <<pending, cpc, link, srvOut, alone>>
  BY DEF QueueReceive, At, Goto, clients
<1>3. /\ c = srvIn[1] /\ Len(srvIn) > 0 /\ c \in Client
      /\ Len(srvIn') = Len(srvIn) - 1
      /\ \A i \in 1..Len(srvIn') :
           srvIn'[i] = srvIn[i + 1] /\ i + 1 \in 1..Len(srvIn)
  BY <1>1, <1>2
<1>4. /\ Held' = Held \cup {p} /\ p \notin Held
      /\ Received' = Received \cup {p} /\ p \notin Received
      /\ Sent' = Sent
      /\ conn'[p] = c
      /\ \A q \in Held : conn'[q] = conn[q]
  BY <1>1, <1>2 DEF TypeOK, Held, Received, Sent
<1>5. cpc[c] # "out" /\ \A q \in Held : conn[q] # c
  BY <1>3 DEF QueueParts, QueueHeld
<1>6. \A i \in 1..Len(srvIn') : srvIn'[i] # c /\ cpc[srvIn'[i]] # "out"
  BY <1>1, <1>3 DEF QueueParts, QueueHeld, Unique
<1>7. Unique(srvIn)'
  BY <1>1, <1>3 DEF QueueParts, QueueHeld, Unique
<1>8. \A d \in Client : (\E i \in 1..Len(srvIn) : srvIn[i] = d) =>
        d = c \/ \E i \in 1..Len(srvIn') : srvIn'[i] = d
  <2> SUFFICES ASSUME NEW i \in 1..Len(srvIn), srvIn[i] # c
               PROVE  \E j \in 1..Len(srvIn') : srvIn'[j] = srvIn[i]
    OBVIOUS
  <2>1. i - 1 \in 1..Len(srvIn') /\ srvIn'[i - 1] = srvIn[i]
    BY <1>1, <1>3
  <2> QED
    BY <2>1
<1> HIDE DEF c
<1>9. QueueHeld'
  <2>1. ASSUME NEW q \in Held'
        PROVE  /\ conn'[q] \in Client
               /\ cpc[conn'[q]] # "out"
               /\ \A i \in 1..Len(srvIn') : srvIn'[i] # conn'[q]
    <3>1. CASE q = p
      BY <1>3, <1>4, <1>5, <1>6, <3>1
    <3>2. CASE q # p
      BY <1>3, <1>4, <3>2 DEF QueueParts, QueueHeld
    <3> QED
      BY <3>1, <3>2
  <2>2. \A q, r \in Held' : conn'[q] = conn'[r] => q = r
    BY <1>4, <1>5 DEF QueueParts, QueueHeld
  <2> QED
    BY <1>2, <1>6, <1>7, <2>1, <2>2 DEF QueueHeld
<1>10. QueueClients'
  BY <1>2, <1>4, <1>8 DEF QueueParts, QueueClients
<1>11. Outstanding'
  <2>1. Cardinality(Received') = Cardinality(Received) + 1
    BY <1>4, QueueFinite, FS_AddElement
  <2> QED
    BY <1>1, <1>2, <1>3, <1>4, <2>1, QueueFinite DEF QueueParts, Outstanding
<1> QED
  BY <1>2, <1>9, <1>10, <1>11 DEF QueueParts, NoneReaped

LEMMA AnswerQueue ==
  ASSUME TInv, QueueParts, NEW p \in Proc, QueueAnswer(p)
  PROVE  QueueParts'
<1>1. TypeOK /\ Len(srvIn) \in Nat /\ srvOut \in Nat
  BY DEF TInv, TypeOK, QUEUE_SIZE
<1>2. /\ spc[p] = "received" /\ srvOut' = srvOut + 1
      /\ spc' = [spc EXCEPT ![p] = "accepted"]
      /\ UNCHANGED <<conn, pending, cpc, link, srvIn, queues, alone>>
  BY DEF QueueAnswer, At, Goto, clients
<1>3. /\ Held' = Held /\ Sent' = Sent
      /\ Received' = Received \ {p} /\ p \in Received
  BY <1>1, <1>2 DEF TypeOK, Held, Received, Sent
<1>4. QueueHeld'
  BY <1>2, <1>3, QueueHeldFrame DEF QueueParts, Held
<1>5. QueueClients'
  BY <1>2, <1>3 DEF QueueParts, QueueClients
<1>6. Outstanding'
  <2>1. Cardinality(Received') = Cardinality(Received) - 1
    BY <1>3, QueueFinite, FS_RemoveElement
  <2> QED
    BY <1>1, <1>2, <1>3, <2>1, QueueFinite DEF QueueParts, Outstanding
<1> QED
  BY <1>2, <1>4, <1>5, <1>6 DEF QueueParts, NoneReaped

LEMMA StepQueue ==
  ASSUME TInv, QueueInv,
         \/ \E p \in Proc : QueueProcess(p)
         \/ \E c \in Client : QueueAccepted(c) \/ QueueAsk(c)
  PROVE  QueueInv'
<1> SUFFICES ASSUME faults' = 0 PROVE QueueParts'
  BY DEF QueueInv
<1>1. UNCHANGED faults
  BY DEF QueueProcess, QueueReceive, QueueAnswer, QueueReap, QueueAccepted, QueueAsk
<1>2. QueueParts
  BY <1>1 DEF QueueInv
<1>3. \A p \in Proc : ~QueueReap(p)
  BY <1>2 DEF QueueParts, NoneReaped, QueueReap, Reaped
<1> QED
  BY <1>2, <1>3, AskQueue, AcceptedQueue, ReceiveQueue, AnswerQueue DEF QueueProcess

LEMMA QueueOneToOne ==
  ASSUME TInv, QueueParts, NEW c \in Client, cpc[c] = "connected"
  PROVE  /\ \A p, q \in Serving(link[c]) : p = q
         /\ \A d \in Client \ {c} : cpc[d] = "connected" => link[d] # link[c]
<1>1. \A p, q \in Serving(link[c]) : p \in Held /\ q \in Held /\ conn[p] = conn[q]
  BY DEF Serving, Held
<1>2. \A p, q \in Serving(link[c]) : p = q
  BY <1>1 DEF QueueParts, QueueHeld
<1>3. \A d \in Client \ {c} : cpc[d] = "connected" => link[d] # link[c]
  BY DEF QueueParts, QueueClients
<1> QED
  BY <1>2, <1>3

-----------------------------------------------------------------------------
(* Shared memory, while only the process started first accepts             *)

Reading == {c \in Client : cpc[c] = "reading"}

(* Where the port in the listening zone is: with nobody, on offer, with    *)
(* the client that is about to read it, or read.                           *)
Idle == listenAvailable = 0 /\ Reading = {} /\ listenFree = 0
Posted == listenAvailable = 1 /\ Reading = {} /\ listenFree = 0
Taken == listenAvailable = 0 /\ listenFree = 0 /\ \E c \in Client : Reading = {c}
Freed == listenAvailable = 0 /\ Reading = {} /\ listenFree = 1

OnlyRoot == \A p \in Proc \ {Root} : spc[p] \in {"unborn", "serve"}

Turn ==
  /\ spc[Root] \in {"accept", "written", "offered", "accepted"}
  /\ spc[Root] \in {"accept", "written", "accepted"} => Idle
  /\ spc[Root] = "offered" => Posted \/ Taken \/ Freed

(* Each port is given to one process, *)
Ports ==
  /\ spc[Root] # "accept" => /\ next[Root] > 0
                             /\ conn[Root] = next[Root] - 1
                             /\ listenZone = next[Root] - 1
  /\ \A p \in Proc : spc[p] = "serve" =>
       /\ conn[p] \in 0..(next[Root] - 1)
       /\ spc[Root] # "accept" => conn[p] # conn[Root]
  /\ \A p, q \in Proc :
       spc[p] = "serve" /\ spc[q] = "serve" /\ conn[p] = conn[q] => p = q

(* and to one client. *)
Links ==
  /\ \A c \in Client : cpc[c] = "connected" =>
       /\ link[c] \in 0..(next[Root] - 1)
       /\ spc[Root] = "written" \/ (spc[Root] = "offered" /\ ~Freed)
            => link[c] # listenZone
  /\ \A c, d \in Client :
       cpc[c] = "connected" /\ cpc[d] = "connected" /\ link[c] = link[d] => c = d

ShmemParts == NoneReaped /\ OnlyRoot /\ Turn /\ Ports /\ Links
Unbroken == \A c \in Client : cpc[c] # "broken"
ShmemInv == Unbroken /\ (Calm => ShmemParts)

LEMMA ForkShmem ==
  ASSUME TInv, ShmemParts, NEW p \in Proc, Fork(p), UNCHANGED <<clients, shmem>>
  PROVE  ShmemParts'
<1> USE DEF clients, shmem
<1>1. PICK q \in Proc :
        /\ spc[q] = "unborn"
        /\ spc' = [spc EXCEPT ![p] = "accept", ![q] = "serve"]
        /\ conn' = [conn EXCEPT ![q] = conn[p]]
        /\ next' = [next EXCEPT ![q] = next[p]]
        /\ UNCHANGED pending
  BY ForkFacts
<1>2. TypeOK /\ spc[Root] # "unborn" /\ next[Root] \in Nat /\ Root \in Proc
  BY RootIsProc DEF TInv, RootBorn, TypeOK
<1>3. p = Root /\ spc[Root] = "accepted"
  BY ForkFacts DEF ShmemParts, OnlyRoot
<1>4. /\ q # Root /\ spc'[Root] = "accept" /\ spc'[q] = "serve"
      /\ conn'[q] = conn[Root]
      /\ next'[Root] = next[Root]
      /\ \A r \in Proc \ {Root, q} : spc'[r] = spc[r] /\ conn'[r] = conn[r]
  BY <1>1, <1>2, <1>3 DEF TypeOK
<1>5. OnlyRoot' /\ NoneReaped'
  BY <1>1, <1>2, <1>4 DEF ShmemParts, OnlyRoot, NoneReaped
<1>6. Turn'
  BY <1>3, <1>4 DEF ShmemParts, Turn, Idle, Reading
<1>7. Ports'
  BY <1>2, <1>3, <1>4 DEF ShmemParts, Ports
<1>8. Links'
  BY <1>3, <1>4 DEF ShmemParts, Links
<1> QED
  BY <1>5, <1>6, <1>7, <1>8 DEF ShmemParts

LEMMA ProcessShmem ==
  ASSUME TInv, ShmemParts, NEW p \in Proc, ShmemProcess(p)
  PROVE  ShmemParts'
<1> USE DEF clients, shmem, At, Goto
<1>1. TypeOK /\ next[Root] \in Nat /\ Root \in Proc
      /\ listenFree \in Nat /\ listenAvailable \in Nat
  BY RootIsProc DEF TInv, TypeOK
<1>2. ~ShmemReap(p)
  BY DEF ShmemParts, NoneReaped, ShmemReap, Reaped
<1>3. p = Root /\ spc[Root] \in {"accept", "written", "offered"}
  BY <1>2 DEF ShmemProcess, ShmemWrite, ShmemPost, ShmemTaken, ShmemParts, OnlyRoot
<1>4. /\ UNCHANGED <<pending, cpc, link>>
      /\ \A q \in Proc \ {Root} : spc'[q] = spc[q] /\ conn'[q] = conn[q]
      /\ Reading' = Reading
  BY <1>1, <1>2, <1>3
     DEF ShmemProcess, ShmemWrite, ShmemPost, ShmemTaken, TypeOK, Reading
<1>5. OnlyRoot' /\ NoneReaped'
  BY <1>4 DEF ShmemParts, OnlyRoot, NoneReaped
<1>6. CASE ShmemWrite(p)
  <2>1. /\ spc[Root] = "accept" /\ spc'[Root] = "written"
        /\ listenZone' = next[Root] /\ conn'[Root] = next[Root]
        /\ next'[Root] = next[Root] + 1
        /\ UNCHANGED <<listenAvailable, listenFree>>
    BY <1>1, <1>3, <1>6 DEF ShmemWrite, TypeOK
  <2>2. Turn'
    BY <1>4, <2>1 DEF ShmemParts, Turn, Idle
  <2>3. Ports'
    BY <1>1, <1>4, <2>1 DEF ShmemParts, Ports
  <2>4. Links'
    BY <1>1, <1>4, <2>1 DEF ShmemParts, Links
  <2> QED
    BY <1>5, <2>2, <2>3, <2>4 DEF ShmemParts
<1>7. CASE ShmemPost(p)
  <2>1. /\ spc[Root] = "written" /\ spc'[Root] = "offered"
        /\ listenAvailable' = listenAvailable + 1
        /\ UNCHANGED <<conn, next, listenZone, listenFree>>
    BY <1>1, <1>3, <1>7 DEF ShmemPost, TypeOK
  <2>2. Turn'
    BY <1>4, <2>1 DEF ShmemParts, Turn, Idle, Posted
  <2>3. Ports'
    BY <1>1, <1>4, <2>1 DEF ShmemParts, Ports
  <2>4. Links'
    BY <1>1, <1>4, <2>1 DEF ShmemParts, Links
  <2> QED
    BY <1>5, <2>2, <2>3, <2>4 DEF ShmemParts
<1>8. CASE ShmemTaken(p)
  <2>1. /\ spc[Root] = "offered" /\ spc'[Root] = "accepted"
        /\ listenFree > 0 /\ listenFree' = listenFree - 1
        /\ UNCHANGED <<conn, next, listenZone, listenAvailable>>
    BY <1>1, <1>3, <1>8 DEF ShmemTaken, TypeOK
  <2>2. Freed
    BY <1>1, <2>1 DEF ShmemParts, Turn, Posted, Taken
  <2>3. Turn'
    BY <1>4, <2>1, <2>2 DEF Turn, Idle, Freed
  <2>4. Ports'
    BY <1>1, <1>4, <2>1 DEF ShmemParts, Ports
  <2>5. Links'
    BY <1>1, <1>4, <2>1 DEF ShmemParts, Links
  <2> QED
    BY <1>5, <2>3, <2>4, <2>5 DEF ShmemParts
<1> QED
  BY <1>2, <1>6, <1>7, <1>8 DEF ShmemProcess

LEMMA ClientShmem ==
  ASSUME TInv, ShmemParts, NEW c \in Client, ShmemRead(c) \/ ShmemAsk(c)
  PROVE  ShmemParts'
<1> USE DEF family, Becomes
<1>1. TypeOK /\ next[Root] \in Nat
      /\ listenFree \in Nat /\ listenAvailable \in Nat
  BY RootIsProc DEF TInv, TypeOK
<1>2. /\ UNCHANGED <<spc, conn, next, pending, listenZone>>
      /\ \A d \in Client \ {c} : cpc'[d] = cpc[d] /\ link'[d] = link[d]
  BY <1>1 DEF ShmemRead, ShmemAsk, TypeOK
<1>3. OnlyRoot' /\ NoneReaped' /\ Ports'
  BY <1>2 DEF ShmemParts, OnlyRoot, NoneReaped, Ports
<1>4. CASE ShmemRead(c)
  <2>1. /\ cpc[c] = "reading" /\ cpc'[c] = "connected"
        /\ link'[c] = listenZone /\ listenFree' = listenFree + 1
        /\ UNCHANGED listenAvailable
    BY <1>1, <1>4 DEF ShmemRead, TypeOK
  <2>2. c \in Reading
    BY <2>1 DEF Reading
  <2>3. spc[Root] = "offered" /\ Taken /\ Reading = {c}
    BY <2>2 DEF ShmemParts, Turn, Idle, Posted, Freed, Taken
  <2>4. Reading' = {}
    BY <1>2, <2>1, <2>3 DEF Reading
  <2>5. Freed'
    BY <2>1, <2>3, <2>4 DEF Freed, Taken
  <2>6. Turn'
    BY <1>2, <2>3, <2>5 DEF Turn
  <2>7. listenZone \in 0..(next[Root] - 1)
    BY <1>1, <2>3 DEF ShmemParts, Ports
  <2>8. \A d \in Client \ {c} : cpc[d] = "connected" => link[d] # listenZone
    BY <2>3 DEF ShmemParts, Links, Taken, Freed
  <2>9. Links'
    BY <1>2, <2>1, <2>3, <2>5, <2>7, <2>8 DEF ShmemParts, Links
  <2> QED
    BY <1>3, <2>6, <2>9 DEF ShmemParts
<1>5. CASE ShmemAsk(c)
  <2>1. /\ cpc[c] = "out" /\ cpc'[c] # "connected" /\ link' = link
        /\ \/ cpc'[c] = "failed" /\ UNCHANGED listenAvailable
           \/ /\ cpc'[c] = "reading" /\ listenAvailable # 0
              /\ listenAvailable' = listenAvailable - 1
        /\ UNCHANGED listenFree
    BY <1>1, <1>5 DEF ShmemAsk, TypeOK
  <2>2. CASE cpc'[c] = "failed"
    <3>1. Reading' = Reading
      BY <1>2, <2>1, <2>2 DEF Reading
    <3>2. Turn'
      BY <1>2, <2>1, <2>2, <3>1 DEF ShmemParts, Turn, Idle, Posted, Taken, Freed
    <3>3. Links'
      BY <1>2, <2>1, <2>2, <3>1 DEF ShmemParts, Links, Freed
    <3> QED
      BY <1>3, <3>2, <3>3 DEF ShmemParts
  <2>3. CASE cpc'[c] = "reading"
    <3>1. Reading' = Reading \cup {c}
      BY <1>2, <2>1, <2>3 DEF Reading
    <3>2. spc[Root] = "offered" /\ Posted
      BY <2>1, <2>3 DEF ShmemParts, Turn, Idle, Taken, Freed
    <3>3. Taken'
      BY <2>1, <2>3, <3>1, <3>2 DEF Posted, Taken
    <3>4. Turn'
      BY <1>2, <3>2, <3>3 DEF Turn
    <3>5. Links'
      BY <1>2, <2>1, <2>3, <3>2 DEF ShmemParts, Links, Posted, Freed
    <3> QED
      BY <1>3, <3>4, <3>5 DEF ShmemParts
  <2> QED
    BY <2>1, <2>2, <2>3
<1> QED
  BY <1>4, <1>5

LEMMA StepShmem ==
  ASSUME TInv, ShmemInv,
         \/ \E p \in Proc : ShmemProcess(p)
         \/ \E c \in Client : ShmemRead(c) \/ ShmemAsk(c)
  PROVE  ShmemInv'
<1>1. Unbroken' /\ (Calm' => Calm)
  <2>1. CASE \E p \in Proc : ShmemProcess(p)
    BY <2>1 DEF ShmemInv, Unbroken, Calm, ShmemProcess, ShmemWrite, ShmemPost,
       ShmemTaken, ShmemReap, clients
  <2>2. ASSUME NEW c \in Client, ShmemRead(c) \/ ShmemAsk(c)
        PROVE  Unbroken' /\ (Calm' => Calm)
    BY <2>2 DEF ShmemInv, Unbroken, Calm, ShmemRead, ShmemAsk, Becomes, TInv, TypeOK
  <2> QED
    BY <2>1, <2>2
<1> QED
  BY <1>1, ProcessShmem, ClientShmem DEF ShmemInv

LEMMA OthersShmem ==
  ASSUME TInv, ShmemInv, Others
  PROVE  ShmemInv'
<1>1. TypeOK /\ faults \in Nat
  BY DEF TInv, TypeOK
<1>2. ASSUME NEW c \in Client, NEW p \in Proc, Leave(c, p)
      PROVE  Unbroken' /\ ~Calm'
  BY <1>1, <1>2 DEF Leave, Becomes, ShmemInv, Unbroken, Calm, TypeOK
<1>3. ASSUME NEW p \in Proc, Die(p) PROVE Unbroken' /\ ~Calm'
  BY <1>1, <1>3 DEF Die, ShmemInv, Unbroken, Calm, clients
<1>4. ASSUME NEW c \in Client, GiveUp(c) PROVE Unbroken' /\ ~Calm'
  BY <1>1, <1>4 DEF GiveUp, Becomes, ShmemInv, Unbroken, Calm, TypeOK
<1> QED
  BY <1>2, <1>3, <1>4 DEF Others, ShmemInv

LEMMA ShmemOneToOne ==
  ASSUME TInv, ShmemParts, NEW c \in Client, cpc[c] = "connected"
  PROVE  /\ \A p, q \in Serving(link[c]) : p = q
         /\ \A d \in Client \ {c} : cpc[d] = "connected" => link[d] # link[c]
<1>1. ASSUME NEW p \in Serving(link[c]), NEW q \in Serving(link[c]) PROVE p = q
  <2>1. /\ p \in Proc /\ q \in Proc /\ conn[p] = conn[q]
        /\ spc[p] = "serve" \/ (p = Root /\ spc[Root] = "accepted")
        /\ spc[q] = "serve" \/ (q = Root /\ spc[Root] = "accepted")
    BY DEF Serving, ShmemParts, OnlyRoot, Turn
  <2> QED
    BY <2>1 DEF ShmemParts, Ports
<1>2. \A d \in Client \ {c} : cpc[d] = "connected" => link[d] # link[c]
  BY DEF ShmemParts, Links
<1> QED
  BY <1>1, <1>2

-----------------------------------------------------------------------------
(* Theorems                                                                *)

IInv ==
  /\ TInv
  /\ backend = "shmem" => ShmemInv
  /\ backend = "queue" => QueueInv
  /\ backend = "fifo" => FifoInv

LEMMA InitIInv == Init => IInv
<1> SUFFICES ASSUME Init PROVE IInv
  OBVIOUS
<1> USE DEF Init, FamilyInit, ShmemInit, QueueInit, FifoInit
<1>1. TInv
  BY InitTypes
<1>2. ShmemInv
  BY RootIsProc DEF ShmemInv, Unbroken, ShmemParts, NoneReaped, OnlyRoot, Turn,
     Idle, Reading, Ports, Links
<1>3. QueueInv
  <2>1. Held = {} /\ Received = {} /\ Sent = {}
    BY DEF Held, Received, Sent
  <2> QED
    BY <2>1, FS_EmptySet DEF QueueInv, QueueParts, NoneReaped, QueueHeld, Unique,
       QueueClients, Outstanding
<1>4. FifoInv
  <2>1. Held = {}
    BY DEF Held
  <2> QED
    BY <2>1 DEF FifoInv, FifoHeld, FifoClients, Unique
<1> QED
  BY <1>1, <1>2, <1>3, <1>4 DEF IInv

LEMMA NextIInv == IInv /\ [Next]_vars => IInv'
<1> SUFFICES ASSUME IInv, [Next]_vars PROVE IInv'
  OBVIOUS
<1>1. TInv /\ TInv'
  BY NextTypes DEF IInv
<1>2. UNCHANGED backend
  BY DEF Next, Process, Connect, Ask, Others, vars
<1>3. ASSUME UNCHANGED vars PROVE IInv'
  <2> USE DEF vars, family, clients, shmem, queue, fifo
  <2>1. backend = "shmem" => ShmemInv'
    BY <1>3 DEF IInv, ShmemInv, Unbroken, Calm, ShmemParts, NoneReaped,
       OnlyRoot, Turn, Idle, Posted, Taken, Freed, Reading, Ports, Links
  <2>2. backend = "queue" => QueueInv'
    BY <1>3 DEF IInv, QueueInv, QueueParts, NoneReaped, QueueHeld, Unique, Held,
       QueueClients, Outstanding, Sent, Received
  <2>3. backend = "fifo" => FifoInv'
    BY <1>3 DEF IInv, FifoInv, FifoHeld, FifoClients, Unique, Held, Early
  <2> QED
    BY <1>1, <1>2, <2>1, <2>2, <2>3 DEF IInv
<1>4. ASSUME NEW p \in Proc, Fork(p),
             UNCHANGED <<backend, clients, faults, shmem, queue, fifo>>
      PROVE  IInv'
  <2>1. backend = "shmem" => ShmemInv'
    BY <1>1, <1>4, ForkShmem DEF IInv, ShmemInv, Unbroken, Calm, clients
  <2>2. backend = "queue" => QueueInv'
    BY <1>1, <1>4, ForkQueue DEF IInv, QueueInv
  <2>3. backend = "fifo" => FifoInv'
    BY <1>1, <1>4, ForkFifo DEF IInv
  <2> QED
    BY <1>1, <1>2, <2>1, <2>2, <2>3 DEF IInv
<1>5. CASE Others
  BY <1>1, <1>2, <1>5, OthersShmem, OthersQueue, OthersFifo DEF IInv
<1>6. ASSUME NEW p \in Proc, Process(p) PROVE IInv'
  BY <1>1, <1>2, <1>4, <1>6, StepShmem, StepQueue, ProcessFifo DEF Process, IInv
<1>7. ASSUME NEW c \in Client, Connect(c) \/ Ask(c) PROVE IInv'
  BY <1>1, <1>2, <1>7, StepShmem, StepQueue, ClientFifo DEF Connect, Ask, IInv
<1> QED
  BY <1>3, <1>5, <1>6, <1>7 DEF Next

LEMMA Inductive == Spec => []IInv
BY InitIInv, NextIInv, PTL DEF Spec

(* Whatever the transport, and whoever is killed: no more numbers than the *)
(* queues hold, and no connection but of a kind that the transport makes.  *)
THEOREM TypeCorrect == Spec => []TypeOK
<1>1. IInv => TypeOK
  BY DEF IInv, TInv
<1> QED
  BY <1>1, Inductive, PTL

(* However many clients ask, at whatever moments, and however many         *)
(* processes accept them: two clients do not share a connection, nor two   *)
(* processes, over FIFOs in any case, over queues while nobody is killed,  *)
(* over shared memory while one process accepts.                           *)
THEOREM ClientsHaveTheirOwn == Spec => []OneToOne
<1>1. IInv => OneToOne
  <2> SUFFICES ASSUME IInv, Undisturbed, NEW c \in Client, cpc[c] = "connected"
               PROVE  /\ Cardinality(Serving(link[c])) <= 1
                      /\ \A d \in Client \ {c} :
                           cpc[d] = "connected" => link[d] # link[c]
    BY DEF OneToOne
  <2>1. backend \in Backend
    BY DEF IInv, TInv, TypeOK
  <2>2. /\ \A p, q \in Serving(link[c]) : p = q
        /\ \A d \in Client \ {c} : cpc[d] = "connected" => link[d] # link[c]
    <3>1. CASE backend = "shmem"
      BY <3>1, ShmemOneToOne DEF IInv, ShmemInv, Undisturbed
    <3>2. CASE backend = "queue"
      BY <3>2, QueueOneToOne DEF IInv, QueueInv, Undisturbed
    <3>3. CASE backend = "fifo"
      BY <3>3, FifoOneToOne DEF IInv
    <3> QED
      BY <2>1, <3>1, <3>2, <3>3 DEF Backend
  <2>3. Serving(link[c]) = {} \/ \E p : Serving(link[c]) = {p}
    BY <2>2
  <2>4. Cardinality(Serving(link[c])) <= 1
    <3>1. CASE Serving(link[c]) = {}
      BY <3>1, FS_EmptySet
    <3>2. ASSUME NEW p, Serving(link[c]) = {p}
          PROVE  Cardinality(Serving(link[c])) <= 1
      <4>1. Cardinality({p}) = 1
        BY FS_Singleton
      <4> QED
        BY <3>2, <4>1
    <3> QED
      BY <2>3, <3>1, <3>2
  <2> QED
    BY <2>2, <2>4
<1> QED
  BY <1>1, Inductive, PTL

(* A client that was the only one to ask, from its question to its answer, *)
(* reads an answer that is its own, although nothing in it says so.        *)
THEOREM RivalsAreNeeded == Spec => []OnlyRivalsBreak
<1>1. IInv => OnlyRivalsBreak
  <2> SUFFICES ASSUME IInv, faults = 0, NEW c \in Client, cpc[c] = "broken"
               PROVE  c \notin alone
    BY DEF OnlyRivalsBreak
  <2>1. backend \in Backend
    BY DEF IInv, TInv, TypeOK
  <2>2. backend # "shmem" /\ backend # "fifo"
    BY DEF IInv, ShmemInv, Unbroken, FifoInv, FifoClients
  <2> QED
    BY <2>1, <2>2 DEF Backend, IInv, QueueInv, QueueParts, QueueClients
<1> QED
  BY <1>1, Inductive, PTL

=============================================================================
