----------------------------- MODULE RingProofs -----------------------------
(***************************************************************************)
(* The ring of the shared memory transport, for any number of bytes and    *)
(* any size: it never holds more bytes than it has places, and it          *)
(* implements a pipe, whatever calls are cut short.                        *)
(***************************************************************************)
EXTENDS Ring, ZoneProofs

RInv == TypeOK /\ Credits /\ Distance

-----------------------------------------------------------------------------
(* The inductive invariant *)

LEMMA PendingFacts ==
  ASSUME TypeOK, Credits
  PROVE  Pending \in 0..ZONE_SIZE
BY ZoneAssumption DEF TypeOK, Credits, Pending, One

LEMMA InitInv == Init => RInv
<1> SUFFICES ASSUME Init PROVE RInv
  OBVIOUS
<1>1. TypeOK
  BY ZoneAssumption DEF Init, TypeOK, Index
<1>2. Credits
  BY ZoneAssumption DEF Init, Credits, One
<1>3. Distance
  <2>1. Pending = 0 /\ rd = 0 /\ wr = 0
    BY DEF Init, Pending, One
  <2>2. 0 \in Index /\ 0 \in 0..ZONE_SIZE
    BY ZoneAssumption DEF Index
  <2>3. (0 + 0) % ZONE_SIZE = 0
    BY <2>2, WrapOf, ZoneAssumption DEF Index, Place
  <2>4. QED
    BY <2>1, <2>3 DEF Distance
<1>4. QED
  BY <1>1, <1>2, <1>3 DEF RInv

(* The steps that leave both indices alone leave the pending bytes, too.   *)
LEMMA PendingStays ==
  ASSUME TypeOK, SendWait \/ SendPost \/ CutSend \/ RecvWait \/ RecvPost \/ CutRecv
  PROVE  Pending' = Pending /\ rd' = rd /\ wr' = wr /\ zone' = zone
<1>1. CASE SendWait
  BY <1>1 DEF TypeOK, Pending, One, SendWait, reader
<1>2. CASE SendPost
  BY <1>2 DEF TypeOK, Pending, One, SendPost, reader
<1>3. CASE CutSend
  BY <1>3 DEF TypeOK, Pending, One, CutSend, reader
<1>4. CASE RecvWait
  BY <1>4 DEF TypeOK, Pending, One, RecvWait, writer
<1>5. CASE RecvPost
  BY <1>5 DEF TypeOK, Pending, One, RecvPost, writer
<1>6. CASE CutRecv
  BY <1>6 DEF TypeOK, Pending, One, CutRecv, writer
<1>7. QED
  BY <1>1, <1>2, <1>3, <1>4, <1>5, <1>6

LEMMA SendInv == ASSUME RInv, NEW m \in Seq(Byte), Send(m) PROVE RInv'
<1>1. TypeOK'
  BY DEF RInv, TypeOK, Send, reader
<1>2. Credits' /\ Distance'
  BY DEF RInv, Credits, Distance, Pending, One, Send, reader
<1>3. QED
  BY <1>1, <1>2 DEF RInv

LEMMA RecvInv == ASSUME RInv, NEW n \in Nat, Recv(n) PROVE RInv'
<1>1. TypeOK'
  BY DEF RInv, TypeOK, Recv, writer
<1>2. Credits' /\ Distance'
  BY DEF RInv, Credits, Distance, Pending, One, Recv, writer
<1>3. QED
  BY <1>1, <1>2 DEF RInv

LEMMA QuietInv ==
  ASSUME RInv, SendWait \/ SendPost \/ CutSend \/ RecvWait \/ RecvPost \/ CutRecv
  PROVE  RInv'
<1>1. TypeOK'
  <2>1. CASE SendWait
    BY <2>1 DEF RInv, TypeOK, One, SendWait, reader
  <2>2. CASE SendPost
    BY <2>2 DEF RInv, TypeOK, One, SendPost, reader
  <2>3. CASE CutSend
    BY <2>3 DEF RInv, TypeOK, One, CutSend, reader
  <2>4. CASE RecvWait
    BY <2>4 DEF RInv, TypeOK, One, RecvWait, writer
  <2>5. CASE RecvPost
    BY <2>5 DEF RInv, TypeOK, One, RecvPost, writer
  <2>6. CASE CutRecv
    BY <2>6 DEF RInv, TypeOK, One, CutRecv, writer
  <2>7. QED
    BY <2>1, <2>2, <2>3, <2>4, <2>5, <2>6
<1>2. Credits'
  <2>1. CASE SendWait
    BY <2>1 DEF RInv, TypeOK, Credits, One, SendWait, reader
  <2>2. CASE SendPost
    BY <2>2 DEF RInv, TypeOK, Credits, One, SendPost, reader
  <2>3. CASE CutSend
    <3>1. CASE wpc = "post"
      <4>1. drift' = drift + 1 /\ wpc' = "idle" /\ wpc \in {"store", "post"}
        BY <2>3, <3>1 DEF CutSend, One
      <4>2. QED
        BY <2>3, <4>1 DEF RInv, TypeOK, Credits, One, CutSend, reader
    <3>2. CASE wpc # "post"
      <4>1. drift' = drift /\ wpc' = "idle"
        BY <2>3, <3>2 DEF RInv, TypeOK, CutSend, One
      <4>2. available' = available /\ free' = free /\ rpc' = rpc
        BY <2>3 DEF CutSend, reader
      <4>3. QED
        BY <4>1, <4>2, ZoneAssumption DEF RInv, TypeOK, Credits, One
    <3>3. QED
      BY <3>1, <3>2
  <2>4. CASE RecvWait
    BY <2>4 DEF RInv, TypeOK, Credits, One, RecvWait, writer
  <2>5. CASE RecvPost
    BY <2>5 DEF RInv, TypeOK, Credits, One, RecvPost, writer
  <2>6. CASE CutRecv
    <3>1. CASE rpc = "load"
      <4>1. drift' = drift + 1 /\ rpc' = "idle" /\ rpc \in {"load", "post"}
        BY <2>6, <3>1 DEF CutRecv, One
      <4>2. QED
        BY <2>6, <4>1 DEF RInv, TypeOK, Credits, One, CutRecv, writer
    <3>2. CASE rpc # "load"
      <4>1. drift' = drift /\ rpc' = "idle"
        BY <2>6, <3>2 DEF RInv, TypeOK, CutRecv, One
      <4>2. available' = available /\ free' = free /\ wpc' = wpc
        BY <2>6 DEF CutRecv, writer
      <4>3. QED
        BY <4>1, <4>2, ZoneAssumption DEF RInv, TypeOK, Credits, One
    <3>3. QED
      BY <3>1, <3>2
  <2>7. QED
    BY <2>1, <2>2, <2>3, <2>4, <2>5, <2>6
<1>3. Distance'
  BY PendingStays DEF RInv, Distance
<1>4. QED
  BY <1>1, <1>2, <1>3 DEF RInv

(* A byte is stored: the writer holds a credit, so there is a place.       *)
LEMMA StoreFacts ==
  ASSUME RInv, SendStore
  PROVE  /\ Pending \in 0..(ZONE_SIZE - 1)
         /\ Pending' = Pending + 1
         /\ rd' = rd
         /\ wr' = (wr + 1) % ZONE_SIZE
<1>1. Pending \in 0..(ZONE_SIZE - 1)
  BY ZoneAssumption DEF RInv, TypeOK, Credits, Pending, One, SendStore
<1>2. Pending' = Pending + 1
  BY DEF RInv, TypeOK, Pending, One, SendStore, reader
<1>3. QED
  BY <1>1, <1>2 DEF SendStore, reader

LEMMA StoreInv == ASSUME RInv, SendStore PROVE RInv'
<1>1. TypeOK'
  <2>1. wr' \in Index
    BY WrapIsIndex DEF RInv, TypeOK, SendStore, Index, Place
  <2>2. zone' \in [Index -> Byte]
    BY DEF RInv, TypeOK, SendStore
  <2>3. QED
    BY <2>1, <2>2 DEF RInv, TypeOK, SendStore, reader
<1>2. Credits'
  BY DEF RInv, TypeOK, Credits, One, SendStore, reader
<1>3. Distance'
  BY StoreFacts, WrapAdvance DEF RInv, TypeOK, Distance, Index, Place
<1>4. QED
  BY <1>1, <1>2, <1>3 DEF RInv

(* A byte is loaded: the reader holds a credit, so there is one.           *)
LEMMA LoadFacts ==
  ASSUME RInv, RecvLoad
  PROVE  /\ Pending - 1 \in 0..(ZONE_SIZE - 1)
         /\ Pending' = Pending - 1
         /\ wr' = wr
         /\ zone' = zone
         /\ rd' = (rd + 1) % ZONE_SIZE
<1>1. Pending - 1 \in 0..(ZONE_SIZE - 1)
  BY ZoneAssumption DEF RInv, TypeOK, Credits, Pending, One, RecvLoad
<1>2. Pending' = Pending - 1
  BY DEF RInv, TypeOK, Pending, One, RecvLoad, writer
<1>3. QED
  BY <1>1, <1>2 DEF RecvLoad, writer

LEMMA LoadInv == ASSUME RInv, RecvLoad PROVE RInv'
<1>1. TypeOK'
  <2>1. rd' \in Index
    BY WrapIsIndex DEF RInv, TypeOK, RecvLoad, Index, Place
  <2>2. in' \in Seq(Byte)
    BY DEF RInv, TypeOK, RecvLoad
  <2>3. QED
    BY <2>1, <2>2 DEF RInv, TypeOK, RecvLoad, writer
<1>2. Credits'
  BY DEF RInv, TypeOK, Credits, One, RecvLoad, writer
<1>3. Distance'
  <2> DEFINE n == Pending - 1
  <2>1. n \in 0..(ZONE_SIZE - 1) /\ Pending = n + 1 /\ Pending' = n
    <3>1. Pending \in Int
      BY PendingFacts, ZoneAssumption DEF RInv
    <3>2. QED
      BY <3>1, LoadFacts
  <2> HIDE DEF n
  <2>2. wr = (rd + (n + 1)) % ZONE_SIZE
    BY <2>1 DEF RInv, Distance
  <2>3. (((rd + 1) % ZONE_SIZE) + n) % ZONE_SIZE = (rd + (n + 1)) % ZONE_SIZE
    BY <2>1, WrapConsume DEF RInv, TypeOK, Index, Place
  <2>4. QED
    BY <2>1, <2>2, <2>3, LoadFacts DEF Distance
<1>4. QED
  BY <1>1, <1>2, <1>3 DEF RInv

LEMMA NextInv == RInv /\ [Next]_vars => RInv'
<1> SUFFICES ASSUME RInv, [Next]_vars PROVE RInv'
  OBVIOUS
<1>1. ASSUME NEW m \in Seq(Byte), Send(m) PROVE RInv'
  BY <1>1, SendInv
<1>2. ASSUME NEW n \in Nat, Recv(n) PROVE RInv'
  BY <1>2, RecvInv
<1>3. CASE SendWait \/ SendPost \/ CutSend \/ RecvWait \/ RecvPost \/ CutRecv
  BY <1>3, QuietInv
<1>4. CASE SendStore
  BY <1>4, StoreInv
<1>5. CASE RecvLoad
  BY <1>5, LoadInv
<1>6. CASE UNCHANGED vars
  BY <1>6 DEF vars, writer, reader, RInv, TypeOK, Credits, Distance, Pending, One
<1>7. QED
  BY <1>1, <1>2, <1>3, <1>4, <1>5, <1>6 DEF Next, Sending, Receiving

LEMMA Invariance == Spec => []RInv
BY InitInv, NextInv, PTL DEF Spec

(* Types: indices stay in the zone, and the semaphores never go below      *)
(* zero.                                                                   *)
THEOREM TypeCorrect == Spec => []TypeOK
<1>1. RInv => TypeOK
  BY DEF RInv
<1>2. QED
  BY <1>1, Invariance, PTL

(* The semaphores of shmem.c:181 and :212 never let the writer into a byte *)
(* that was not read, in whatever step a call is cut short.                *)
THEOREM CreditsAreKept == Spec => []Credits
<1>1. RInv => Credits
  BY DEF RInv
<1>2. QED
  BY <1>1, Invariance, PTL

-----------------------------------------------------------------------------
(* The ring implements the pipe *)

(* A step that moves neither the indices nor the bytes.                    *)
LEMMA ContentsStay ==
  ASSUME Pending' = Pending, rd' = rd, zone' = zone
  PROVE  Contents' = Contents
BY DEF Contents

LEMMA ContentsAreHeld == Contents = Held(zone, rd, Pending)
BY DEF Contents, Held

LEMMA StorePuts == ASSUME RInv, SendStore PROVE P!Put
<1>1. /\ zone \in [Place -> Byte] /\ rd \in Place /\ Pending \in 0..(ZONE_SIZE - 1)
      /\ wr = (rd + Pending) % ZONE_SIZE /\ zone' = [zone EXCEPT ![wr] = Head(out)]
      /\ rd' = rd /\ Pending' = Pending + 1
  BY StoreFacts DEF RInv, TypeOK, Distance, SendStore, Index, Place
<1>2. Head(out) \in Byte /\ out # << >>
  BY HeadTailProperties DEF RInv, TypeOK, SendStore
<1>3. Contents' = Held(zone', rd', Pending')
  BY DEF Contents, Held
<1>4. Contents' = Append(Contents, Head(out))
  BY <1>1, <1>2, <1>3, ContentsAreHeld, StoredBehind
<1>5. Pending \in 0..ZONE_SIZE
  BY <1>1, ZoneAssumption
<1>6. Len(Contents) < ZONE_SIZE
  BY <1>1, <1>5, ContentsAreHeld, HeldFacts, ZoneAssumption
<1>7. QED
  BY <1>2, <1>4, <1>6 DEF P!Put, SendStore, reader

LEMMA LoadGets == ASSUME RInv, RecvLoad PROVE P!Get
<1> DEFINE n == Pending - 1
<1>1. Pending \in Int
  BY PendingFacts, ZoneAssumption DEF RInv
<1>2. n \in 0..(ZONE_SIZE - 1) /\ Pending = n + 1 /\ Pending' = n
  BY <1>1, LoadFacts
<1>3. zone \in [Place -> Byte] /\ rd \in Place
  BY DEF RInv, TypeOK, Index, Place
<1>4. zone' = zone /\ rd' = (rd + 1) % ZONE_SIZE
  BY DEF RecvLoad
<1>5. Contents' = Held(zone', rd', Pending')
  BY DEF Contents, Held
<1> HIDE DEF n
<1>6. /\ Contents # << >> /\ Head(Contents) = zone[rd] /\ Contents' = Tail(Contents)
  BY <1>2, <1>3, <1>4, <1>5, ContentsAreHeld, LoadedFirst
<1>7. QED
  BY <1>6 DEF P!Get, RecvLoad, writer

LEMMA PipeInit == Init => P!Init
<1> SUFFICES ASSUME Init PROVE P!Init
  OBVIOUS
<1>1. RInv /\ Pending = 0
  BY InitInv DEF Init, Pending, One
<1>2. Contents = << >>
  BY <1>1, ContentsAreHeld, NothingHeld DEF RInv, TypeOK, Index, Place
<1>3. QED
  BY <1>2 DEF Init, P!Init

LEMMA PipeNext == RInv /\ [Next]_vars => [P!Next]_P!vars
<1> SUFFICES ASSUME RInv, [Next]_vars PROVE [P!Next]_P!vars
  OBVIOUS
<1>1. ASSUME NEW m \in Seq(Byte), Send(m) PROVE P!Send
  <2>1. Pending' = Pending /\ rd' = rd /\ zone' = zone
    BY <1>1 DEF RInv, TypeOK, Pending, One, Send, reader
  <2>2. QED
    BY <1>1, <2>1, ContentsStay DEF P!Send, Send, reader
<1>2. ASSUME NEW n \in Nat, Recv(n) PROVE P!Recv
  <2>1. Pending' = Pending /\ rd' = rd /\ zone' = zone
    BY <1>2 DEF RInv, TypeOK, Pending, One, Recv, writer
  <2>2. QED
    BY <1>2, <2>1, ContentsStay DEF P!Recv, Recv, writer
<1>3. CASE SendWait \/ SendPost \/ RecvWait \/ RecvPost \/ CutRecv
  <2>1. Contents' = Contents
    BY <1>3, PendingStays, ContentsStay DEF RInv
  <2>2. out' = out /\ in' = in
    BY <1>3 DEF SendWait, SendPost, RecvWait, RecvPost, CutRecv, reader, writer
  <2>3. QED
    BY <2>1, <2>2 DEF P!vars
<1>4. CASE CutSend
  <2>1. Contents' = Contents
    BY <1>4, PendingStays, ContentsStay DEF RInv
  <2>2. QED
    BY <1>4, <2>1 DEF P!Next, P!GiveUp, CutSend, reader
<1>5. CASE SendStore
  BY <1>5, StorePuts DEF P!Next
<1>6. CASE RecvLoad
  BY <1>6, LoadGets DEF P!Next
<1>7. CASE UNCHANGED vars
  BY <1>7 DEF vars, writer, reader, P!vars, Contents, Pending, One
<1>8. QED
  BY <1>1, <1>2, <1>3, <1>4, <1>5, <1>6, <1>7 DEF Next, Sending, Receiving, P!Next

(* transport_send and transport_recv of shmem.c implement a pipe: bytes are *)
(* read in the order in which they were sent, each once, for every size of  *)
(* the zone, whatever calls a signal or a kill cuts short.                  *)
THEOREM RingIsAPipe == Spec => ImplementsPipe
<1>1. RInv /\ Init => P!Init
  BY PipeInit
<1>2. QED
  BY PipeInit, PipeNext, Invariance, PTL DEF Spec, ImplementsPipe, P!Spec

=============================================================================
