---------------------------- MODULE ShmemProofs ----------------------------
(***************************************************************************)
(* Two rings of shared memory between a client and its server process, for *)
(* any size of the zone, of a header and of a message, any number of calls *)
(* and of sessions, and whatever is interrupted or killed: the semaphores, *)
(* which no session resets, never let a byte be stored over another; in a  *)
(* session in which every call is finished, nothing is left behind and     *)
(* every answer is read by the call that it is for.                        *)
(***************************************************************************)
EXTENDS ShmemSession, ZoneProofs

(* A ring, and what the bytes in it and at its ends are. *)
CliRing ==
  /\ ToSrv!TypeOK /\ ToSrv!Credits
  /\ zone_cli \in [ToSrv!Index -> Bytes]
  /\ out_cli \in Seq(Bytes) /\ in_cli \in Seq(Bytes)
  /\ rpc_cli = "post" => in_cli # << >>
SrvRing ==
  /\ ToCli!TypeOK /\ ToCli!Credits
  /\ zone_srv \in [ToCli!Index -> Bytes]
  /\ out_srv \in Seq(Bytes) /\ in_srv \in Seq(Bytes)
  /\ rpc_srv = "post" => in_srv # << >>

(* The two ends.  What was waited for is there when it is looked at, and   *)
(* a session says good-bye once.                                           *)
Ends ==
  /\ cpc \in {"idle", "send", "header", "records", "handler", "left", "killed"}
  /\ leaving \in BOOLEAN
  /\ cpc = "header" /\ rpc_srv = "idle" => in_srv # << >>
  /\ cpc = "records" => records = 1
  /\ cpc = "handler" => leaving
  /\ spc \in {"recv", "reading", "writing", "closed", "killed"}
  /\ spc = "reading" /\ rpc_cli = "idle" => in_cli # << >>
  /\ req \in Bytes
  /\ records \in 0..1 /\ unsent \in 0..1
  /\ res \in 0..MaxId
  /\ session \in 1..MaxSessions
  /\ faults \in 0..MaxFaults
  /\ orderly \in BOOLEAN

Said == leaving /\ cpc # "handler"
Counted ==
  /\ calls \in Nat
  /\ calls <= MaxCalls + session
  /\ ~Said => calls <= MaxCalls + session - 1

SInv == CliRing /\ SrvRing /\ Ends /\ Counted

-----------------------------------------------------------------------------
(* Bytes *)

LEMMA Sizes ==
  /\ ZONE_SIZE \in Nat \ {0} /\ HDR \in Nat \ {0} /\ MSG \in Nat \ {0}
  /\ MaxCalls \in Nat /\ MaxFaults \in Nat /\ MaxSessions \in Nat \ {0}
  /\ MaxId \in Nat
BY ZoneAssumption, SessionAssumption DEF MaxId

LEMMA RestIsByte == Rest \in Bytes
BY DEF Bytes

LEMMA ByteFacts ==
  ASSUME NEW b \in Bytes
  PROVE  b \in Byte /\ b[2] \in 0..MaxId
<1>1. b \in Byte
  BY ByteAssumption
<1>2. b \in Kinds \X (0..MaxId) => b[2] \in 0..MaxId
  OBVIOUS
<1>3. b = Rest => b[2] \in 0..MaxId
  BY Sizes DEF Rest
<1>4. QED
  BY <1>1, <1>2, <1>3 DEF Bytes

LEMMA SeqOfBytes == Seq(Bytes) \subseteq Seq(Byte)
<1> SUFFICES ASSUME NEW s \in Seq(Bytes) PROVE s \in Seq(Byte)
  OBVIOUS
<1>1. \A i \in 1..Len(s) : s[i] \in Byte
  BY ByteAssumption
<1>2. QED
  BY <1>1

LEMMA MessageIsBytes ==
  ASSUME NEW kind \in Kinds, NEW id \in 0..MaxId, NEW n \in Nat \ {0}
  PROVE  Message(kind, id, n) \in Seq(Bytes)
<1>1. <<kind, id>> \in Bytes
  BY DEF Bytes
<1>2. <<<<kind, id>>>> \in Seq(Bytes)
  BY <1>1
<1>3. [i \in 1..(n - 1) |-> Rest] \in Seq(Bytes)
  BY RestIsByte
<1>4. QED
  BY <1>2, <1>3 DEF Message

-----------------------------------------------------------------------------
(* A step of a ring *)

LEMMA ToSrvTypeSteps ==
  ASSUME CliRing,
         \/ \E m \in Seq(Bytes) : ToSrv!Send(m)
         \/ \E n \in Nat : ToSrv!Recv(n)
         \/ ToSrv!Sending \/ ToSrv!Receiving \/ ToSrv!CutSend \/ ToSrv!CutRecv
  PROVE  /\ ToSrv!TypeOK'
         /\ zone_cli' \in [ToSrv!Index -> Bytes]
         /\ out_cli' \in Seq(Bytes) /\ in_cli' \in Seq(Bytes)
         /\ rpc_cli' = "post" => in_cli' # << >>
<1>1. /\ ToSrv!TypeOK
      /\ zone_cli \in [ToSrv!Index -> Bytes] /\ out_cli \in Seq(Bytes) /\ in_cli \in Seq(Bytes)
      /\ rpc_cli = "post" => in_cli # << >>
  BY DEF CliRing
<1>2. ASSUME NEW m \in Seq(Bytes), ToSrv!Send(m)
      PROVE  /\ ToSrv!TypeOK' /\ zone_cli' = zone_cli /\ out_cli' = m
             /\ in_cli' = in_cli /\ rpc_cli' = rpc_cli
  BY <1>1, <1>2, SeqOfBytes DEF ToSrv!TypeOK, ToSrv!Send, ToSrv!reader
<1>3. ASSUME NEW n \in Nat, ToSrv!Recv(n)
      PROVE  /\ ToSrv!TypeOK' /\ zone_cli' = zone_cli /\ out_cli' = out_cli
             /\ in_cli' = << >> /\ rpc_cli' = "wait"
  BY <1>1, <1>3 DEF ToSrv!TypeOK, ToSrv!Recv, ToSrv!writer
<1>4. CASE ToSrv!SendWait
  BY <1>1, <1>4 DEF ToSrv!TypeOK, ToSrv!SendWait, ToSrv!reader
<1>5. CASE ToSrv!SendStore
  <2>1. out_cli # << >>
    BY <1>1, <1>5 DEF ToSrv!TypeOK, ToSrv!SendStore
  <2>2. Head(out_cli) \in Bytes /\ Tail(out_cli) \in Seq(Bytes)
    BY <1>1, <2>1
  <2>3. wr_cli' \in ToSrv!Index
    BY <1>1, <1>5, WrapIsIndex DEF ToSrv!TypeOK, ToSrv!SendStore, ToSrv!Index, Place
  <2>4. /\ zone_cli' \in [ToSrv!Index -> Bytes] /\ zone_cli' \in [ToSrv!Index -> Byte]
        /\ out_cli' \in Seq(Bytes) /\ out_cli' \in Seq(Byte)
    BY <1>1, <1>5, <2>2, ByteFacts, SeqOfBytes DEF ToSrv!TypeOK, ToSrv!SendStore
  <2>5. wpc_cli' = "post" /\ UNCHANGED <<available_cli, free_cli, rd_cli, rpc_cli, want_cli, in_cli, drift_cli>>
    BY <1>5 DEF ToSrv!SendStore, ToSrv!reader
  <2>6. QED
    BY <1>1, <2>3, <2>4, <2>5 DEF ToSrv!TypeOK
<1>6. CASE ToSrv!SendPost
  BY <1>1, <1>6 DEF ToSrv!TypeOK, ToSrv!SendPost, ToSrv!reader
<1>7. CASE ToSrv!CutSend
  <2>1. /\ wpc_cli' = "idle" /\ out_cli' = << >> /\ drift_cli' \in Nat
        /\ UNCHANGED <<zone_cli, available_cli, free_cli, wr_cli, rd_cli, rpc_cli, want_cli, in_cli>>
    BY <1>1, <1>7 DEF ToSrv!TypeOK, ToSrv!CutSend, ToSrv!reader, ToSrv!One
  <2>2. << >> \in Seq(Bytes) /\ << >> \in Seq(Byte)
    OBVIOUS
  <2>3. QED
    BY <1>1, <2>1, <2>2 DEF ToSrv!TypeOK
<1>8. CASE ToSrv!RecvWait
  BY <1>1, <1>8 DEF ToSrv!TypeOK, ToSrv!RecvWait, ToSrv!writer
<1>9. CASE ToSrv!RecvLoad
  <2>1. rd_cli \in ToSrv!Index /\ want_cli \in Nat /\ want_cli > 0
    BY <1>1, <1>9 DEF ToSrv!TypeOK, ToSrv!RecvLoad
  <2>2. rd_cli' \in ToSrv!Index
    BY <1>9, <2>1, WrapIsIndex DEF ToSrv!RecvLoad, ToSrv!Index, Place
  <2>3. zone_cli[rd_cli] \in Bytes
    BY <1>1, <2>1
  <2>4. in_cli' \in Seq(Bytes) /\ in_cli' # << >> /\ in_cli' \in Seq(Byte)
    <3>1. in_cli' = Append(in_cli, zone_cli[rd_cli])
      BY <1>9 DEF ToSrv!RecvLoad
    <3>2. in_cli' \in Seq(Bytes) /\ Len(in_cli') = Len(in_cli) + 1
      BY <1>1, <2>3, <3>1
    <3>3. in_cli' # << >>
      BY <1>1, <3>2
    <3>4. QED
      BY <3>2, <3>3, SeqOfBytes
  <2>5. /\ want_cli' \in Nat /\ rpc_cli' = "post"
        /\ UNCHANGED <<zone_cli, available_cli, free_cli, wr_cli, wpc_cli, out_cli, drift_cli>>
    BY <1>9, <2>1 DEF ToSrv!RecvLoad, ToSrv!writer
  <2>6. QED
    BY <1>1, <2>2, <2>4, <2>5 DEF ToSrv!TypeOK
<1>10. CASE ToSrv!RecvPost
  BY <1>1, <1>10 DEF ToSrv!TypeOK, ToSrv!RecvPost, ToSrv!writer
<1>11. CASE ToSrv!CutRecv
  BY <1>1, <1>11 DEF ToSrv!TypeOK, ToSrv!CutRecv, ToSrv!writer, ToSrv!One
<1>12. << >> \in Seq(Bytes)
  OBVIOUS
<1>13. QED
  BY <1>1, <1>2, <1>3, <1>4, <1>5, <1>6, <1>7, <1>8, <1>9, <1>10, <1>11, <1>12
     DEF ToSrv!Sending, ToSrv!Receiving

LEMMA ToSrvSteps ==
  ASSUME CliRing,
         \/ \E m \in Seq(Bytes) : ToSrv!Send(m)
         \/ \E n \in Nat : ToSrv!Recv(n)
         \/ ToSrv!Sending \/ ToSrv!Receiving \/ ToSrv!CutSend \/ ToSrv!CutRecv
  PROVE  CliRing'
<1>1. /\ available_cli \in Nat /\ free_cli \in Nat /\ drift_cli \in Nat /\ ZONE_SIZE \in Nat
      /\ ToSrv!Credits
  BY Sizes DEF CliRing, ToSrv!TypeOK
<1> DEFINE w == ToSrv!One(wpc_cli \in {"store", "post"})
           r == ToSrv!One(rpc_cli \in {"load", "post"})
           total == available_cli + drift_cli + free_cli + w + r
<1>2. w \in 0..1 /\ r \in 0..1 /\ w' \in 0..1 /\ r' \in 0..1
  BY DEF ToSrv!One
<1>3. total' <= total
  <2>1. CASE \E m \in Seq(Bytes) : ToSrv!Send(m)
    BY <1>1, <1>2, <2>1 DEF ToSrv!Send, ToSrv!reader, ToSrv!One
  <2>2. CASE \E n \in Nat : ToSrv!Recv(n)
    BY <1>1, <1>2, <2>2 DEF ToSrv!Recv, ToSrv!writer, ToSrv!One
  <2>3. CASE ToSrv!SendWait
    BY <1>1, <1>2, <2>3 DEF ToSrv!SendWait, ToSrv!reader, ToSrv!One
  <2>4. CASE ToSrv!SendStore
    BY <1>1, <1>2, <2>4 DEF ToSrv!SendStore, ToSrv!reader, ToSrv!One
  <2>5. CASE ToSrv!SendPost
    BY <1>1, <1>2, <2>5 DEF ToSrv!SendPost, ToSrv!reader, ToSrv!One
  <2>6. CASE ToSrv!RecvWait
    BY <1>1, <1>2, <2>6 DEF ToSrv!RecvWait, ToSrv!writer, ToSrv!One
  <2>7. CASE ToSrv!RecvLoad
    BY <1>1, <1>2, <2>7 DEF ToSrv!RecvLoad, ToSrv!writer, ToSrv!One
  <2>8. CASE ToSrv!RecvPost
    BY <1>1, <1>2, <2>8 DEF ToSrv!RecvPost, ToSrv!writer, ToSrv!One
  <2>9. CASE ToSrv!CutSend
    <3>1. /\ w' = 0 /\ r' = r /\ available_cli' = available_cli /\ free_cli' = free_cli
          /\ drift_cli' = drift_cli + ToSrv!One(wpc_cli = "post")
      BY <2>9 DEF ToSrv!CutSend, ToSrv!reader, ToSrv!One
    <3>2. ToSrv!One(wpc_cli = "post") \in 0..1 /\ ToSrv!One(wpc_cli = "post") <= w
      BY DEF ToSrv!One
    <3> HIDE DEF w, r
    <3>3. QED
      BY <1>1, <1>2, <3>1, <3>2
  <2>10. CASE ToSrv!CutRecv
    <3>1. /\ r' = 0 /\ w' = w /\ available_cli' = available_cli /\ free_cli' = free_cli
          /\ drift_cli' = drift_cli + ToSrv!One(rpc_cli = "load")
      BY <2>10 DEF ToSrv!CutRecv, ToSrv!writer, ToSrv!One
    <3>2. ToSrv!One(rpc_cli = "load") \in 0..1 /\ ToSrv!One(rpc_cli = "load") <= r
      BY DEF ToSrv!One
    <3> HIDE DEF w, r
    <3>3. QED
      BY <1>1, <1>2, <3>1, <3>2
  <2>11. QED
    BY <2>1, <2>2, <2>3, <2>4, <2>5, <2>6, <2>7, <2>8, <2>9, <2>10
       DEF ToSrv!Sending, ToSrv!Receiving
<1>4. /\ ToSrv!TypeOK'
      /\ zone_cli' \in [ToSrv!Index -> Bytes]
      /\ out_cli' \in Seq(Bytes) /\ in_cli' \in Seq(Bytes)
      /\ rpc_cli' = "post" => in_cli' # << >>
  BY ToSrvTypeSteps
<1>5. available_cli' \in Nat /\ free_cli' \in Nat /\ drift_cli' \in Nat
  BY <1>4 DEF ToSrv!TypeOK
<1>6. ToSrv!Credits'
  <2>1. total <= ZONE_SIZE
    BY <1>1 DEF ToSrv!Credits
  <2> HIDE DEF w, r
  <2>2. total \in Int
    BY <1>1, <1>2
  <2>3. total' \in Int
    BY <1>2, <1>5
  <2> HIDE DEF total
  <2>4. total' <= ZONE_SIZE
    BY <1>1, <1>3, <2>1, <2>2, <2>3
  <2>5. QED
    BY <2>4 DEF ToSrv!Credits, total, w, r
<1>7. QED
  BY <1>4, <1>6 DEF CliRing, ToSrv!Index

LEMMA ToCliTypeSteps ==
  ASSUME SrvRing,
         \/ \E m \in Seq(Bytes) : ToCli!Send(m)
         \/ \E n \in Nat : ToCli!Recv(n)
         \/ ToCli!Sending \/ ToCli!Receiving \/ ToCli!CutSend \/ ToCli!CutRecv
  PROVE  /\ ToCli!TypeOK'
         /\ zone_srv' \in [ToCli!Index -> Bytes]
         /\ out_srv' \in Seq(Bytes) /\ in_srv' \in Seq(Bytes)
         /\ rpc_srv' = "post" => in_srv' # << >>
<1>1. /\ ToCli!TypeOK
      /\ zone_srv \in [ToCli!Index -> Bytes] /\ out_srv \in Seq(Bytes) /\ in_srv \in Seq(Bytes)
      /\ rpc_srv = "post" => in_srv # << >>
  BY DEF SrvRing
<1>2. ASSUME NEW m \in Seq(Bytes), ToCli!Send(m)
      PROVE  /\ ToCli!TypeOK' /\ zone_srv' = zone_srv /\ out_srv' = m
             /\ in_srv' = in_srv /\ rpc_srv' = rpc_srv
  BY <1>1, <1>2, SeqOfBytes DEF ToCli!TypeOK, ToCli!Send, ToCli!reader
<1>3. ASSUME NEW n \in Nat, ToCli!Recv(n)
      PROVE  /\ ToCli!TypeOK' /\ zone_srv' = zone_srv /\ out_srv' = out_srv
             /\ in_srv' = << >> /\ rpc_srv' = "wait"
  BY <1>1, <1>3 DEF ToCli!TypeOK, ToCli!Recv, ToCli!writer
<1>4. CASE ToCli!SendWait
  BY <1>1, <1>4 DEF ToCli!TypeOK, ToCli!SendWait, ToCli!reader
<1>5. CASE ToCli!SendStore
  <2>1. out_srv # << >>
    BY <1>1, <1>5 DEF ToCli!TypeOK, ToCli!SendStore
  <2>2. Head(out_srv) \in Bytes /\ Tail(out_srv) \in Seq(Bytes)
    BY <1>1, <2>1
  <2>3. wr_srv' \in ToCli!Index
    BY <1>1, <1>5, WrapIsIndex DEF ToCli!TypeOK, ToCli!SendStore, ToCli!Index, Place
  <2>4. /\ zone_srv' \in [ToCli!Index -> Bytes] /\ zone_srv' \in [ToCli!Index -> Byte]
        /\ out_srv' \in Seq(Bytes) /\ out_srv' \in Seq(Byte)
    BY <1>1, <1>5, <2>2, ByteFacts, SeqOfBytes DEF ToCli!TypeOK, ToCli!SendStore
  <2>5. wpc_srv' = "post" /\ UNCHANGED <<available_srv, free_srv, rd_srv, rpc_srv, want_srv, in_srv, drift_srv>>
    BY <1>5 DEF ToCli!SendStore, ToCli!reader
  <2>6. QED
    BY <1>1, <2>3, <2>4, <2>5 DEF ToCli!TypeOK
<1>6. CASE ToCli!SendPost
  BY <1>1, <1>6 DEF ToCli!TypeOK, ToCli!SendPost, ToCli!reader
<1>7. CASE ToCli!CutSend
  <2>1. /\ wpc_srv' = "idle" /\ out_srv' = << >> /\ drift_srv' \in Nat
        /\ UNCHANGED <<zone_srv, available_srv, free_srv, wr_srv, rd_srv, rpc_srv, want_srv, in_srv>>
    BY <1>1, <1>7 DEF ToCli!TypeOK, ToCli!CutSend, ToCli!reader, ToCli!One
  <2>2. << >> \in Seq(Bytes) /\ << >> \in Seq(Byte)
    OBVIOUS
  <2>3. QED
    BY <1>1, <2>1, <2>2 DEF ToCli!TypeOK
<1>8. CASE ToCli!RecvWait
  BY <1>1, <1>8 DEF ToCli!TypeOK, ToCli!RecvWait, ToCli!writer
<1>9. CASE ToCli!RecvLoad
  <2>1. rd_srv \in ToCli!Index /\ want_srv \in Nat /\ want_srv > 0
    BY <1>1, <1>9 DEF ToCli!TypeOK, ToCli!RecvLoad
  <2>2. rd_srv' \in ToCli!Index
    BY <1>9, <2>1, WrapIsIndex DEF ToCli!RecvLoad, ToCli!Index, Place
  <2>3. zone_srv[rd_srv] \in Bytes
    BY <1>1, <2>1
  <2>4. in_srv' \in Seq(Bytes) /\ in_srv' # << >> /\ in_srv' \in Seq(Byte)
    <3>1. in_srv' = Append(in_srv, zone_srv[rd_srv])
      BY <1>9 DEF ToCli!RecvLoad
    <3>2. in_srv' \in Seq(Bytes) /\ Len(in_srv') = Len(in_srv) + 1
      BY <1>1, <2>3, <3>1
    <3>3. in_srv' # << >>
      BY <1>1, <3>2
    <3>4. QED
      BY <3>2, <3>3, SeqOfBytes
  <2>5. /\ want_srv' \in Nat /\ rpc_srv' = "post"
        /\ UNCHANGED <<zone_srv, available_srv, free_srv, wr_srv, wpc_srv, out_srv, drift_srv>>
    BY <1>9, <2>1 DEF ToCli!RecvLoad, ToCli!writer
  <2>6. QED
    BY <1>1, <2>2, <2>4, <2>5 DEF ToCli!TypeOK
<1>10. CASE ToCli!RecvPost
  BY <1>1, <1>10 DEF ToCli!TypeOK, ToCli!RecvPost, ToCli!writer
<1>11. CASE ToCli!CutRecv
  BY <1>1, <1>11 DEF ToCli!TypeOK, ToCli!CutRecv, ToCli!writer, ToCli!One
<1>12. << >> \in Seq(Bytes)
  OBVIOUS
<1>13. QED
  BY <1>1, <1>2, <1>3, <1>4, <1>5, <1>6, <1>7, <1>8, <1>9, <1>10, <1>11, <1>12
     DEF ToCli!Sending, ToCli!Receiving

LEMMA ToCliSteps ==
  ASSUME SrvRing,
         \/ \E m \in Seq(Bytes) : ToCli!Send(m)
         \/ \E n \in Nat : ToCli!Recv(n)
         \/ ToCli!Sending \/ ToCli!Receiving \/ ToCli!CutSend \/ ToCli!CutRecv
  PROVE  SrvRing'
<1>1. /\ available_srv \in Nat /\ free_srv \in Nat /\ drift_srv \in Nat /\ ZONE_SIZE \in Nat
      /\ ToCli!Credits
  BY Sizes DEF SrvRing, ToCli!TypeOK
<1> DEFINE w == ToCli!One(wpc_srv \in {"store", "post"})
           r == ToCli!One(rpc_srv \in {"load", "post"})
           total == available_srv + drift_srv + free_srv + w + r
<1>2. w \in 0..1 /\ r \in 0..1 /\ w' \in 0..1 /\ r' \in 0..1
  BY DEF ToCli!One
<1>3. total' <= total
  <2>1. CASE \E m \in Seq(Bytes) : ToCli!Send(m)
    BY <1>1, <1>2, <2>1 DEF ToCli!Send, ToCli!reader, ToCli!One
  <2>2. CASE \E n \in Nat : ToCli!Recv(n)
    BY <1>1, <1>2, <2>2 DEF ToCli!Recv, ToCli!writer, ToCli!One
  <2>3. CASE ToCli!SendWait
    BY <1>1, <1>2, <2>3 DEF ToCli!SendWait, ToCli!reader, ToCli!One
  <2>4. CASE ToCli!SendStore
    BY <1>1, <1>2, <2>4 DEF ToCli!SendStore, ToCli!reader, ToCli!One
  <2>5. CASE ToCli!SendPost
    BY <1>1, <1>2, <2>5 DEF ToCli!SendPost, ToCli!reader, ToCli!One
  <2>6. CASE ToCli!RecvWait
    BY <1>1, <1>2, <2>6 DEF ToCli!RecvWait, ToCli!writer, ToCli!One
  <2>7. CASE ToCli!RecvLoad
    BY <1>1, <1>2, <2>7 DEF ToCli!RecvLoad, ToCli!writer, ToCli!One
  <2>8. CASE ToCli!RecvPost
    BY <1>1, <1>2, <2>8 DEF ToCli!RecvPost, ToCli!writer, ToCli!One
  <2>9. CASE ToCli!CutSend
    <3>1. /\ w' = 0 /\ r' = r /\ available_srv' = available_srv /\ free_srv' = free_srv
          /\ drift_srv' = drift_srv + ToCli!One(wpc_srv = "post")
      BY <2>9 DEF ToCli!CutSend, ToCli!reader, ToCli!One
    <3>2. ToCli!One(wpc_srv = "post") \in 0..1 /\ ToCli!One(wpc_srv = "post") <= w
      BY DEF ToCli!One
    <3> HIDE DEF w, r
    <3>3. QED
      BY <1>1, <1>2, <3>1, <3>2
  <2>10. CASE ToCli!CutRecv
    <3>1. /\ r' = 0 /\ w' = w /\ available_srv' = available_srv /\ free_srv' = free_srv
          /\ drift_srv' = drift_srv + ToCli!One(rpc_srv = "load")
      BY <2>10 DEF ToCli!CutRecv, ToCli!writer, ToCli!One
    <3>2. ToCli!One(rpc_srv = "load") \in 0..1 /\ ToCli!One(rpc_srv = "load") <= r
      BY DEF ToCli!One
    <3> HIDE DEF w, r
    <3>3. QED
      BY <1>1, <1>2, <3>1, <3>2
  <2>11. QED
    BY <2>1, <2>2, <2>3, <2>4, <2>5, <2>6, <2>7, <2>8, <2>9, <2>10
       DEF ToCli!Sending, ToCli!Receiving
<1>4. /\ ToCli!TypeOK'
      /\ zone_srv' \in [ToCli!Index -> Bytes]
      /\ out_srv' \in Seq(Bytes) /\ in_srv' \in Seq(Bytes)
      /\ rpc_srv' = "post" => in_srv' # << >>
  BY ToCliTypeSteps
<1>5. available_srv' \in Nat /\ free_srv' \in Nat /\ drift_srv' \in Nat
  BY <1>4 DEF ToCli!TypeOK
<1>6. ToCli!Credits'
  <2>1. total <= ZONE_SIZE
    BY <1>1 DEF ToCli!Credits
  <2> HIDE DEF w, r
  <2>2. total \in Int
    BY <1>1, <1>2
  <2>3. total' \in Int
    BY <1>2, <1>5
  <2> HIDE DEF total
  <2>4. total' <= ZONE_SIZE
    BY <1>1, <1>3, <2>1, <2>2, <2>3
  <2>5. QED
    BY <2>4 DEF ToCli!Credits, total, w, r
<1>7. QED
  BY <1>4, <1>6 DEF SrvRing, ToCli!Index

LEMMA CliStays == ASSUME CliRing, UNCHANGED toSrvVars PROVE CliRing'
BY DEF CliRing, toSrvVars, ToSrv!TypeOK, ToSrv!Credits, ToSrv!One, ToSrv!Index

LEMMA SrvStays == ASSUME SrvRing, UNCHANGED toCliVars PROVE SrvRing'
BY DEF SrvRing, toCliVars, ToCli!TypeOK, ToCli!Credits, ToCli!One, ToCli!Index

-----------------------------------------------------------------------------
(* The steps of the client *)

LEMMA RequestInv ==
  ASSUME SInv, NEW kind \in Requests \cup {"leave"}, Request(kind),
         calls < MaxCalls \/ cpc = "handler"
  PROVE  SInv'
<1>1. /\ calls' = calls + 1 /\ ToSrv!Send(Message(kind, calls', MSG)) /\ cpc' = "send"
      /\ UNCHANGED <<toCliVars, leaving, res, records, server, env>>
  BY DEF Request
<1>2. calls \in Nat /\ session \in 1..MaxSessions
  BY DEF SInv, Counted, Ends
<1>3. cpc = "handler" => ~Said /\ leaving
  BY DEF SInv, Ends, Said
<1>4. calls + 1 <= MaxCalls + session
  BY <1>2, <1>3, Sizes DEF SInv, Counted
<1>5. calls' \in 0..MaxId
  BY <1>1, <1>2, <1>4, Sizes DEF MaxId
<1>6. Message(kind, calls', MSG) \in Seq(Bytes)
  BY <1>5, Sizes, MessageIsBytes DEF Kinds
<1>7. CliRing' /\ SrvRing'
  BY <1>1, <1>6, ToSrvSteps, SrvStays DEF SInv
<1>8. rpc_cli' = rpc_cli /\ in_cli' = in_cli
  BY <1>1 DEF ToSrv!Send, ToSrv!reader
<1>9. Ends'
  BY <1>1, <1>8 DEF SInv, Ends, server, env
<1>10. Counted'
  <2>1. calls < MaxCalls => calls + 1 <= MaxCalls + session - 1
    BY <1>2, Sizes
  <2>2. session' = session /\ (cpc = "handler" => Said')
    BY <1>1, <1>3 DEF Said, env
  <2>3. QED
    BY <1>1, <1>2, <1>4, <2>1, <2>2 DEF Counted
<1>11. QED
  BY <1>7, <1>9, <1>10 DEF SInv

(* A step of the client that makes no request. *)
LEMMA CountStays ==
  ASSUME SInv, UNCHANGED <<calls, session>>, Said => Said'
  PROVE  Counted'
BY DEF SInv, Counted

LEMMA SendStepInv == ASSUME SInv, SendStep PROVE SInv'
<1>1. ToSrv!Sending /\ cpc = "send" /\ UNCHANGED <<toCliVars, client, server, env>>
  BY DEF SendStep
<1>2. CliRing' /\ SrvRing'
  BY <1>1, ToSrvSteps, SrvStays DEF SInv
<1>3. rpc_cli' = rpc_cli /\ in_cli' = in_cli
  BY <1>1 DEF ToSrv!Sending, ToSrv!SendWait, ToSrv!SendStore, ToSrv!SendPost, ToSrv!reader
<1>4. Ends' /\ Counted'
  BY <1>1, <1>3, CountStays DEF SInv, Ends, Said, client, server, env
<1>5. QED
  BY <1>2, <1>4 DEF SInv

LEMMA AwaitHeaderInv == ASSUME SInv, AwaitHeader PROVE SInv'
<1>1. /\ cpc = "send" /\ cpc' = "header" /\ ToCli!Recv(HDR)
      /\ UNCHANGED <<toSrvVars, leaving, calls, res, records, server, env>>
  BY DEF AwaitHeader
<1>2. CliRing' /\ SrvRing'
  BY <1>1, Sizes, ToCliSteps, CliStays DEF SInv
<1>3. rpc_srv' = "wait" /\ rpc_cli' = rpc_cli /\ in_cli' = in_cli
  BY <1>1 DEF ToCli!Recv, toSrvVars
<1>4. Ends' /\ Counted'
  BY <1>1, <1>3, CountStays DEF SInv, Ends, Said, server, env
<1>5. QED
  BY <1>2, <1>4 DEF SInv

LEMMA RecvStepInv == ASSUME SInv, RecvStep PROVE SInv'
<1>1. ToCli!Receiving /\ UNCHANGED <<toSrvVars, client, server, env>>
  BY DEF RecvStep
<1>2. CliRing' /\ SrvRing'
  BY <1>1, ToCliSteps, CliStays DEF SInv
<1>3. rpc_srv' = "idle" => rpc_srv = "post" /\ in_srv' = in_srv
  BY <1>1 DEF ToCli!Receiving, ToCli!RecvWait, ToCli!RecvLoad, ToCli!RecvPost
<1>4. rpc_srv' = "idle" => in_srv' # << >>
  BY <1>3 DEF SInv, SrvRing
<1>5. rpc_cli' = rpc_cli /\ in_cli' = in_cli
  BY <1>1 DEF toSrvVars
<1>6. Ends' /\ Counted'
  BY <1>1, <1>4, <1>5, CountStays DEF SInv, Ends, Said, client, server, env
<1>7. QED
  BY <1>2, <1>6 DEF SInv

LEMMA TakeHeaderInv == ASSUME SInv, TakeHeader PROVE SInv'
<1>1. /\ cpc = "header" /\ rpc_srv = "idle"
      /\ res' = IF in_srv[1][1] \in {"ack", "empty", "listed"} THEN in_srv[1][2] ELSE res
      /\ \/ cpc' = "records" /\ records' = 1 /\ ToCli!Recv(MSG)
         \/ cpc' \in {"left", "idle"} /\ UNCHANGED <<records, toCliVars>>
      /\ UNCHANGED <<toSrvVars, leaving, calls, server, env>>
  BY DEF TakeHeader, Finish
<1>2. CliRing' /\ SrvRing'
  BY <1>1, Sizes, ToCliSteps, CliStays, SrvStays DEF SInv
<1>3. in_srv[1] \in Bytes
  BY <1>1 DEF SInv, SrvRing, Ends
<1>4. res' \in 0..MaxId
  BY <1>1, <1>3, ByteFacts DEF SInv, Ends
<1>5. rpc_cli' = rpc_cli /\ in_cli' = in_cli
  BY <1>1 DEF toSrvVars
<1>6. Ends'
  BY <1>1, <1>4, <1>5 DEF SInv, Ends, server, env
<1>7. Counted'
  BY <1>1, CountStays DEF Said, env
<1>8. QED
  BY <1>2, <1>6, <1>7 DEF SInv

LEMMA TakeRecordInv == ASSUME SInv, TakeRecord PROVE SInv'
<1>1. /\ cpc = "records" /\ records' = records - 1 /\ cpc' \in {"left", "idle"}
      /\ UNCHANGED <<toSrvVars, toCliVars, leaving, calls, res, server, env>>
  BY DEF TakeRecord, Finish
<1>2. CliRing' /\ SrvRing'
  BY <1>1, CliStays, SrvStays DEF SInv
<1>3. records' = 0
  BY <1>1 DEF SInv, Ends
<1>4. rpc_cli' = rpc_cli /\ in_cli' = in_cli
  BY <1>1 DEF toSrvVars
<1>5. Ends'
  BY <1>1, <1>3, <1>4 DEF SInv, Ends, server, env
<1>6. Counted'
  BY <1>1, CountStays DEF Said, env
<1>7. QED
  BY <1>2, <1>5, <1>6 DEF SInv

(* What an interruption leaves behind. *)
LEMMA CutClientFacts ==
  ASSUME SInv, CutClient
  PROVE  CliRing' /\ SrvRing' /\ rpc_cli' = rpc_cli /\ in_cli' = in_cli
<1>1. UNCHANGED toSrvVars \/ ToSrv!CutSend
  BY DEF CutClient
<1>2. UNCHANGED toCliVars \/ ToCli!CutRecv
  BY DEF CutClient
<1>3. rpc_cli' = rpc_cli /\ in_cli' = in_cli
  BY <1>1 DEF toSrvVars, ToSrv!CutSend, ToSrv!reader
<1>4. QED
  BY <1>1, <1>2, <1>3, CliStays, SrvStays, ToSrvSteps, ToCliSteps DEF SInv

LEMMA InterruptInv == ASSUME SInv, Interrupt PROVE SInv'
<1>1. /\ ~leaving /\ leaving' = TRUE /\ cpc' = "handler" /\ CutClient /\ records' = 0
      /\ orderly' \in BOOLEAN
      /\ UNCHANGED <<calls, res, server, session, faults>>
  BY DEF Interrupt, SInv, Ends
<1>2. CliRing' /\ SrvRing' /\ rpc_cli' = rpc_cli /\ in_cli' = in_cli
  BY <1>1, CutClientFacts
<1>3. Ends'
  BY <1>1, <1>2 DEF SInv, Ends, server
<1>4. Counted'
  BY <1>1, CountStays DEF Said
<1>5. QED
  BY <1>2, <1>3, <1>4 DEF SInv

LEMMA ResizeInv == ASSUME SInv, Resize PROVE SInv'
<1>1. /\ cpc' \in {"left", "idle"} /\ CutClient /\ records' = 0 /\ orderly' \in BOOLEAN
      /\ faults < MaxFaults /\ faults' = faults + 1
      /\ UNCHANGED <<leaving, calls, res, server, session>>
  BY DEF Resize, Finish
<1>2. CliRing' /\ SrvRing' /\ rpc_cli' = rpc_cli /\ in_cli' = in_cli
  BY <1>1, CutClientFacts
<1>3. faults' \in 0..MaxFaults
  BY <1>1, Sizes DEF SInv, Ends
<1>4. Ends'
  BY <1>1, <1>2, <1>3 DEF SInv, Ends, server
<1>5. Counted'
  BY <1>1, CountStays DEF Said
<1>6. QED
  BY <1>2, <1>4, <1>5 DEF SInv

LEMMA KillClientInv == ASSUME SInv, KillClient PROVE SInv'
<1>1. /\ cpc' = "killed" /\ CutClient /\ orderly' \in BOOLEAN
      /\ faults < MaxFaults /\ faults' = faults + 1
      /\ UNCHANGED <<leaving, calls, res, records, server, session>>
  BY DEF KillClient, SInv, Ends
<1>2. CliRing' /\ SrvRing' /\ rpc_cli' = rpc_cli /\ in_cli' = in_cli
  BY <1>1, CutClientFacts
<1>3. faults' \in 0..MaxFaults
  BY <1>1, Sizes DEF SInv, Ends
<1>4. Ends'
  BY <1>1, <1>2, <1>3 DEF SInv, Ends, server
<1>5. Counted'
  BY <1>1, CountStays DEF Said
<1>6. QED
  BY <1>2, <1>4, <1>5 DEF SInv

-----------------------------------------------------------------------------
(* The steps of the server *)

LEMMA AwaitRequestInv == ASSUME SInv, AwaitRequest PROVE SInv'
<1>1. /\ ToSrv!Recv(MSG) /\ spc' = "reading"
      /\ UNCHANGED <<toCliVars, client, req, unsent, env>>
  BY DEF AwaitRequest
<1>2. CliRing' /\ SrvRing'
  BY <1>1, Sizes, ToSrvSteps, SrvStays DEF SInv
<1>3. rpc_cli' = "wait" /\ rpc_srv' = rpc_srv /\ in_srv' = in_srv
  BY <1>1 DEF ToSrv!Recv, toCliVars
<1>4. Ends' /\ Counted'
  BY <1>1, <1>3, CountStays DEF SInv, Ends, Said, client, env
<1>5. QED
  BY <1>2, <1>4 DEF SInv

LEMMA ReadStepInv == ASSUME SInv, ReadStep PROVE SInv'
<1>1. ToSrv!Receiving /\ UNCHANGED <<toCliVars, client, server, env>>
  BY DEF ReadStep
<1>2. CliRing' /\ SrvRing'
  BY <1>1, ToSrvSteps, SrvStays DEF SInv
<1>3. rpc_cli' = "idle" => rpc_cli = "post" /\ in_cli' = in_cli
  BY <1>1 DEF ToSrv!Receiving, ToSrv!RecvWait, ToSrv!RecvLoad, ToSrv!RecvPost
<1>4. rpc_cli' = "idle" => in_cli' # << >>
  BY <1>3 DEF SInv, CliRing
<1>5. rpc_srv' = rpc_srv /\ in_srv' = in_srv
  BY <1>1 DEF toCliVars
<1>6. Ends' /\ Counted'
  BY <1>1, <1>4, <1>5, CountStays DEF SInv, Ends, Said, client, server, env
<1>7. QED
  BY <1>2, <1>6 DEF SInv

(* What a message of the server leaves as it is. *)
LEMMA AnswerFacts ==
  ASSUME SInv, NEW m \in Seq(Bytes), ToCli!Send(m), UNCHANGED toSrvVars
  PROVE  /\ CliRing' /\ SrvRing' /\ rpc_cli' = rpc_cli /\ in_cli' = in_cli
         /\ rpc_srv' = rpc_srv /\ in_srv' = in_srv
<1>1. CliRing' /\ SrvRing'
  BY ToCliSteps, CliStays DEF SInv
<1>2. QED
  BY <1>1 DEF toSrvVars, ToCli!Send, ToCli!reader

LEMMA HandleInv == ASSUME SInv, Handle PROVE SInv'
<1>1. /\ spc = "reading" /\ rpc_cli = "idle" /\ req' = in_cli[1] /\ spc' = "writing"
      /\ UNCHANGED <<toSrvVars, client, env>>
  BY DEF Handle
<1>2. PICK n \in (IF req'[1] = "list" THEN 0..1 ELSE {0}) :
        /\ unsent' = n
        /\ ToCli!Send(Message(IF req'[1] # "list" THEN "ack"
                              ELSE IF n = 0 THEN "empty" ELSE "listed", req'[2], HDR))
  BY DEF Handle
<1>3. req' \in Bytes
  BY <1>1 DEF SInv, CliRing, Ends
<1>4. PICK kind \in Kinds : ToCli!Send(Message(kind, req'[2], HDR))
  BY <1>2 DEF Kinds
<1>5. req'[2] \in 0..MaxId
  BY <1>3, ByteFacts
<1>6. Message(kind, req'[2], HDR) \in Seq(Bytes)
  BY <1>5, Sizes, MessageIsBytes
<1>7. /\ CliRing' /\ SrvRing' /\ rpc_cli' = rpc_cli /\ in_cli' = in_cli
      /\ rpc_srv' = rpc_srv /\ in_srv' = in_srv
  BY <1>1, <1>4, <1>6, AnswerFacts
<1>8. unsent' \in 0..1
  BY <1>2
<1>9. Ends' /\ Counted'
  BY <1>1, <1>3, <1>7, <1>8, CountStays DEF SInv, Ends, Said, client, env
<1>10. QED
  BY <1>7, <1>9 DEF SInv

LEMMA WriteStepInv == ASSUME SInv, WriteStep PROVE SInv'
<1>1. ToCli!Sending /\ UNCHANGED <<toSrvVars, client, server, env>>
  BY DEF WriteStep
<1>2. CliRing' /\ SrvRing'
  BY <1>1, ToCliSteps, CliStays DEF SInv
<1>3. /\ rpc_cli' = rpc_cli /\ in_cli' = in_cli /\ rpc_srv' = rpc_srv /\ in_srv' = in_srv
  BY <1>1 DEF toSrvVars, ToCli!Sending, ToCli!SendWait, ToCli!SendStore, ToCli!SendPost,
              ToCli!reader
<1>4. Ends' /\ Counted'
  BY <1>1, <1>3, CountStays DEF SInv, Ends, Said, client, server, env
<1>5. QED
  BY <1>2, <1>4 DEF SInv

LEMMA WriteRecordInv == ASSUME SInv, WriteRecord PROVE SInv'
<1>1. /\ unsent > 0 /\ unsent' = unsent - 1 /\ ToCli!Send(Message("record", req[2], MSG))
      /\ UNCHANGED <<toSrvVars, client, spc, req, env>>
  BY DEF WriteRecord
<1>2. req[2] \in 0..MaxId
  BY ByteFacts DEF SInv, Ends
<1>3. Message("record", req[2], MSG) \in Seq(Bytes)
  BY <1>2, Sizes, MessageIsBytes DEF Kinds
<1>4. /\ CliRing' /\ SrvRing' /\ rpc_cli' = rpc_cli /\ in_cli' = in_cli
      /\ rpc_srv' = rpc_srv /\ in_srv' = in_srv
  BY <1>1, <1>3, AnswerFacts
<1>5. unsent' \in 0..1
  BY <1>1 DEF SInv, Ends
<1>6. Ends' /\ Counted'
  BY <1>1, <1>4, <1>5, CountStays DEF SInv, Ends, Said, client, env
<1>7. QED
  BY <1>4, <1>6 DEF SInv

LEMMA RepliedInv == ASSUME SInv, Replied PROVE SInv'
<1>1. /\ spc' \in {"closed", "recv"}
      /\ UNCHANGED <<toSrvVars, toCliVars, client, req, unsent, env>>
  BY DEF Replied
<1>2. CliRing' /\ SrvRing'
  BY <1>1, CliStays, SrvStays DEF SInv
<1>3. rpc_srv' = rpc_srv /\ in_srv' = in_srv
  BY <1>1 DEF toCliVars
<1>4. Ends' /\ Counted'
  BY <1>1, <1>3, CountStays DEF SInv, Ends, Said, client, env
<1>5. QED
  BY <1>2, <1>4 DEF SInv

LEMMA KillServerInv == ASSUME SInv, KillServer PROVE SInv'
<1>1. /\ faults < MaxFaults /\ faults' = faults + 1 /\ spc' = "killed"
      /\ UNCHANGED toSrvVars \/ ToSrv!CutRecv
      /\ UNCHANGED toCliVars \/ ToCli!CutSend
      /\ orderly' \in BOOLEAN
      /\ UNCHANGED <<client, req, unsent, session>>
  BY DEF KillServer, SInv, Ends
<1>2. CliRing' /\ SrvRing'
  BY <1>1, CliStays, SrvStays, ToSrvSteps, ToCliSteps DEF SInv
<1>3. rpc_srv' = rpc_srv /\ in_srv' = in_srv
  BY <1>1 DEF toCliVars, ToCli!CutSend, ToCli!reader
<1>4. faults' \in 0..MaxFaults
  BY <1>1, Sizes DEF SInv, Ends
<1>5. Ends' /\ Counted'
  BY <1>1, <1>3, <1>4, CountStays DEF SInv, Ends, Said, client
<1>6. QED
  BY <1>2, <1>5 DEF SInv

-----------------------------------------------------------------------------
(* Another session, and the specification *)

(* The bytes that the semaphores of the last session count are still       *)
(* counted; those that no call will ever read are forgotten.               *)
LEMMA RestartInv == ASSUME SInv, Restart PROVE SInv'
<1>1. /\ session < MaxSessions /\ session' = session + 1
      /\ wr_cli' = 0 /\ rd_cli' = 0 /\ wr_srv' = 0 /\ rd_srv' = 0
      /\ drift_cli' = 0 /\ drift_srv' = 0
      /\ cpc' = "idle" /\ leaving' = FALSE /\ records' = 0
      /\ spc' = "recv" /\ req' = Rest /\ unsent' = 0
      /\ UNCHANGED <<calls, res, faults, orderly>>
  BY DEF Restart
<1>2. UNCHANGED <<zone_cli, available_cli, free_cli, wpc_cli, out_cli, rpc_cli, want_cli, in_cli>>
  BY DEF Restart
<1>3. UNCHANGED <<zone_srv, available_srv, free_srv, wpc_srv, out_srv, rpc_srv, want_srv, in_srv>>
  BY DEF Restart
<1>4. 0 \in 0..(ZONE_SIZE - 1) /\ ZONE_SIZE \in Nat
  BY Sizes
<1>5. CliRing'
  <2>1. ToSrv!TypeOK'
    BY <1>1, <1>2, <1>4 DEF SInv, CliRing, ToSrv!TypeOK, ToSrv!Index
  <2>2. ToSrv!Credits'
    <3> DEFINE w == ToSrv!One(wpc_cli \in {"store", "post"})
               r == ToSrv!One(rpc_cli \in {"load", "post"})
    <3>1. /\ available_cli \in Nat /\ free_cli \in Nat /\ drift_cli \in Nat
          /\ w \in 0..1 /\ r \in 0..1 /\ w' = w /\ r' = r
          /\ available_cli + drift_cli + free_cli + w + r <= ZONE_SIZE
      BY <1>2 DEF SInv, CliRing, ToSrv!TypeOK, ToSrv!Credits, ToSrv!One
    <3>2. ToSrv!Credits' = (available_cli' + drift_cli' + free_cli' + w' + r' <= ZONE_SIZE)
      BY DEF ToSrv!Credits
    <3> HIDE DEF w, r
    <3>3. available_cli + 0 + free_cli + w + r <= ZONE_SIZE
      BY <1>4, <3>1
    <3>4. QED
      BY <1>1, <1>2, <3>1, <3>2, <3>3
  <2>3. QED
    BY <1>2, <2>1, <2>2 DEF SInv, CliRing, ToSrv!Index
<1>6. SrvRing'
  <2>1. ToCli!TypeOK'
    BY <1>1, <1>3, <1>4 DEF SInv, SrvRing, ToCli!TypeOK, ToCli!Index
  <2>2. ToCli!Credits'
    <3> DEFINE w == ToCli!One(wpc_srv \in {"store", "post"})
               r == ToCli!One(rpc_srv \in {"load", "post"})
    <3>1. /\ available_srv \in Nat /\ free_srv \in Nat /\ drift_srv \in Nat
          /\ w \in 0..1 /\ r \in 0..1 /\ w' = w /\ r' = r
          /\ available_srv + drift_srv + free_srv + w + r <= ZONE_SIZE
      BY <1>3 DEF SInv, SrvRing, ToCli!TypeOK, ToCli!Credits, ToCli!One
    <3>2. ToCli!Credits' = (available_srv' + drift_srv' + free_srv' + w' + r' <= ZONE_SIZE)
      BY DEF ToCli!Credits
    <3> HIDE DEF w, r
    <3>3. available_srv + 0 + free_srv + w + r <= ZONE_SIZE
      BY <1>4, <3>1
    <3>4. QED
      BY <1>1, <1>3, <3>1, <3>2, <3>3
  <2>3. QED
    BY <1>3, <2>1, <2>2 DEF SInv, SrvRing, ToCli!Index
<1>7. Ends'
  <2>1. session' \in 1..MaxSessions
    BY <1>1, Sizes DEF SInv, Ends
  <2>2. leaving' \in BOOLEAN /\ orderly' \in BOOLEAN
    BY <1>1 DEF SInv, Ends
  <2>3. req' \in Bytes /\ records' \in 0..1 /\ unsent' \in 0..1
    BY <1>1, RestIsByte
  <2>4. /\ cpc' = "idle" /\ spc' = "recv" /\ res' \in 0..MaxId /\ faults' \in 0..MaxFaults
    BY <1>1 DEF SInv, Ends
  <2>5. QED
    BY <2>1, <2>2, <2>3, <2>4 DEF Ends
<1>8. Counted'
  <2>1. session \in Nat /\ calls \in Nat /\ calls <= MaxCalls + session
    BY DEF SInv, Ends, Counted
  <2>2. QED
    BY <1>1, <2>1, Sizes DEF Counted
<1>9. QED
  BY <1>5, <1>6, <1>7, <1>8 DEF SInv

LEMMA InitInv == Init => SInv
<1> SUFFICES ASSUME Init PROVE SInv
  OBVIOUS
<1>1. \A S : [i \in S |-> Rest] \in [S -> Bytes] /\ [i \in S |-> Rest] \in [S -> Byte]
  BY RestIsByte, ByteFacts
<1>2. << >> \in Seq(Bytes) /\ << >> \in Seq(Byte) /\ 0 \in 0..(ZONE_SIZE - 1)
  BY Sizes
<1>3. CliRing
  <2>1. ToSrv!TypeOK
    BY <1>1, <1>2, Sizes DEF Init, ToSrv!Init, ToSrv!TypeOK, ToSrv!Index
  <2>2. ToSrv!Credits
    BY Sizes DEF Init, ToSrv!Init, ToSrv!Credits, ToSrv!One
  <2>3. QED
    BY <1>1, <1>2, <2>1, <2>2 DEF Init, ToSrv!Init, CliRing
<1>4. SrvRing
  <2>1. ToCli!TypeOK
    BY <1>1, <1>2, Sizes DEF Init, ToCli!Init, ToCli!TypeOK, ToCli!Index
  <2>2. ToCli!Credits
    BY Sizes DEF Init, ToCli!Init, ToCli!Credits, ToCli!One
  <2>3. QED
    BY <1>1, <1>2, <2>1, <2>2 DEF Init, ToCli!Init, SrvRing
<1>5. Ends
  <2>1. leaving \in BOOLEAN /\ orderly \in BOOLEAN /\ cpc = "idle" /\ spc = "recv"
    BY DEF Init
  <2>2. /\ req \in Bytes /\ records \in 0..1 /\ unsent \in 0..1 /\ res \in 0..MaxId
        /\ session \in 1..MaxSessions /\ faults \in 0..MaxFaults
    BY Sizes, RestIsByte DEF Init
  <2>3. QED
    BY <2>1, <2>2 DEF Ends
<1>6. Counted
  BY Sizes DEF Init, Counted, Said
<1>7. QED
  BY <1>3, <1>4, <1>5, <1>6 DEF SInv

LEMMA StutterInv == ASSUME SInv, UNCHANGED vars PROVE SInv'
<1>1. UNCHANGED <<toSrvVars, toCliVars, client, server, env>>
  BY DEF vars
<1>2. CliRing' /\ SrvRing'
  BY <1>1, CliStays, SrvStays DEF SInv
<1>3. Ends' /\ Counted'
  BY <1>1, CountStays DEF SInv, Ends, Said, toSrvVars, toCliVars, client, server, env
<1>4. QED
  BY <1>2, <1>3 DEF SInv

LEMMA NextInv == SInv /\ [Next]_vars => SInv'
<1> SUFFICES ASSUME SInv, [Next]_vars PROVE SInv'
  OBVIOUS
<1>1. ASSUME NEW kind \in Requests, Call(kind) PROVE SInv'
  BY <1>1, RequestInv DEF Call
<1>2. CASE SayGoodBye
  BY <1>2, RequestInv DEF SayGoodBye
<1>3. CASE Client
  BY <1>2, <1>3, SendStepInv, AwaitHeaderInv, RecvStepInv, TakeHeaderInv, TakeRecordInv
     DEF Client
<1>4. CASE Interrupt \/ Resize \/ KillClient
  BY <1>4, InterruptInv, ResizeInv, KillClientInv
<1>5. CASE Server
  BY <1>5, AwaitRequestInv, ReadStepInv, HandleInv, WriteStepInv, WriteRecordInv, RepliedInv
     DEF Server
<1>6. CASE KillServer
  BY <1>6, KillServerInv
<1>7. CASE Restart
  BY <1>7, RestartInv
<1>8. CASE UNCHANGED vars
  BY <1>8, StutterInv
<1>9. QED
  BY <1>1, <1>3, <1>4, <1>5, <1>6, <1>7, <1>8 DEF Next

LEMMA Invariance == Spec => []SInv
BY InitInv, NextInv, PTL DEF Spec

(* Types: the indices stay in their zones, no semaphore goes below zero,   *)
(* and nothing but the bytes of messages is ever in a ring (shmem.c).      *)
THEOREM TypeCorrect == Spec => []TypeOK
<1>1. SInv => TypeOK
  <2> SUFFICES ASSUME SInv PROVE TypeOK
    OBVIOUS
  <2>1. calls \in 0..MaxId
    BY Sizes DEF SInv, Counted, Ends, MaxId
  <2>2. req \in Byte
    BY ByteFacts DEF SInv, Ends
  <2>3. QED
    BY <2>1, <2>2 DEF SInv, CliRing, SrvRing, Ends, TypeOK
<1>2. QED
  BY <1>1, Invariance, PTL

(* In no session are more bytes counted than the ring has, although the    *)
(* semaphores of the last one are never unlinked, and whatever was cut     *)
(* short in it (shmem.c:119, :126, :181 and :212).                         *)
THEOREM CreditsAreKept == Spec => []NoByteIsOverwritten
<1>1. SInv => NoByteIsOverwritten
  BY DEF SInv, CliRing, SrvRing, NoByteIsOverwritten
<1>2. QED
  BY <1>1, Invariance, PTL

-----------------------------------------------------------------------------
(* The ring of the requests: what is in it, and what comes next *)

(* How many bytes are on their way or to be stored, the next of them, and  *)
(* that every byte of the ring is counted by a semaphore or an end.        *)
CliLeft == ToSrv!Pending + Len(out_cli)
CliNext == IF ToSrv!Pending > 0 THEN zone_cli[rd_cli] ELSE out_cli[1]
CliExact ==
  /\ drift_cli = 0
  /\ available_cli + free_cli + ToSrv!One(wpc_cli \in {"store", "post"})
       + ToSrv!One(rpc_cli \in {"load", "post"}) = ZONE_SIZE
  /\ wpc_cli = "idle" => out_cli = << >>
  /\ rpc_cli = "idle" => want_cli = 0

LEMMA CliTypes ==
  ASSUME CliRing
  PROVE  /\ zone_cli \in [Place -> Byte] /\ available_cli \in Nat /\ free_cli \in Nat
         /\ wr_cli \in Place /\ rd_cli \in Place /\ drift_cli \in Nat /\ want_cli \in Nat
         /\ wpc_cli \in {"idle", "wait", "store", "post"}
         /\ rpc_cli \in {"idle", "wait", "load", "post"}
         /\ out_cli \in Seq(Bytes) /\ in_cli \in Seq(Bytes)
         /\ out_cli \in Seq(Byte) /\ in_cli \in Seq(Byte)
         /\ wpc_cli \in {"wait", "store"} => out_cli # << >>
         /\ rpc_cli \in {"wait", "load"} => want_cli > 0
BY DEF CliRing, ToSrv!TypeOK, ToSrv!Index, Place

LEMMA CliPending ==
  ASSUME CliRing
  PROVE  /\ ToSrv!Pending \in 0..ZONE_SIZE
         /\ wpc_cli = "store" => ToSrv!Pending \in 0..(ZONE_SIZE - 1)
         /\ rpc_cli = "load" => ToSrv!Pending - 1 \in 0..(ZONE_SIZE - 1)
         /\ wpc_cli = "post" => ToSrv!Pending > 0
         /\ available_cli <= ToSrv!Pending
<1>1. /\ available_cli \in Nat /\ free_cli \in Nat /\ drift_cli \in Nat /\ ZONE_SIZE \in Nat
      /\ available_cli + drift_cli + free_cli + ToSrv!One(wpc_cli \in {"store", "post"})
           + ToSrv!One(rpc_cli \in {"load", "post"}) <= ZONE_SIZE
  BY Sizes, CliTypes DEF CliRing, ToSrv!Credits
<1>2. QED
  BY <1>1 DEF ToSrv!Pending, ToSrv!One

LEMMA CliStore ==
  ASSUME CliRing, ToSrv!SendStore
  PROVE  /\ ToSrv!Pending \in 0..(ZONE_SIZE - 1) /\ ToSrv!Pending' = ToSrv!Pending + 1
         /\ out_cli # << >> /\ Head(out_cli) \in Byte
         /\ out_cli' = Tail(out_cli) /\ zone_cli' = [zone_cli EXCEPT ![wr_cli] = Head(out_cli)]
         /\ wr_cli' = (wr_cli + 1) % ZONE_SIZE
         /\ UNCHANGED <<rd_cli, rpc_cli, want_cli, in_cli, drift_cli>>
<1>1. ToSrv!Pending \in 0..(ZONE_SIZE - 1)
  BY CliPending DEF ToSrv!SendStore
<1>2. ToSrv!Pending' = ToSrv!Pending + 1
  BY CliTypes DEF ToSrv!SendStore, ToSrv!Pending, ToSrv!One, ToSrv!reader
<1>3. out_cli # << >> /\ Head(out_cli) \in Byte
  BY CliTypes DEF ToSrv!SendStore
<1>4. QED
  BY <1>1, <1>2, <1>3 DEF ToSrv!SendStore, ToSrv!reader

LEMMA CliLoad ==
  ASSUME CliRing, ToSrv!RecvLoad
  PROVE  /\ ToSrv!Pending - 1 \in 0..(ZONE_SIZE - 1) /\ ToSrv!Pending' = ToSrv!Pending - 1
         /\ in_cli' = Append(in_cli, zone_cli[rd_cli]) /\ rd_cli' = (rd_cli + 1) % ZONE_SIZE
         /\ want_cli' = want_cli - 1 /\ want_cli > 0 /\ rpc_cli' = "post"
         /\ UNCHANGED <<zone_cli, wr_cli, wpc_cli, out_cli, drift_cli>>
<1>1. ToSrv!Pending - 1 \in 0..(ZONE_SIZE - 1) /\ want_cli > 0
  BY CliPending, CliTypes DEF ToSrv!RecvLoad
<1>2. ToSrv!Pending' = ToSrv!Pending - 1
  BY CliTypes DEF ToSrv!RecvLoad, ToSrv!Pending, ToSrv!One, ToSrv!writer
<1>3. QED
  BY <1>1, <1>2 DEF ToSrv!RecvLoad, ToSrv!writer

LEMMA CliStay ==
  ASSUME CliRing,
         \/ \E m \in Seq(Bytes) : ToSrv!Send(m)
         \/ \E n \in Nat : ToSrv!Recv(n)
         \/ ToSrv!SendWait \/ ToSrv!SendPost \/ ToSrv!CutSend
         \/ ToSrv!RecvWait \/ ToSrv!RecvPost \/ ToSrv!CutRecv
  PROVE  /\ ToSrv!Pending' = ToSrv!Pending /\ rd_cli' = rd_cli /\ wr_cli' = wr_cli
         /\ zone_cli' = zone_cli
<1>1. CASE \E m \in Seq(Bytes) : ToSrv!Send(m)
  BY <1>1 DEF ToSrv!Send, ToSrv!reader, ToSrv!Pending, ToSrv!One
<1>2. CASE \E n \in Nat : ToSrv!Recv(n)
  BY <1>2 DEF ToSrv!Recv, ToSrv!writer, ToSrv!Pending, ToSrv!One
<1>3. CASE ToSrv!SendWait
  BY <1>3, CliTypes DEF ToSrv!SendWait, ToSrv!reader, ToSrv!Pending, ToSrv!One
<1>4. CASE ToSrv!SendPost
  BY <1>4, CliTypes DEF ToSrv!SendPost, ToSrv!reader, ToSrv!Pending, ToSrv!One
<1>5. CASE ToSrv!CutSend
  BY <1>5, CliTypes DEF ToSrv!CutSend, ToSrv!reader, ToSrv!Pending, ToSrv!One
<1>6. CASE ToSrv!RecvWait
  BY <1>6, CliTypes DEF ToSrv!RecvWait, ToSrv!writer, ToSrv!Pending, ToSrv!One
<1>7. CASE ToSrv!RecvPost
  BY <1>7, CliTypes DEF ToSrv!RecvPost, ToSrv!writer, ToSrv!Pending, ToSrv!One
<1>8. CASE ToSrv!CutRecv
  BY <1>8, CliTypes DEF ToSrv!CutRecv, ToSrv!writer, ToSrv!Pending, ToSrv!One
<1>9. QED
  BY <1>1, <1>2, <1>3, <1>4, <1>5, <1>6, <1>7, <1>8

(* As long as the indices are in step, a step of the ring is one of a pipe. *)
LEMMA CliPipe ==
  ASSUME CliRing, ToSrv!Distance,
         \/ \E m \in Seq(Bytes) : ToSrv!Send(m)
         \/ \E n \in Nat : ToSrv!Recv(n)
         \/ ToSrv!Sending \/ ToSrv!Receiving \/ ToSrv!CutSend \/ ToSrv!CutRecv
  PROVE  ToSrv!Distance' /\ [ToSrv!P!Next]_(ToSrv!P!vars)
<1>1. /\ zone_cli \in [Place -> Byte] /\ rd_cli \in Place /\ ToSrv!Pending \in 0..ZONE_SIZE
      /\ wr_cli = (rd_cli + ToSrv!Pending) % ZONE_SIZE
  BY CliTypes, CliPending DEF ToSrv!Distance
<1>2. ToSrv!Contents = Held(zone_cli, rd_cli, ToSrv!Pending)
  BY DEF ToSrv!Contents, Held
<1>3. ToSrv!Contents' = Held(zone_cli', rd_cli', ToSrv!Pending')
  BY DEF ToSrv!Contents, Held
<1>4. ToSrv!Distance' = (wr_cli' = (rd_cli' + ToSrv!Pending') % ZONE_SIZE)
  BY DEF ToSrv!Distance
<1>5. CASE ToSrv!SendStore
  <2>1. wr_cli' = (rd_cli + (ToSrv!Pending + 1)) % ZONE_SIZE
    BY <1>1, <1>5, CliStore, WrapAdvance
  <2>2. ToSrv!Contents' = Append(ToSrv!Contents, Head(out_cli))
    <3>1. /\ ToSrv!Pending \in 0..(ZONE_SIZE - 1) /\ Head(out_cli) \in Byte
          /\ ToSrv!Pending' = ToSrv!Pending + 1 /\ rd_cli' = rd_cli
          /\ zone_cli' = [zone_cli EXCEPT ![wr_cli] = Head(out_cli)]
      BY <1>5, CliStore
    <3>2. Held([zone_cli EXCEPT ![(rd_cli + ToSrv!Pending) % ZONE_SIZE] = Head(out_cli)],
               rd_cli, ToSrv!Pending + 1)
            = Append(Held(zone_cli, rd_cli, ToSrv!Pending), Head(out_cli))
      BY <1>1, <3>1, StoredBehind
    <3>3. QED
      BY <1>1, <1>2, <1>3, <3>1, <3>2
  <2>3. Len(ToSrv!Contents) < ZONE_SIZE
    BY <1>1, <1>2, <1>5, CliStore, HeldFacts, Sizes
  <2>4. ToSrv!P!Put
    BY <1>5, <2>2, <2>3, CliStore DEF ToSrv!P!Put
  <2>5. QED
    BY <1>4, <1>5, <2>1, <2>4, CliStore DEF ToSrv!P!Next
<1>6. CASE ToSrv!RecvLoad
  <2> DEFINE n == ToSrv!Pending - 1
  <2>1. n \in 0..(ZONE_SIZE - 1) /\ ToSrv!Pending = n + 1 /\ ToSrv!Pending' = n
    BY <1>1, <1>6, CliLoad, Sizes
  <2> HIDE DEF n
  <2>2. wr_cli' = (rd_cli' + n) % ZONE_SIZE
    BY <1>1, <1>6, <2>1, CliLoad, WrapConsume
  <2>3. /\ ToSrv!Contents # << >> /\ Head(ToSrv!Contents) = zone_cli[rd_cli]
        /\ ToSrv!Contents' = Tail(ToSrv!Contents)
    BY <1>1, <1>2, <1>3, <1>6, <2>1, CliLoad, LoadedFirst
  <2>4. ToSrv!P!Get
    BY <1>6, <2>3, CliLoad DEF ToSrv!P!Get
  <2>5. QED
    BY <1>4, <2>1, <2>2, <2>4 DEF ToSrv!P!Next
<1>7. CASE \/ \E m \in Seq(Bytes) : ToSrv!Send(m)
           \/ \E n \in Nat : ToSrv!Recv(n)
           \/ ToSrv!SendWait \/ ToSrv!SendPost \/ ToSrv!CutSend
           \/ ToSrv!RecvWait \/ ToSrv!RecvPost \/ ToSrv!CutRecv
  <2>1. /\ ToSrv!Pending' = ToSrv!Pending /\ rd_cli' = rd_cli /\ wr_cli' = wr_cli
        /\ zone_cli' = zone_cli
    BY <1>7, CliStay
  <2>2. ToSrv!Distance' /\ ToSrv!Contents' = ToSrv!Contents
    BY <1>1, <1>2, <1>3, <1>4, <2>1
  <2>3. \/ out_cli = << >> /\ out_cli' \in Seq(Byte) /\ UNCHANGED in_cli
        \/ in_cli' = << >> /\ UNCHANGED out_cli
        \/ UNCHANGED <<out_cli, in_cli>>
        \/ out_cli' = << >> /\ UNCHANGED in_cli
    BY <1>7, SeqOfBytes DEF ToSrv!Send, ToSrv!Recv, ToSrv!SendWait, ToSrv!SendPost,
       ToSrv!CutSend, ToSrv!RecvWait, ToSrv!RecvPost, ToSrv!CutRecv, ToSrv!reader, ToSrv!writer
  <2>4. QED
    BY <2>2, <2>3 DEF ToSrv!P!Next, ToSrv!P!vars, ToSrv!P!Send, ToSrv!P!Recv, ToSrv!P!GiveUp
<1>8. QED
  BY <1>5, <1>6, <1>7 DEF ToSrv!Sending, ToSrv!Receiving

LEMMA CliSame ==
  ASSUME UNCHANGED toSrvVars
  PROVE  /\ ToSrv!Distance' = ToSrv!Distance /\ UNCHANGED ToSrv!P!vars
         /\ CliExact' = CliExact /\ CliLeft' = CliLeft /\ CliNext' = CliNext
         /\ UNCHANGED <<wpc_cli, out_cli, rpc_cli, want_cli, in_cli>>
BY DEF toSrvVars, ToSrv!Distance, ToSrv!P!vars, ToSrv!Contents, ToSrv!Pending, ToSrv!One,
       CliExact, CliLeft, CliNext

LEMMA CliLefts ==
  ASSUME CliRing
  PROVE  /\ CliLeft \in Nat /\ ToSrv!Pending \in Nat /\ Len(out_cli) \in Nat
         /\ CliLeft = 0 => /\ ToSrv!Pending = 0 /\ available_cli = 0 /\ out_cli = << >>
                           /\ wpc_cli = "idle" /\ rpc_cli # "load"
<1>1. ToSrv!Pending \in Nat /\ Len(out_cli) \in Nat /\ available_cli \in Nat
  BY CliPending, CliTypes, Sizes
<1>2. CliLeft = 0 => ToSrv!Pending = 0 /\ Len(out_cli) = 0
  BY <1>1 DEF CliLeft
<1>3. Len(out_cli) = 0 => out_cli = << >>
  BY CliTypes
<1>4. CliLeft = 0 => wpc_cli = "idle" /\ rpc_cli # "load" /\ available_cli = 0
  BY <1>1, <1>2, <1>3, CliTypes, CliPending
<1>5. QED
  BY <1>1, <1>2, <1>3, <1>4 DEF CliLeft

LEMMA CliSend ==
  ASSUME CliRing, CliExact, NEW m \in Seq(Bytes), ToSrv!Send(m)
  PROVE  /\ CliExact' /\ CliLeft' = CliLeft + Len(m) /\ UNCHANGED <<rpc_cli, want_cli, in_cli>>
         /\ CliNext' = IF CliLeft > 0 THEN CliNext ELSE m[1]
<1>1. ToSrv!Pending' = ToSrv!Pending /\ zone_cli' = zone_cli /\ rd_cli' = rd_cli
  BY CliStay
<1>2. CliExact'
  BY CliTypes DEF CliExact, ToSrv!Send, ToSrv!One, ToSrv!reader
<1>3. out_cli = << >> /\ out_cli' = m /\ UNCHANGED <<rpc_cli, want_cli, in_cli>>
  BY DEF ToSrv!Send, ToSrv!reader
<1>4. CliLeft = ToSrv!Pending /\ ToSrv!Pending \in Nat
  BY <1>3, CliLefts DEF CliLeft
<1>5. QED
  BY <1>1, <1>2, <1>3, <1>4 DEF CliLeft, CliNext

LEMMA CliRecv ==
  ASSUME CliRing, CliExact, NEW n \in Nat, ToSrv!Recv(n)
  PROVE  /\ CliExact' /\ CliLeft' = CliLeft /\ CliNext' = CliNext
         /\ in_cli' = << >> /\ want_cli' = n
<1>1. ToSrv!Pending' = ToSrv!Pending /\ rd_cli' = rd_cli /\ zone_cli' = zone_cli
  BY CliStay
<1>2. out_cli' = out_cli /\ in_cli' = << >> /\ want_cli' = n
  BY DEF ToSrv!Recv, ToSrv!writer
<1>3. CliExact'
  BY CliTypes DEF CliExact, ToSrv!Recv, ToSrv!One, ToSrv!writer
<1>4. QED
  BY <1>1, <1>2, <1>3 DEF CliLeft, CliNext

(* Nothing that is sent changes what comes next, and nothing that is read  *)
(* but the byte that did.                                                  *)
LEMMA CliSending ==
  ASSUME CliRing, CliExact, ToSrv!Distance, ToSrv!Sending
  PROVE  /\ CliExact' /\ CliLeft' = CliLeft /\ CliNext' = CliNext /\ CliLeft > 0
         /\ UNCHANGED <<rpc_cli, want_cli, in_cli>>
<1>1. /\ available_cli \in Nat /\ free_cli \in Nat /\ ZONE_SIZE \in Nat
      /\ ToSrv!Pending \in Nat /\ Len(out_cli) \in Nat
  BY CliTypes, CliLefts, Sizes
<1>2. CASE ToSrv!SendWait
  <2>1. /\ ToSrv!Pending' = ToSrv!Pending /\ rd_cli' = rd_cli /\ zone_cli' = zone_cli
        /\ out_cli' = out_cli /\ UNCHANGED <<rpc_cli, want_cli, in_cli>>
    BY <1>2, CliStay DEF ToSrv!SendWait, ToSrv!reader
  <2>2. CliExact'
    BY <1>1, <1>2, CliTypes DEF CliExact, ToSrv!SendWait, ToSrv!One, ToSrv!reader
  <2>3. CliLeft > 0
    BY <1>1, <1>2, CliTypes, CliLefts DEF ToSrv!SendWait
  <2>4. QED
    BY <2>1, <2>2, <2>3 DEF CliLeft, CliNext
<1>3. CASE ToSrv!SendPost
  <2>1. /\ ToSrv!Pending' = ToSrv!Pending /\ rd_cli' = rd_cli /\ zone_cli' = zone_cli
        /\ out_cli' = out_cli /\ UNCHANGED <<rpc_cli, want_cli, in_cli>>
    BY <1>3, CliStay DEF ToSrv!SendPost, ToSrv!reader
  <2>2. CliExact'
    BY <1>1, <1>3, CliTypes DEF CliExact, ToSrv!SendPost, ToSrv!One, ToSrv!reader
  <2>3. CliLeft > 0
    BY <1>1, <1>3, CliTypes, CliLefts DEF ToSrv!SendPost
  <2>4. QED
    BY <2>1, <2>2, <2>3 DEF CliLeft, CliNext
<1>4. CASE ToSrv!SendStore
  <2>1. /\ ToSrv!Pending \in 0..(ZONE_SIZE - 1) /\ ToSrv!Pending' = ToSrv!Pending + 1
        /\ out_cli # << >> /\ out_cli' = Tail(out_cli) /\ rd_cli' = rd_cli
        /\ zone_cli' = [zone_cli EXCEPT ![wr_cli] = Head(out_cli)]
        /\ UNCHANGED <<rpc_cli, want_cli, in_cli>>
    BY <1>4, CliStore
  <2>2. CliExact'
    BY <1>1, <1>4, CliTypes DEF CliExact, ToSrv!SendStore, ToSrv!One, ToSrv!reader
  <2>3. Len(out_cli') = Len(out_cli) - 1 /\ Len(out_cli) > 0 /\ Head(out_cli) = out_cli[1]
    BY <2>1, CliTypes
  <2>4. CliLeft' = CliLeft /\ CliLeft > 0
    BY <1>1, <2>1, <2>3 DEF CliLeft
  <2>5. CliNext' = zone_cli'[rd_cli]
    BY <1>1, <2>1 DEF CliNext
  <2>6. rd_cli \in Place /\ wr_cli = (rd_cli + ToSrv!Pending) % ZONE_SIZE
        /\ zone_cli \in [Place -> Byte]
    BY CliTypes DEF ToSrv!Distance
  <2>7. rd_cli = (rd_cli + 0) % ZONE_SIZE /\ 0 \in 0..(ZONE_SIZE - 1)
    BY <2>6, Sizes, SMT DEF Place
  <2>8. CASE ToSrv!Pending = 0
    <3>1. wr_cli = rd_cli
      BY <2>6, <2>7, <2>8
    <3>2. QED
      BY <2>1, <2>2, <2>3, <2>4, <2>5, <2>6, <2>8, <3>1 DEF CliNext
  <2>9. CASE ToSrv!Pending # 0
    <3>1. wr_cli # rd_cli
      BY <2>1, <2>6, <2>7, <2>9, WrapApart
    <3>2. zone_cli'[rd_cli] = zone_cli[rd_cli]
      BY <2>1, <2>6, <3>1
    <3>3. CliNext = zone_cli[rd_cli]
      BY <1>1, <2>9 DEF CliNext
    <3>4. QED
      BY <2>1, <2>2, <2>4, <2>5, <3>2, <3>3
  <2>10. QED
    BY <2>8, <2>9
<1>5. QED
  BY <1>2, <1>3, <1>4 DEF ToSrv!Sending

LEMMA CliReceiving ==
  ASSUME CliRing, CliExact, ToSrv!Receiving
  PROVE  /\ CliExact' /\ UNCHANGED <<wpc_cli, out_cli>>
         /\ \/ UNCHANGED <<in_cli, want_cli>> /\ CliLeft' = CliLeft /\ CliNext' = CliNext
            \/ /\ in_cli' = Append(in_cli, CliNext) /\ want_cli' = want_cli - 1
               /\ CliLeft' = CliLeft - 1 /\ CliLeft > 0
<1>1. /\ available_cli \in Nat /\ free_cli \in Nat /\ ZONE_SIZE \in Nat
      /\ ToSrv!Pending \in Nat /\ Len(out_cli) \in Nat
  BY CliTypes, CliLefts, Sizes
<1>2. CASE ToSrv!RecvWait \/ ToSrv!RecvPost
  <2>1. /\ ToSrv!Pending' = ToSrv!Pending /\ rd_cli' = rd_cli /\ zone_cli' = zone_cli
    BY <1>2, CliStay
  <2>2. UNCHANGED <<wpc_cli, out_cli, in_cli, want_cli>>
    BY <1>2 DEF ToSrv!RecvWait, ToSrv!RecvPost, ToSrv!writer
  <2>3. ToSrv!RecvWait => CliExact'
    BY <1>1, CliTypes DEF CliExact, ToSrv!RecvWait, ToSrv!One, ToSrv!writer
  <2>4. ToSrv!RecvPost => CliExact'
    BY <1>1, CliTypes DEF CliExact, ToSrv!RecvPost, ToSrv!One, ToSrv!writer
  <2>5. QED
    BY <1>2, <2>1, <2>2, <2>3, <2>4 DEF CliLeft, CliNext
<1>3. CASE ToSrv!RecvLoad
  <2>1. /\ ToSrv!Pending - 1 \in 0..(ZONE_SIZE - 1) /\ ToSrv!Pending' = ToSrv!Pending - 1
        /\ in_cli' = Append(in_cli, zone_cli[rd_cli])
        /\ want_cli' = want_cli - 1
        /\ UNCHANGED <<wpc_cli, out_cli>>
    BY <1>3, CliLoad
  <2>2. CliExact'
    BY <1>1, <1>3, CliTypes DEF CliExact, ToSrv!RecvLoad, ToSrv!One, ToSrv!writer
  <2>3. CliNext = zone_cli[rd_cli]
    BY <1>1, <2>1 DEF CliNext
  <2>4. CliLeft' = CliLeft - 1 /\ CliLeft > 0
    BY <1>1, <2>1 DEF CliLeft
  <2>5. QED
    BY <2>1, <2>2, <2>3, <2>4
<1>4. QED
  BY <1>2, <1>3 DEF ToSrv!Receiving

-----------------------------------------------------------------------------
(* The ring of the answers *)

(* How many bytes are on their way or to be stored, the next of them, and  *)
(* that every byte of the ring is counted by a semaphore or an end.        *)
SrvLeft == ToCli!Pending + Len(out_srv)
SrvNext == IF ToCli!Pending > 0 THEN zone_srv[rd_srv] ELSE out_srv[1]
SrvExact ==
  /\ drift_srv = 0
  /\ available_srv + free_srv + ToCli!One(wpc_srv \in {"store", "post"})
       + ToCli!One(rpc_srv \in {"load", "post"}) = ZONE_SIZE
  /\ wpc_srv = "idle" => out_srv = << >>
  /\ rpc_srv = "idle" => want_srv = 0

LEMMA SrvTypes ==
  ASSUME SrvRing
  PROVE  /\ zone_srv \in [Place -> Byte] /\ available_srv \in Nat /\ free_srv \in Nat
         /\ wr_srv \in Place /\ rd_srv \in Place /\ drift_srv \in Nat /\ want_srv \in Nat
         /\ wpc_srv \in {"idle", "wait", "store", "post"}
         /\ rpc_srv \in {"idle", "wait", "load", "post"}
         /\ out_srv \in Seq(Bytes) /\ in_srv \in Seq(Bytes)
         /\ out_srv \in Seq(Byte) /\ in_srv \in Seq(Byte)
         /\ wpc_srv \in {"wait", "store"} => out_srv # << >>
         /\ rpc_srv \in {"wait", "load"} => want_srv > 0
BY DEF SrvRing, ToCli!TypeOK, ToCli!Index, Place

LEMMA SrvPending ==
  ASSUME SrvRing
  PROVE  /\ ToCli!Pending \in 0..ZONE_SIZE
         /\ wpc_srv = "store" => ToCli!Pending \in 0..(ZONE_SIZE - 1)
         /\ rpc_srv = "load" => ToCli!Pending - 1 \in 0..(ZONE_SIZE - 1)
         /\ wpc_srv = "post" => ToCli!Pending > 0
         /\ available_srv <= ToCli!Pending
<1>1. /\ available_srv \in Nat /\ free_srv \in Nat /\ drift_srv \in Nat /\ ZONE_SIZE \in Nat
      /\ available_srv + drift_srv + free_srv + ToCli!One(wpc_srv \in {"store", "post"})
           + ToCli!One(rpc_srv \in {"load", "post"}) <= ZONE_SIZE
  BY Sizes, SrvTypes DEF SrvRing, ToCli!Credits
<1>2. QED
  BY <1>1 DEF ToCli!Pending, ToCli!One

LEMMA SrvStore ==
  ASSUME SrvRing, ToCli!SendStore
  PROVE  /\ ToCli!Pending \in 0..(ZONE_SIZE - 1) /\ ToCli!Pending' = ToCli!Pending + 1
         /\ out_srv # << >> /\ Head(out_srv) \in Byte
         /\ out_srv' = Tail(out_srv) /\ zone_srv' = [zone_srv EXCEPT ![wr_srv] = Head(out_srv)]
         /\ wr_srv' = (wr_srv + 1) % ZONE_SIZE
         /\ UNCHANGED <<rd_srv, rpc_srv, want_srv, in_srv, drift_srv>>
<1>1. ToCli!Pending \in 0..(ZONE_SIZE - 1)
  BY SrvPending DEF ToCli!SendStore
<1>2. ToCli!Pending' = ToCli!Pending + 1
  BY SrvTypes DEF ToCli!SendStore, ToCli!Pending, ToCli!One, ToCli!reader
<1>3. out_srv # << >> /\ Head(out_srv) \in Byte
  BY SrvTypes DEF ToCli!SendStore
<1>4. QED
  BY <1>1, <1>2, <1>3 DEF ToCli!SendStore, ToCli!reader

LEMMA SrvLoad ==
  ASSUME SrvRing, ToCli!RecvLoad
  PROVE  /\ ToCli!Pending - 1 \in 0..(ZONE_SIZE - 1) /\ ToCli!Pending' = ToCli!Pending - 1
         /\ in_srv' = Append(in_srv, zone_srv[rd_srv]) /\ rd_srv' = (rd_srv + 1) % ZONE_SIZE
         /\ want_srv' = want_srv - 1 /\ want_srv > 0 /\ rpc_srv' = "post"
         /\ UNCHANGED <<zone_srv, wr_srv, wpc_srv, out_srv, drift_srv>>
<1>1. ToCli!Pending - 1 \in 0..(ZONE_SIZE - 1) /\ want_srv > 0
  BY SrvPending, SrvTypes DEF ToCli!RecvLoad
<1>2. ToCli!Pending' = ToCli!Pending - 1
  BY SrvTypes DEF ToCli!RecvLoad, ToCli!Pending, ToCli!One, ToCli!writer
<1>3. QED
  BY <1>1, <1>2 DEF ToCli!RecvLoad, ToCli!writer

LEMMA SrvStay ==
  ASSUME SrvRing,
         \/ \E m \in Seq(Bytes) : ToCli!Send(m)
         \/ \E n \in Nat : ToCli!Recv(n)
         \/ ToCli!SendWait \/ ToCli!SendPost \/ ToCli!CutSend
         \/ ToCli!RecvWait \/ ToCli!RecvPost \/ ToCli!CutRecv
  PROVE  /\ ToCli!Pending' = ToCli!Pending /\ rd_srv' = rd_srv /\ wr_srv' = wr_srv
         /\ zone_srv' = zone_srv
<1>1. CASE \E m \in Seq(Bytes) : ToCli!Send(m)
  BY <1>1 DEF ToCli!Send, ToCli!reader, ToCli!Pending, ToCli!One
<1>2. CASE \E n \in Nat : ToCli!Recv(n)
  BY <1>2 DEF ToCli!Recv, ToCli!writer, ToCli!Pending, ToCli!One
<1>3. CASE ToCli!SendWait
  BY <1>3, SrvTypes DEF ToCli!SendWait, ToCli!reader, ToCli!Pending, ToCli!One
<1>4. CASE ToCli!SendPost
  BY <1>4, SrvTypes DEF ToCli!SendPost, ToCli!reader, ToCli!Pending, ToCli!One
<1>5. CASE ToCli!CutSend
  BY <1>5, SrvTypes DEF ToCli!CutSend, ToCli!reader, ToCli!Pending, ToCli!One
<1>6. CASE ToCli!RecvWait
  BY <1>6, SrvTypes DEF ToCli!RecvWait, ToCli!writer, ToCli!Pending, ToCli!One
<1>7. CASE ToCli!RecvPost
  BY <1>7, SrvTypes DEF ToCli!RecvPost, ToCli!writer, ToCli!Pending, ToCli!One
<1>8. CASE ToCli!CutRecv
  BY <1>8, SrvTypes DEF ToCli!CutRecv, ToCli!writer, ToCli!Pending, ToCli!One
<1>9. QED
  BY <1>1, <1>2, <1>3, <1>4, <1>5, <1>6, <1>7, <1>8

(* As long as the indices are in step, a step of the ring is one of a pipe. *)
LEMMA SrvPipe ==
  ASSUME SrvRing, ToCli!Distance,
         \/ \E m \in Seq(Bytes) : ToCli!Send(m)
         \/ \E n \in Nat : ToCli!Recv(n)
         \/ ToCli!Sending \/ ToCli!Receiving \/ ToCli!CutSend \/ ToCli!CutRecv
  PROVE  ToCli!Distance' /\ [ToCli!P!Next]_(ToCli!P!vars)
<1>1. /\ zone_srv \in [Place -> Byte] /\ rd_srv \in Place /\ ToCli!Pending \in 0..ZONE_SIZE
      /\ wr_srv = (rd_srv + ToCli!Pending) % ZONE_SIZE
  BY SrvTypes, SrvPending DEF ToCli!Distance
<1>2. ToCli!Contents = Held(zone_srv, rd_srv, ToCli!Pending)
  BY DEF ToCli!Contents, Held
<1>3. ToCli!Contents' = Held(zone_srv', rd_srv', ToCli!Pending')
  BY DEF ToCli!Contents, Held
<1>4. ToCli!Distance' = (wr_srv' = (rd_srv' + ToCli!Pending') % ZONE_SIZE)
  BY DEF ToCli!Distance
<1>5. CASE ToCli!SendStore
  <2>1. wr_srv' = (rd_srv + (ToCli!Pending + 1)) % ZONE_SIZE
    BY <1>1, <1>5, SrvStore, WrapAdvance
  <2>2. ToCli!Contents' = Append(ToCli!Contents, Head(out_srv))
    <3>1. /\ ToCli!Pending \in 0..(ZONE_SIZE - 1) /\ Head(out_srv) \in Byte
          /\ ToCli!Pending' = ToCli!Pending + 1 /\ rd_srv' = rd_srv
          /\ zone_srv' = [zone_srv EXCEPT ![wr_srv] = Head(out_srv)]
      BY <1>5, SrvStore
    <3>2. Held([zone_srv EXCEPT ![(rd_srv + ToCli!Pending) % ZONE_SIZE] = Head(out_srv)],
               rd_srv, ToCli!Pending + 1)
            = Append(Held(zone_srv, rd_srv, ToCli!Pending), Head(out_srv))
      BY <1>1, <3>1, StoredBehind
    <3>3. QED
      BY <1>1, <1>2, <1>3, <3>1, <3>2
  <2>3. Len(ToCli!Contents) < ZONE_SIZE
    BY <1>1, <1>2, <1>5, SrvStore, HeldFacts, Sizes
  <2>4. ToCli!P!Put
    BY <1>5, <2>2, <2>3, SrvStore DEF ToCli!P!Put
  <2>5. QED
    BY <1>4, <1>5, <2>1, <2>4, SrvStore DEF ToCli!P!Next
<1>6. CASE ToCli!RecvLoad
  <2> DEFINE n == ToCli!Pending - 1
  <2>1. n \in 0..(ZONE_SIZE - 1) /\ ToCli!Pending = n + 1 /\ ToCli!Pending' = n
    BY <1>1, <1>6, SrvLoad, Sizes
  <2> HIDE DEF n
  <2>2. wr_srv' = (rd_srv' + n) % ZONE_SIZE
    BY <1>1, <1>6, <2>1, SrvLoad, WrapConsume
  <2>3. /\ ToCli!Contents # << >> /\ Head(ToCli!Contents) = zone_srv[rd_srv]
        /\ ToCli!Contents' = Tail(ToCli!Contents)
    BY <1>1, <1>2, <1>3, <1>6, <2>1, SrvLoad, LoadedFirst
  <2>4. ToCli!P!Get
    BY <1>6, <2>3, SrvLoad DEF ToCli!P!Get
  <2>5. QED
    BY <1>4, <2>1, <2>2, <2>4 DEF ToCli!P!Next
<1>7. CASE \/ \E m \in Seq(Bytes) : ToCli!Send(m)
           \/ \E n \in Nat : ToCli!Recv(n)
           \/ ToCli!SendWait \/ ToCli!SendPost \/ ToCli!CutSend
           \/ ToCli!RecvWait \/ ToCli!RecvPost \/ ToCli!CutRecv
  <2>1. /\ ToCli!Pending' = ToCli!Pending /\ rd_srv' = rd_srv /\ wr_srv' = wr_srv
        /\ zone_srv' = zone_srv
    BY <1>7, SrvStay
  <2>2. ToCli!Distance' /\ ToCli!Contents' = ToCli!Contents
    BY <1>1, <1>2, <1>3, <1>4, <2>1
  <2>3. \/ out_srv = << >> /\ out_srv' \in Seq(Byte) /\ UNCHANGED in_srv
        \/ in_srv' = << >> /\ UNCHANGED out_srv
        \/ UNCHANGED <<out_srv, in_srv>>
        \/ out_srv' = << >> /\ UNCHANGED in_srv
    BY <1>7, SeqOfBytes DEF ToCli!Send, ToCli!Recv, ToCli!SendWait, ToCli!SendPost,
       ToCli!CutSend, ToCli!RecvWait, ToCli!RecvPost, ToCli!CutRecv, ToCli!reader, ToCli!writer
  <2>4. QED
    BY <2>2, <2>3 DEF ToCli!P!Next, ToCli!P!vars, ToCli!P!Send, ToCli!P!Recv, ToCli!P!GiveUp
<1>8. QED
  BY <1>5, <1>6, <1>7 DEF ToCli!Sending, ToCli!Receiving

LEMMA SrvSame ==
  ASSUME UNCHANGED toCliVars
  PROVE  /\ ToCli!Distance' = ToCli!Distance /\ UNCHANGED ToCli!P!vars
         /\ SrvExact' = SrvExact /\ SrvLeft' = SrvLeft /\ SrvNext' = SrvNext
         /\ UNCHANGED <<wpc_srv, out_srv, rpc_srv, want_srv, in_srv>>
BY DEF toCliVars, ToCli!Distance, ToCli!P!vars, ToCli!Contents, ToCli!Pending, ToCli!One,
       SrvExact, SrvLeft, SrvNext

LEMMA SrvLefts ==
  ASSUME SrvRing
  PROVE  /\ SrvLeft \in Nat /\ ToCli!Pending \in Nat /\ Len(out_srv) \in Nat
         /\ SrvLeft = 0 => /\ ToCli!Pending = 0 /\ available_srv = 0 /\ out_srv = << >>
                           /\ wpc_srv = "idle" /\ rpc_srv # "load"
<1>1. ToCli!Pending \in Nat /\ Len(out_srv) \in Nat /\ available_srv \in Nat
  BY SrvPending, SrvTypes, Sizes
<1>2. SrvLeft = 0 => ToCli!Pending = 0 /\ Len(out_srv) = 0
  BY <1>1 DEF SrvLeft
<1>3. Len(out_srv) = 0 => out_srv = << >>
  BY SrvTypes
<1>4. SrvLeft = 0 => wpc_srv = "idle" /\ rpc_srv # "load" /\ available_srv = 0
  BY <1>1, <1>2, <1>3, SrvTypes, SrvPending
<1>5. QED
  BY <1>1, <1>2, <1>3, <1>4 DEF SrvLeft

LEMMA SrvSend ==
  ASSUME SrvRing, SrvExact, NEW m \in Seq(Bytes), ToCli!Send(m)
  PROVE  /\ SrvExact' /\ SrvLeft' = SrvLeft + Len(m) /\ UNCHANGED <<rpc_srv, want_srv, in_srv>>
         /\ SrvNext' = IF SrvLeft > 0 THEN SrvNext ELSE m[1]
<1>1. ToCli!Pending' = ToCli!Pending /\ zone_srv' = zone_srv /\ rd_srv' = rd_srv
  BY SrvStay
<1>2. SrvExact'
  BY SrvTypes DEF SrvExact, ToCli!Send, ToCli!One, ToCli!reader
<1>3. out_srv = << >> /\ out_srv' = m /\ UNCHANGED <<rpc_srv, want_srv, in_srv>>
  BY DEF ToCli!Send, ToCli!reader
<1>4. SrvLeft = ToCli!Pending /\ ToCli!Pending \in Nat
  BY <1>3, SrvLefts DEF SrvLeft
<1>5. QED
  BY <1>1, <1>2, <1>3, <1>4 DEF SrvLeft, SrvNext

LEMMA SrvRecv ==
  ASSUME SrvRing, SrvExact, NEW n \in Nat, ToCli!Recv(n)
  PROVE  /\ SrvExact' /\ SrvLeft' = SrvLeft /\ SrvNext' = SrvNext
         /\ in_srv' = << >> /\ want_srv' = n
<1>1. ToCli!Pending' = ToCli!Pending /\ rd_srv' = rd_srv /\ zone_srv' = zone_srv
  BY SrvStay
<1>2. out_srv' = out_srv /\ in_srv' = << >> /\ want_srv' = n
  BY DEF ToCli!Recv, ToCli!writer
<1>3. SrvExact'
  BY SrvTypes DEF SrvExact, ToCli!Recv, ToCli!One, ToCli!writer
<1>4. QED
  BY <1>1, <1>2, <1>3 DEF SrvLeft, SrvNext

(* Nothing that is sent changes what comes next, and nothing that is read  *)
(* but the byte that did.                                                  *)
LEMMA SrvSending ==
  ASSUME SrvRing, SrvExact, ToCli!Distance, ToCli!Sending
  PROVE  /\ SrvExact' /\ SrvLeft' = SrvLeft /\ SrvNext' = SrvNext /\ SrvLeft > 0
         /\ UNCHANGED <<rpc_srv, want_srv, in_srv>>
<1>1. /\ available_srv \in Nat /\ free_srv \in Nat /\ ZONE_SIZE \in Nat
      /\ ToCli!Pending \in Nat /\ Len(out_srv) \in Nat
  BY SrvTypes, SrvLefts, Sizes
<1>2. CASE ToCli!SendWait
  <2>1. /\ ToCli!Pending' = ToCli!Pending /\ rd_srv' = rd_srv /\ zone_srv' = zone_srv
        /\ out_srv' = out_srv /\ UNCHANGED <<rpc_srv, want_srv, in_srv>>
    BY <1>2, SrvStay DEF ToCli!SendWait, ToCli!reader
  <2>2. SrvExact'
    BY <1>1, <1>2, SrvTypes DEF SrvExact, ToCli!SendWait, ToCli!One, ToCli!reader
  <2>3. SrvLeft > 0
    BY <1>1, <1>2, SrvTypes, SrvLefts DEF ToCli!SendWait
  <2>4. QED
    BY <2>1, <2>2, <2>3 DEF SrvLeft, SrvNext
<1>3. CASE ToCli!SendPost
  <2>1. /\ ToCli!Pending' = ToCli!Pending /\ rd_srv' = rd_srv /\ zone_srv' = zone_srv
        /\ out_srv' = out_srv /\ UNCHANGED <<rpc_srv, want_srv, in_srv>>
    BY <1>3, SrvStay DEF ToCli!SendPost, ToCli!reader
  <2>2. SrvExact'
    BY <1>1, <1>3, SrvTypes DEF SrvExact, ToCli!SendPost, ToCli!One, ToCli!reader
  <2>3. SrvLeft > 0
    BY <1>1, <1>3, SrvTypes, SrvLefts DEF ToCli!SendPost
  <2>4. QED
    BY <2>1, <2>2, <2>3 DEF SrvLeft, SrvNext
<1>4. CASE ToCli!SendStore
  <2>1. /\ ToCli!Pending \in 0..(ZONE_SIZE - 1) /\ ToCli!Pending' = ToCli!Pending + 1
        /\ out_srv # << >> /\ out_srv' = Tail(out_srv) /\ rd_srv' = rd_srv
        /\ zone_srv' = [zone_srv EXCEPT ![wr_srv] = Head(out_srv)]
        /\ UNCHANGED <<rpc_srv, want_srv, in_srv>>
    BY <1>4, SrvStore
  <2>2. SrvExact'
    BY <1>1, <1>4, SrvTypes DEF SrvExact, ToCli!SendStore, ToCli!One, ToCli!reader
  <2>3. Len(out_srv') = Len(out_srv) - 1 /\ Len(out_srv) > 0 /\ Head(out_srv) = out_srv[1]
    BY <2>1, SrvTypes
  <2>4. SrvLeft' = SrvLeft /\ SrvLeft > 0
    BY <1>1, <2>1, <2>3 DEF SrvLeft
  <2>5. SrvNext' = zone_srv'[rd_srv]
    BY <1>1, <2>1 DEF SrvNext
  <2>6. rd_srv \in Place /\ wr_srv = (rd_srv + ToCli!Pending) % ZONE_SIZE
        /\ zone_srv \in [Place -> Byte]
    BY SrvTypes DEF ToCli!Distance
  <2>7. rd_srv = (rd_srv + 0) % ZONE_SIZE /\ 0 \in 0..(ZONE_SIZE - 1)
    BY <2>6, Sizes, SMT DEF Place
  <2>8. CASE ToCli!Pending = 0
    <3>1. wr_srv = rd_srv
      BY <2>6, <2>7, <2>8
    <3>2. QED
      BY <2>1, <2>2, <2>3, <2>4, <2>5, <2>6, <2>8, <3>1 DEF SrvNext
  <2>9. CASE ToCli!Pending # 0
    <3>1. wr_srv # rd_srv
      BY <2>1, <2>6, <2>7, <2>9, WrapApart
    <3>2. zone_srv'[rd_srv] = zone_srv[rd_srv]
      BY <2>1, <2>6, <3>1
    <3>3. SrvNext = zone_srv[rd_srv]
      BY <1>1, <2>9 DEF SrvNext
    <3>4. QED
      BY <2>1, <2>2, <2>4, <2>5, <3>2, <3>3
  <2>10. QED
    BY <2>8, <2>9
<1>5. QED
  BY <1>2, <1>3, <1>4 DEF ToCli!Sending

LEMMA SrvReceiving ==
  ASSUME SrvRing, SrvExact, ToCli!Receiving
  PROVE  /\ SrvExact' /\ UNCHANGED <<wpc_srv, out_srv>>
         /\ \/ UNCHANGED <<in_srv, want_srv>> /\ SrvLeft' = SrvLeft /\ SrvNext' = SrvNext
            \/ /\ in_srv' = Append(in_srv, SrvNext) /\ want_srv' = want_srv - 1
               /\ SrvLeft' = SrvLeft - 1 /\ SrvLeft > 0
<1>1. /\ available_srv \in Nat /\ free_srv \in Nat /\ ZONE_SIZE \in Nat
      /\ ToCli!Pending \in Nat /\ Len(out_srv) \in Nat
  BY SrvTypes, SrvLefts, Sizes
<1>2. CASE ToCli!RecvWait \/ ToCli!RecvPost
  <2>1. /\ ToCli!Pending' = ToCli!Pending /\ rd_srv' = rd_srv /\ zone_srv' = zone_srv
    BY <1>2, SrvStay
  <2>2. UNCHANGED <<wpc_srv, out_srv, in_srv, want_srv>>
    BY <1>2 DEF ToCli!RecvWait, ToCli!RecvPost, ToCli!writer
  <2>3. ToCli!RecvWait => SrvExact'
    BY <1>1, SrvTypes DEF SrvExact, ToCli!RecvWait, ToCli!One, ToCli!writer
  <2>4. ToCli!RecvPost => SrvExact'
    BY <1>1, SrvTypes DEF SrvExact, ToCli!RecvPost, ToCli!One, ToCli!writer
  <2>5. QED
    BY <1>2, <2>1, <2>2, <2>3, <2>4 DEF SrvLeft, SrvNext
<1>3. CASE ToCli!RecvLoad
  <2>1. /\ ToCli!Pending - 1 \in 0..(ZONE_SIZE - 1) /\ ToCli!Pending' = ToCli!Pending - 1
        /\ in_srv' = Append(in_srv, zone_srv[rd_srv])
        /\ want_srv' = want_srv - 1
        /\ UNCHANGED <<wpc_srv, out_srv>>
    BY <1>3, SrvLoad
  <2>2. SrvExact'
    BY <1>1, <1>3, SrvTypes DEF SrvExact, ToCli!RecvLoad, ToCli!One, ToCli!writer
  <2>3. SrvNext = zone_srv[rd_srv]
    BY <1>1, <2>1 DEF SrvNext
  <2>4. SrvLeft' = SrvLeft - 1 /\ SrvLeft > 0
    BY <1>1, <2>1 DEF SrvLeft
  <2>5. QED
    BY <2>1, <2>2, <2>3, <2>4
<1>4. QED
  BY <1>2, <1>3 DEF ToCli!Receiving

-----------------------------------------------------------------------------
(* A session in which every call is finished *)

(* The state of an orderly session, in which every call was finished so    *)
(* far.  Who is in a call of a ring is at the place that calls it; between  *)
(* two calls both rings are empty; while a call is on its way the request  *)
(* is (Requested) until the server has it, and then the answer (Answered). *)
(* What was read of a message, what is in the ring and what is still to be *)
(* sent make the whole message, and its first byte says which call it is   *)
(* of, and in a header whether a record follows.                           *)
First(s, next) == IF s # << >> THEN s[1] ELSE next

Exact == CliExact /\ SrvExact

AtWork ==
  /\ wpc_cli # "idle" => cpc = "send"
  /\ rpc_srv # "idle" => cpc \in {"header", "records"}
  /\ rpc_cli # "idle" => spc = "reading"
  /\ wpc_srv # "idle" => spc = "writing"
  /\ spc # "writing" => unsent = 0

Asked == cpc \in {"send", "header", "records"}
NoRequest == CliLeft = 0 /\ (spc = "reading" => in_cli = << >> /\ want_cli = MSG)
NoAnswer == SrvLeft = 0 /\ unsent = 0

Between == NoRequest /\ NoAnswer /\ (req # Rest => res = calls /\ req[2] = calls)

GotRequest == IF spc = "reading" THEN in_cli ELSE << >>
Requested ==
  /\ NoAnswer /\ cpc # "records"
  /\ cpc = "header" => in_srv = << >> /\ want_srv = HDR
  /\ CliLeft + Len(GotRequest) = MSG
  /\ spc = "reading" => want_cli + Len(in_cli) = MSG
  /\ First(GotRequest, CliNext)[2] = calls

GotAnswer == IF cpc = "header" THEN in_srv ELSE << >>
Header == First(GotAnswer, SrvNext)
Answered ==
  /\ NoRequest
  /\ cpc # "records" =>
       /\ Header[1] \in {"ack", "empty", "listed"} /\ Header[2] = calls
       /\ unsent = 1 => Header[1] = "listed"
       /\ Len(GotAnswer) + SrvLeft + MSG * unsent
            = HDR + (IF Header[1] = "listed" THEN MSG ELSE 0)
  /\ cpc = "header" => want_srv + Len(in_srv) = HDR
  /\ cpc = "records" => res = calls /\ SrvLeft + MSG * unsent = want_srv

Phase == IF Asked THEN calls > 0 /\ (IF req[2] = calls THEN Answered ELSE Requested)
                  ELSE Between
Orderly == Exact /\ AtWork /\ Phase

(* The indices of both rings are as far apart as they should be. *)
InPlace == ToSrv!Distance /\ ToCli!Distance

LEMMA MessageFacts ==
  ASSUME NEW kind, NEW id, NEW n \in Nat \ {0}
  PROVE  Len(Message(kind, id, n)) = n /\ Message(kind, id, n)[1] = <<kind, id>>
<1> DEFINE h == <<<<kind, id>>>>
           t == [i \in 1..(n - 1) |-> Rest]
           S == {<<kind, id>>, Rest}
<1>1. h \in Seq(S) /\ Len(h) = 1 /\ h[1] = <<kind, id>>
  OBVIOUS
<1>2. t \in Seq(S) /\ Len(t) = n - 1
  OBVIOUS
<1> HIDE DEF h, t, S
<1>3. Len(h \o t) = Len(h) + Len(t) /\ 1 \in 1..(Len(h) + Len(t)) /\ 1 <= Len(h)
  <2>1. Len(h \o t) = Len(h) + Len(t)
    BY <1>1, <1>2, ConcatProperties
  <2>2. QED
    BY <1>1, <1>2, <2>1
<1>4. (h \o t)[1] = h[1]
  BY <1>1, <1>2, <1>3, ConcatProperties
<1>5. QED
  BY <1>1, <1>2, <1>3, <1>4 DEF Message, h, t

LEMMA CallsFit == SInv => calls \in 0..MaxId
BY Sizes DEF SInv, Counted, Ends, MaxId

LEMMA OrderlyTypes ==
  ASSUME SInv
  PROVE  /\ CliRing /\ SrvRing
         /\ CliLeft \in Nat /\ SrvLeft \in Nat /\ calls \in Nat /\ unsent \in 0..1
         /\ in_cli \in Seq(Bytes) /\ in_srv \in Seq(Bytes)
         /\ Len(in_cli) \in Nat /\ Len(in_srv) \in Nat
         /\ want_cli \in Nat /\ want_srv \in Nat /\ req \in Bytes
         /\ HDR \in Nat \ {0} /\ MSG \in Nat \ {0} /\ ZONE_SIZE \in Nat \ {0}
<1>1. CliRing /\ SrvRing /\ req \in Bytes /\ unsent \in 0..1 /\ calls \in Nat
  BY DEF SInv, Ends, Counted
<1>2. /\ CliLeft \in Nat /\ SrvLeft \in Nat
      /\ in_cli \in Seq(Bytes) /\ in_srv \in Seq(Bytes) /\ want_cli \in Nat /\ want_srv \in Nat
  BY <1>1, CliTypes, SrvTypes, CliLefts, SrvLefts
<1>3. QED
  BY <1>1, <1>2, Sizes

LEMMA RequestOrderly ==
  ASSUME SInv, Orderly, NEW kind \in Requests \cup {"leave"}, Request(kind),
         cpc \in {"idle", "handler"}, calls < MaxCalls \/ cpc = "handler"
  PROVE  Orderly'
<1> DEFINE m == Message(kind, calls', MSG)
<1>1. /\ calls' = calls + 1 /\ ToSrv!Send(m) /\ cpc' = "send"
      /\ UNCHANGED <<toCliVars, leaving, res, records, server, env>>
  BY DEF Request
<1>2. calls' \in 0..MaxId
  <2>1. SInv'
    BY RequestInv
  <2>2. (calls \in 0..MaxId)'
    BY <2>1, CallsFit, PTL
  <2>3. QED
    BY <2>2 DEF MaxId
<1>3. m \in Seq(Bytes) /\ Len(m) = MSG /\ m[1] = <<kind, calls'>>
  BY <1>2, MessageIsBytes, MessageFacts, Sizes DEF Kinds
<1> HIDE DEF m
<1>4. Between /\ Exact /\ AtWork
  BY DEF Orderly, Phase, Asked
<1>5. CliExact' /\ CliLeft' = MSG /\ CliNext' = <<kind, calls'>>
      /\ UNCHANGED <<rpc_cli, want_cli, in_cli>>
  <2>1. CliLeft = 0 /\ CliRing /\ CliExact
    BY <1>4, OrderlyTypes DEF Between, NoRequest, Exact
  <2>2. /\ CliExact' /\ CliLeft' = CliLeft + Len(m) /\ UNCHANGED <<rpc_cli, want_cli, in_cli>>
        /\ CliNext' = IF CliLeft > 0 THEN CliNext ELSE m[1]
    BY <1>1, <1>3, <2>1, CliSend
  <2>3. QED
    BY <1>3, <2>1, <2>2, Sizes
<1>6. SrvExact' /\ SrvLeft' = SrvLeft /\ UNCHANGED <<wpc_srv, rpc_srv>>
  BY <1>1, <1>4, SrvSame DEF Exact
<1>7. UNCHANGED <<spc, req, unsent>>
  BY <1>1 DEF server
<1>8. AtWork'
  BY <1>1, <1>4, <1>5, <1>6, <1>7 DEF AtWork
<1>9. req[2] # calls' /\ calls' > 0
  BY <1>1, <1>4, OrderlyTypes DEF Between, Rest
<1>10. Requested'
  <2>1. NoAnswer' /\ cpc' = "send"
    BY <1>1, <1>4, <1>6, <1>7 DEF Between, NoAnswer
  <2>2. GotRequest' = << >> /\ (spc = "reading" => in_cli' = << >> /\ want_cli' = MSG)
    BY <1>4, <1>5, <1>7 DEF Between, NoRequest, GotRequest
  <2>3. First(GotRequest', CliNext')[2] = calls'
    BY <1>5, <2>2 DEF First
  <2>4. QED
    BY <1>5, <1>7, <2>1, <2>2, <2>3, OrderlyTypes DEF Requested
<1>11. QED
  BY <1>1, <1>5, <1>6, <1>7, <1>8, <1>9, <1>10 DEF Orderly, Exact, Phase, Asked

LEMMA SendStepOrderly ==
  ASSUME SInv, Orderly, InPlace, SendStep PROVE Orderly'
<1>1. /\ ToSrv!Sending /\ cpc = "send" /\ UNCHANGED <<toCliVars, client, server, env>>
  BY DEF SendStep
<1>2. CliExact' /\ CliLeft' = CliLeft /\ CliNext' = CliNext /\ CliLeft > 0
      /\ UNCHANGED <<rpc_cli, want_cli, in_cli>>
  BY <1>1, OrderlyTypes, CliSending DEF Orderly, Exact, InPlace
<1>3. SrvExact' /\ SrvLeft' = SrvLeft /\ UNCHANGED <<wpc_srv, rpc_srv>>
  BY <1>1, SrvSame DEF Orderly, Exact
<1>4. UNCHANGED <<cpc, calls, spc, req, unsent>>
  BY <1>1 DEF client, server
<1>5. AtWork'
  BY <1>1, <1>2, <1>3, <1>4 DEF Orderly, AtWork
<1>6. calls > 0 /\ req[2] # calls /\ Requested
  BY <1>1, <1>2 DEF Orderly, Phase, Asked, Answered, NoRequest
<1>7. NoAnswer' /\ GotRequest' = GotRequest
  BY <1>2, <1>3, <1>4, <1>6 DEF Requested, NoAnswer, GotRequest
<1>8. Requested'
  BY <1>1, <1>2, <1>4, <1>6, <1>7 DEF Requested
<1>9. QED
  BY <1>1, <1>2, <1>3, <1>4, <1>5, <1>6, <1>8 DEF Orderly, Exact, Phase, Asked

LEMMA AwaitHeaderOrderly ==
  ASSUME SInv, Orderly, AwaitHeader PROVE Orderly'
<1>1. /\ cpc = "send" /\ wpc_cli = "idle" /\ ToCli!Recv(HDR) /\ cpc' = "header"
      /\ UNCHANGED <<toSrvVars, leaving, calls, res, records, server, env>>
  BY DEF AwaitHeader
<1>2. /\ SrvExact' /\ SrvLeft' = SrvLeft /\ SrvNext' = SrvNext
      /\ in_srv' = << >> /\ want_srv' = HDR /\ wpc_srv' = wpc_srv
  <2>1. wpc_srv' = wpc_srv
    BY <1>1 DEF ToCli!Recv, ToCli!writer
  <2>2. QED
    BY <1>1, <2>1, Sizes, OrderlyTypes, SrvRecv DEF Orderly, Exact
<1>3. CliExact' /\ CliLeft' = CliLeft /\ CliNext' = CliNext
      /\ UNCHANGED <<wpc_cli, rpc_cli, want_cli, in_cli>>
  BY <1>1, CliSame DEF Orderly, Exact
<1>4. UNCHANGED <<calls, spc, req, unsent>>
  BY <1>1 DEF server
<1>5. AtWork'
  BY <1>1, <1>2, <1>3, <1>4 DEF Orderly, AtWork
<1>6. calls > 0 /\ (IF req[2] = calls THEN Answered ELSE Requested)
  BY <1>1 DEF Orderly, Phase, Asked
<1>7. Requested => Requested'
  BY <1>1, <1>2, <1>3, <1>4 DEF Requested, NoAnswer, GotRequest
<1>8. Answered => Answered'
  <2>1. GotAnswer = << >> /\ GotAnswer' = << >> /\ Header' = Header
    BY <1>1, <1>2 DEF GotAnswer, Header, First
  <2>2. QED
    BY <1>1, <1>2, <1>3, <1>4, <2>1, OrderlyTypes DEF Answered, NoRequest
<1>9. QED
  BY <1>1, <1>2, <1>3, <1>4, <1>5, <1>6, <1>7, <1>8 DEF Orderly, Exact, Phase, Asked

LEMMA RecvStepOrderly ==
  ASSUME SInv, Orderly, RecvStep PROVE Orderly'
<1>1. /\ cpc \in {"header", "records"} /\ ToCli!Receiving
      /\ UNCHANGED <<toSrvVars, client, server, env>>
  BY DEF RecvStep
<1>2. /\ SrvExact' /\ UNCHANGED wpc_srv
      /\ \/ UNCHANGED <<in_srv, want_srv>> /\ SrvLeft' = SrvLeft /\ SrvNext' = SrvNext
         \/ /\ in_srv' = Append(in_srv, SrvNext) /\ want_srv' = want_srv - 1
            /\ SrvLeft' = SrvLeft - 1 /\ SrvLeft > 0
  BY <1>1, OrderlyTypes, SrvReceiving DEF Orderly, Exact
<1>3. CliExact' /\ CliLeft' = CliLeft /\ CliNext' = CliNext
      /\ UNCHANGED <<wpc_cli, rpc_cli, want_cli, in_cli>>
  BY <1>1, CliSame DEF Orderly, Exact
<1>4. UNCHANGED <<cpc, calls, res, spc, req, unsent>>
  BY <1>1 DEF server, client
<1>5. AtWork'
  BY <1>1, <1>2, <1>3, <1>4 DEF Orderly, AtWork
<1>6. calls > 0 /\ (IF req[2] = calls THEN Answered ELSE Requested)
  BY <1>1 DEF Orderly, Phase, Asked
<1>7. Requested => Requested'
  BY <1>2, <1>3, <1>4 DEF Requested, NoAnswer, GotRequest
<1>8. Answered => Answered'
  <2> SUFFICES ASSUME Answered PROVE Answered'
    OBVIOUS
  <2>1. NoRequest'
    BY <1>3, <1>4 DEF Answered, NoRequest
  <2>2. CASE cpc = "records"
    BY <1>2, <1>4, <2>1, <2>2, OrderlyTypes DEF Answered
  <2>3. CASE cpc = "header"
    <3>1. GotAnswer = in_srv /\ GotAnswer' = in_srv'
      BY <1>4, <2>3 DEF GotAnswer
    <3>2. Header' = Header
      <4>1. CASE UNCHANGED <<in_srv, want_srv>> /\ SrvNext' = SrvNext
        BY <3>1, <4>1 DEF Header
      <4>2. CASE in_srv' = Append(in_srv, SrvNext)
        <5>1. in_srv' # << >> /\ in_srv'[1] = First(in_srv, SrvNext)
          BY <4>2, OrderlyTypes DEF First
        <5>2. QED
          BY <3>1, <5>1 DEF Header, First
      <4>3. QED
        BY <1>2, <4>1, <4>2
    <3>3. Len(in_srv') + SrvLeft' = Len(in_srv) + SrvLeft
          /\ want_srv' + Len(in_srv') = want_srv + Len(in_srv)
      <4>1. CASE UNCHANGED <<in_srv, want_srv>> /\ SrvLeft' = SrvLeft
        BY <4>1
      <4>2. CASE /\ in_srv' = Append(in_srv, SrvNext) /\ want_srv' = want_srv - 1
                 /\ SrvLeft' = SrvLeft - 1
        <5>1. Len(in_srv') = Len(in_srv) + 1
          BY <4>2, OrderlyTypes
        <5>2. want_srv' = want_srv - 1 /\ SrvLeft' = SrvLeft - 1
          BY <4>2
        <5>3. SrvLeft \in Int /\ want_srv \in Int /\ Len(in_srv) \in Int
          BY OrderlyTypes
        <5>4. QED
          BY <5>1, <5>2, <5>3
      <4>3. QED
        BY <1>2, <4>1, <4>2
    <3>4. QED
      BY <1>4, <2>1, <2>3, <3>1, <3>2, <3>3 DEF Answered
  <2>4. QED
    BY <1>1, <2>2, <2>3
<1>9. Phase'
  BY <1>1, <1>4, <1>6, <1>7, <1>8 DEF Phase, Asked
<1>10. QED
  BY <1>2, <1>3, <1>5, <1>9 DEF Orderly, Exact

(* What was all sent and all read. *)
LEMMA AllRead ==
  ASSUME SInv, SrvLeft + MSG * unsent = 0
  PROVE  NoAnswer
<1>1. unsent = 0 \/ unsent = 1
  BY OrderlyTypes
<1>2. CASE unsent = 0
  <2>1. MSG * unsent = 0
    BY <1>2, Sizes
  <2>2. QED
    BY <1>2, <2>1, OrderlyTypes DEF NoAnswer
<1>3. CASE unsent = 1
  <2>1. MSG * unsent = MSG
    BY <1>3, Sizes
  <2>2. QED
    BY <2>1, OrderlyTypes
<1>4. QED
  BY <1>1, <1>2, <1>3

LEMMA TakeHeaderOrderly ==
  ASSUME SInv, Orderly, TakeHeader PROVE Orderly'
<1>1. /\ cpc = "header" /\ rpc_srv = "idle"
      /\ res' = IF in_srv[1][1] \in {"ack", "empty", "listed"} THEN in_srv[1][2] ELSE res
      /\ UNCHANGED <<toSrvVars, leaving, calls, server, env>>
  BY DEF TakeHeader
<1>2. /\ in_srv[1][1] = "listed" => cpc' = "records" /\ ToCli!Recv(MSG)
      /\ in_srv[1][1] # "listed" => cpc' \in {"left", "idle"} /\ UNCHANGED toCliVars
  BY DEF TakeHeader, Finish
<1>3. Exact /\ AtWork /\ want_srv = 0
  BY <1>1 DEF Orderly, Exact, SrvExact
<1>4. calls > 0 /\ req[2] = calls /\ Answered
  BY <1>1, <1>3, Sizes DEF Orderly, Phase, Asked, Requested
<1>5. Len(in_srv) = HDR /\ in_srv # << >> /\ GotAnswer = in_srv /\ Header = in_srv[1]
  <2>1. want_srv + Len(in_srv) = HDR
    BY <1>1, <1>4 DEF Answered
  <2>2. Len(in_srv) = HDR
    BY <1>3, <2>1, OrderlyTypes
  <2>3. in_srv # << >>
    BY <2>2, OrderlyTypes
  <2>4. QED
    BY <1>1, <2>2, <2>3 DEF GotAnswer, Header, First
<1>6. /\ in_srv[1][1] \in {"ack", "empty", "listed"} /\ in_srv[1][2] = calls
      /\ HDR + SrvLeft + MSG * unsent = HDR + (IF in_srv[1][1] = "listed" THEN MSG ELSE 0)
  BY <1>1, <1>4, <1>5 DEF Answered
<1>7. res' = calls /\ UNCHANGED <<calls, spc, req, unsent>>
  BY <1>1, <1>6 DEF server
<1>8. CliExact' /\ CliLeft' = CliLeft /\ UNCHANGED <<wpc_cli, rpc_cli, want_cli, in_cli>>
  BY <1>1, <1>3, CliSame DEF Exact
<1>9. NoRequest'
  BY <1>4, <1>7, <1>8 DEF Answered, NoRequest
<1> DEFINE left == SrvLeft + MSG * unsent
<1>10. left = IF in_srv[1][1] = "listed" THEN MSG ELSE 0
  <2>1. MSG * unsent \in Int
    BY OrderlyTypes
  <2>2. QED
    BY <1>6, <2>1, OrderlyTypes
<1>11. CASE in_srv[1][1] = "listed"
  <2>1. SrvExact' /\ SrvLeft' = SrvLeft /\ want_srv' = MSG
    BY <1>2, <1>3, <1>11, Sizes, OrderlyTypes, SrvRecv DEF Exact
  <2>2. wpc_srv' = wpc_srv
    BY <1>2, <1>11 DEF ToCli!Recv, ToCli!writer
  <2>3. AtWork'
    BY <1>1, <1>2, <1>3, <1>7, <1>8, <1>11, <2>2 DEF AtWork
  <2>4. Answered'
    BY <1>2, <1>7, <1>9, <1>10, <1>11, <2>1 DEF Answered
  <2>5. Phase'
    BY <1>2, <1>4, <1>7, <1>11, <2>4 DEF Phase, Asked
  <2>6. QED
    BY <1>8, <2>1, <2>3, <2>5 DEF Orderly, Exact
<1>12. CASE in_srv[1][1] # "listed"
  <2>1. SrvExact' /\ SrvLeft' = SrvLeft /\ UNCHANGED <<wpc_srv, rpc_srv>>
    BY <1>2, <1>3, <1>12, SrvSame DEF Exact
  <2>2. NoAnswer
    BY <1>10, <1>12, AllRead
  <2>3. AtWork'
    BY <1>1, <1>2, <1>3, <1>7, <1>8, <1>12, <2>1 DEF AtWork
  <2>4. Between'
    BY <1>4, <1>7, <1>9, <2>1, <2>2 DEF Between, NoAnswer
  <2>5. Phase'
    BY <1>2, <1>12, <2>4 DEF Phase, Asked
  <2>6. QED
    BY <1>8, <2>1, <2>3, <2>5 DEF Orderly, Exact
<1>13. QED
  BY <1>11, <1>12

LEMMA TakeRecordOrderly ==
  ASSUME SInv, Orderly, TakeRecord PROVE Orderly'
<1>1. /\ cpc = "records" /\ rpc_srv = "idle" /\ cpc' \in {"left", "idle"}
      /\ UNCHANGED <<toSrvVars, toCliVars, leaving, calls, res, server, env>>
  BY DEF TakeRecord, Finish
<1>2. Exact /\ AtWork /\ want_srv = 0
  BY <1>1 DEF Orderly, Exact, SrvExact
<1>3. req[2] = calls /\ Answered /\ res = calls
  BY <1>1 DEF Orderly, Phase, Asked, Requested, Answered
<1>4. NoAnswer
  BY <1>1, <1>2, <1>3, AllRead DEF Answered
<1>5. /\ CliExact' /\ CliLeft' = CliLeft /\ UNCHANGED <<wpc_cli, rpc_cli, want_cli, in_cli>>
      /\ SrvExact' /\ SrvLeft' = SrvLeft /\ UNCHANGED <<wpc_srv, rpc_srv>>
  BY <1>1, <1>2, CliSame, SrvSame DEF Exact
<1>6. UNCHANGED <<calls, res, spc, req, unsent>>
  BY <1>1 DEF server
<1>7. AtWork'
  BY <1>1, <1>2, <1>5, <1>6 DEF AtWork
<1>8. Between'
  BY <1>3, <1>4, <1>5, <1>6 DEF Answered, Between, NoRequest, NoAnswer
<1>9. QED
  BY <1>1, <1>5, <1>7, <1>8 DEF Orderly, Exact, Phase, Asked

(* An end that is interrupted, or killed, between two calls. *)
LEMMA ClientCutOrderly ==
  ASSUME SInv, Orderly, cpc = "idle", CutClient, cpc' \in {"handler", "killed"},
         UNCHANGED <<calls, res, server>>
  PROVE  Orderly'
<1>1. Exact /\ AtWork /\ Between
  BY DEF Orderly, Phase, Asked
<1>2. UNCHANGED toSrvVars /\ UNCHANGED toCliVars
  BY <1>1 DEF AtWork, CutClient
<1>3. /\ CliExact' /\ CliLeft' = CliLeft /\ UNCHANGED <<wpc_cli, rpc_cli, want_cli, in_cli>>
      /\ SrvExact' /\ SrvLeft' = SrvLeft /\ UNCHANGED <<wpc_srv, rpc_srv>>
  BY <1>1, <1>2, CliSame, SrvSame DEF Exact
<1>4. UNCHANGED <<spc, req, unsent>>
  BY DEF server
<1>5. AtWork'
  BY <1>1, <1>3, <1>4 DEF AtWork
<1>6. Between'
  BY <1>1, <1>3, <1>4 DEF Between, NoRequest, NoAnswer
<1>7. QED
  BY <1>3, <1>5, <1>6 DEF Orderly, Exact, Phase, Asked

LEMMA KillServerOrderly ==
  ASSUME SInv, Orderly, KillServer, orderly' PROVE Orderly'
<1>1. /\ ~Asked /\ spc' = "killed" /\ UNCHANGED <<client, req, unsent>>
      /\ rpc_cli = "idle" => UNCHANGED toSrvVars
      /\ rpc_cli # "idle" => ToSrv!CutRecv
      /\ wpc_srv = "idle" => UNCHANGED toCliVars
  BY DEF KillServer, Asked, Gone
<1>2. Exact /\ AtWork /\ Between
  BY <1>1 DEF Orderly, Phase
<1>3. CliLeft = 0 /\ SrvLeft = 0 /\ wpc_srv = "idle" /\ wpc_cli = "idle" /\ rpc_cli # "load"
  BY <1>2, OrderlyTypes, CliLefts, SrvLefts DEF Between, NoRequest, NoAnswer
<1>4. SrvExact' /\ SrvLeft' = SrvLeft /\ UNCHANGED <<wpc_srv, rpc_srv>>
  BY <1>1, <1>2, <1>3, SrvSame DEF Exact
<1>5. CliExact' /\ CliLeft' = CliLeft /\ wpc_cli' = wpc_cli /\ rpc_cli' = "idle"
  <2>1. CASE rpc_cli = "idle"
    BY <1>1, <1>2, <2>1, CliSame DEF Exact
  <2>2. CASE rpc_cli # "idle"
    <3>1. rpc_cli = "wait"
      <4>1. rpc_cli # "post"
        BY <1>2, <2>2, OrderlyTypes DEF AtWork, Between, NoRequest, CliRing
      <4>2. QED
        BY <1>3, <2>2, <4>1, OrderlyTypes, CliTypes
    <3>2. /\ UNCHANGED <<available_cli, free_cli, wpc_cli, out_cli>> /\ rpc_cli' = "idle"
          /\ want_cli' = 0 /\ drift_cli' = drift_cli
      BY <1>1, <2>2, <3>1, OrderlyTypes, CliTypes DEF ToSrv!CutRecv, ToSrv!writer, ToSrv!One
    <3>3. CliExact'
      BY <1>2, <3>1, <3>2 DEF Exact, CliExact, ToSrv!One
    <3>4. ToSrv!Pending' = ToSrv!Pending
      BY <1>1, <2>2, OrderlyTypes, CliStay
    <3>5. QED
      BY <3>2, <3>3, <3>4 DEF CliLeft
  <2>3. QED
    BY <2>1, <2>2
<1>6. UNCHANGED <<cpc, calls, res>>
  BY <1>1 DEF client
<1>7. AtWork'
  BY <1>1, <1>2, <1>3, <1>4, <1>5, <1>6 DEF AtWork, Between, NoAnswer
<1>8. Between'
  BY <1>1, <1>2, <1>4, <1>5, <1>6 DEF Between, NoRequest, NoAnswer
<1>9. QED
  BY <1>1, <1>4, <1>5, <1>6, <1>7, <1>8 DEF Orderly, Exact, Phase, Asked

LEMMA AwaitRequestOrderly ==
  ASSUME SInv, Orderly, AwaitRequest PROVE Orderly'
<1>1. /\ spc = "recv" /\ ToSrv!Recv(MSG) /\ spc' = "reading"
      /\ UNCHANGED <<toCliVars, client, req, unsent, env>>
  BY DEF AwaitRequest
<1>2. /\ CliExact' /\ CliLeft' = CliLeft /\ CliNext' = CliNext
      /\ in_cli' = << >> /\ want_cli' = MSG /\ wpc_cli' = wpc_cli
  <2>1. wpc_cli' = wpc_cli
    BY <1>1 DEF ToSrv!Recv, ToSrv!writer
  <2>2. QED
    BY <1>1, <2>1, Sizes, OrderlyTypes, CliRecv DEF Orderly, Exact
<1>3. SrvExact' /\ SrvLeft' = SrvLeft /\ SrvNext' = SrvNext
      /\ UNCHANGED <<wpc_srv, rpc_srv, want_srv, in_srv>>
  BY <1>1, SrvSame DEF Orderly, Exact
<1>4. UNCHANGED <<cpc, calls, res>>
  BY <1>1 DEF client
<1>5. AtWork'
  BY <1>1, <1>2, <1>3, <1>4 DEF Orderly, AtWork
<1>6. NoRequest => NoRequest'
  BY <1>2 DEF NoRequest
<1>7. Between => Between'
  BY <1>1, <1>3, <1>4, <1>6 DEF Between, NoAnswer
<1>8. Answered => Answered'
  BY <1>1, <1>3, <1>4, <1>6 DEF Answered, Header, GotAnswer
<1>9. Requested => Requested'
  <2> SUFFICES ASSUME Requested PROVE Requested'
    OBVIOUS
  <2>1. GotRequest = << >> /\ GotRequest' = << >> /\ Len(<< >>) = 0
    BY <1>1, <1>2 DEF GotRequest
  <2>2. want_cli' + Len(in_cli') = MSG
    BY <1>2, <2>1, Sizes
  <2>3. QED
    BY <1>1, <1>2, <1>3, <1>4, <2>1, <2>2 DEF Requested, NoAnswer
<1>10. Phase'
  BY <1>1, <1>4, <1>7, <1>8, <1>9 DEF Orderly, Phase, Asked
<1>11. QED
  BY <1>2, <1>3, <1>5, <1>10 DEF Orderly, Exact

LEMMA ReadStepOrderly ==
  ASSUME SInv, Orderly, ReadStep PROVE Orderly'
<1>1. /\ spc = "reading" /\ ToSrv!Receiving
      /\ UNCHANGED <<toCliVars, client, server, env>>
  BY DEF ReadStep
<1>2. /\ CliExact' /\ UNCHANGED wpc_cli
      /\ \/ UNCHANGED <<in_cli, want_cli>> /\ CliLeft' = CliLeft /\ CliNext' = CliNext
         \/ /\ in_cli' = Append(in_cli, CliNext) /\ want_cli' = want_cli - 1
            /\ CliLeft' = CliLeft - 1 /\ CliLeft > 0
  BY <1>1, OrderlyTypes, CliReceiving DEF Orderly, Exact
<1>3. SrvExact' /\ SrvLeft' = SrvLeft /\ SrvNext' = SrvNext
      /\ UNCHANGED <<wpc_srv, rpc_srv, want_srv, in_srv>>
  BY <1>1, SrvSame DEF Orderly, Exact
<1>4. UNCHANGED <<cpc, calls, res, spc, req, unsent>>
  BY <1>1 DEF client, server
<1>5. AtWork'
  BY <1>1, <1>2, <1>3, <1>4 DEF Orderly, AtWork
<1>6. NoRequest => NoRequest'
  BY <1>2, <1>4 DEF NoRequest
<1>7. Between => Between'
  BY <1>3, <1>4, <1>6 DEF Between, NoAnswer
<1>8. Answered => Answered'
  BY <1>3, <1>4, <1>6 DEF Answered, Header, GotAnswer
<1>9. Requested => Requested'
  <2> SUFFICES ASSUME Requested PROVE Requested'
    OBVIOUS
  <2>1. GotRequest = in_cli /\ GotRequest' = in_cli'
    BY <1>1, <1>4 DEF GotRequest
  <2>2. First(in_cli', CliNext') = First(in_cli, CliNext)
    <3>1. CASE UNCHANGED <<in_cli, want_cli>> /\ CliNext' = CliNext
      BY <3>1
    <3>2. CASE in_cli' = Append(in_cli, CliNext)
      <4>1. in_cli' # << >> /\ in_cli'[1] = First(in_cli, CliNext)
        BY <3>2, OrderlyTypes DEF First
      <4>2. QED
        BY <4>1 DEF First
    <3>3. QED
      BY <1>2, <3>1, <3>2
  <2>3. CliLeft' + Len(in_cli') = CliLeft + Len(in_cli)
        /\ want_cli' + Len(in_cli') = want_cli + Len(in_cli)
    <3>1. CASE UNCHANGED <<in_cli, want_cli>> /\ CliLeft' = CliLeft
      BY <3>1
    <3>2. CASE /\ in_cli' = Append(in_cli, CliNext) /\ want_cli' = want_cli - 1
               /\ CliLeft' = CliLeft - 1
      <4>1. Len(in_cli') = Len(in_cli) + 1
        BY <3>2, OrderlyTypes
      <4>2. want_cli' = want_cli - 1 /\ CliLeft' = CliLeft - 1
        BY <3>2
      <4>3. CliLeft \in Int /\ want_cli \in Int /\ Len(in_cli) \in Int
        BY OrderlyTypes
      <4>4. QED
        BY <4>1, <4>2, <4>3
    <3>3. QED
      BY <1>2, <3>1, <3>2
  <2>4. QED
    BY <1>3, <1>4, <2>1, <2>2, <2>3 DEF Requested, NoAnswer
<1>10. Phase'
  BY <1>4, <1>7, <1>8, <1>9 DEF Orderly, Phase, Asked
<1>11. QED
  BY <1>2, <1>3, <1>5, <1>10 DEF Orderly, Exact

LEMMA HandleOrderly ==
  ASSUME SInv, Orderly, Handle PROVE Orderly'
<1>1. /\ spc = "reading" /\ rpc_cli = "idle" /\ req' = in_cli[1] /\ spc' = "writing"
      /\ UNCHANGED <<toSrvVars, client, env>>
  BY DEF Handle
<1>2. PICK n \in (IF req'[1] = "list" THEN 0..1 ELSE {0}) :
        /\ unsent' = n
        /\ ToCli!Send(Message(IF req'[1] # "list" THEN "ack"
                              ELSE IF n = 0 THEN "empty" ELSE "listed", req'[2], HDR))
  BY DEF Handle
<1>3. PICK kind \in {"ack", "empty", "listed"} :
        /\ ToCli!Send(Message(kind, req'[2], HDR))
        /\ unsent' = (IF kind = "listed" THEN 1 ELSE 0)
  BY <1>2
<1>4. Exact /\ AtWork /\ want_cli = 0
  BY <1>1 DEF Orderly, Exact, CliExact
<1>5. Asked /\ calls > 0 /\ Requested
  BY <1>1, <1>4, Sizes DEF Orderly, Phase, Between, Answered, NoRequest
<1>6. Len(in_cli) = MSG /\ GotRequest = in_cli
  BY <1>1, <1>4, <1>5, OrderlyTypes DEF Requested, GotRequest
<1>7. CliLeft = 0 /\ in_cli # << >>
  BY <1>5, <1>6, OrderlyTypes DEF Requested
<1>8. req'[2] = calls
  BY <1>1, <1>5, <1>6, <1>7 DEF Requested, First
<1>9. calls \in 0..MaxId
  BY CallsFit
<1> DEFINE m == Message(kind, req'[2], HDR)
<1>10. m \in Seq(Bytes) /\ Len(m) = HDR /\ m[1] = <<kind, calls>>
  BY <1>8, <1>9, MessageIsBytes, MessageFacts, Sizes DEF Kinds
<1>11. ToCli!Send(m)
  BY <1>3
<1> HIDE DEF m
<1>12. /\ SrvExact' /\ SrvLeft' = HDR /\ UNCHANGED <<rpc_srv, want_srv, in_srv>>
       /\ SrvNext' = <<kind, calls>>
  <2>1. SrvLeft = 0 /\ SrvRing /\ SrvExact
    BY <1>4, <1>5, OrderlyTypes DEF Requested, NoAnswer, Exact
  <2>2. /\ SrvExact' /\ SrvLeft' = SrvLeft + Len(m) /\ UNCHANGED <<rpc_srv, want_srv, in_srv>>
        /\ SrvNext' = IF SrvLeft > 0 THEN SrvNext ELSE m[1]
    BY <1>10, <1>11, <2>1, SrvSend
  <2>3. QED
    BY <1>10, <2>1, <2>2, Sizes
<1>13. CliExact' /\ CliLeft' = CliLeft /\ UNCHANGED <<wpc_cli, rpc_cli>>
  BY <1>1, <1>4, CliSame DEF Exact
<1>14. UNCHANGED <<cpc, calls>>
  BY <1>1 DEF client
<1>15. AtWork'
  BY <1>1, <1>4, <1>12, <1>13, <1>14 DEF AtWork
<1>16. NoRequest'
  BY <1>1, <1>7, <1>13 DEF NoRequest
<1>17. GotAnswer' = << >> /\ Header' = <<kind, calls>>
  BY <1>5, <1>12, <1>14 DEF Requested, GotAnswer, Header, First
<1>18. Len(GotAnswer') + SrvLeft' + MSG * unsent'
         = HDR + (IF kind = "listed" THEN MSG ELSE 0)
  BY <1>3, <1>12, <1>17, Sizes
<1>19. cpc' = "header" => want_srv' + Len(in_srv') = HDR
  BY <1>5, <1>12, <1>14, Sizes DEF Requested
<1>20. cpc' # "records"
  BY <1>5, <1>14 DEF Requested
<1>21. Answered'
  BY <1>3, <1>14, <1>16, <1>17, <1>18, <1>19, <1>20 DEF Answered
<1>22. QED
  BY <1>5, <1>8, <1>12, <1>13, <1>14, <1>15, <1>21 DEF Orderly, Exact, Phase, Asked

LEMMA WriteStepOrderly ==
  ASSUME SInv, Orderly, InPlace, WriteStep PROVE Orderly'
<1>1. /\ spc = "writing" /\ ToCli!Sending /\ UNCHANGED <<toSrvVars, client, server, env>>
  BY DEF WriteStep
<1>2. SrvExact' /\ SrvLeft' = SrvLeft /\ SrvNext' = SrvNext /\ SrvLeft > 0
      /\ UNCHANGED <<rpc_srv, want_srv, in_srv>>
  BY <1>1, OrderlyTypes, SrvSending DEF Orderly, Exact, InPlace
<1>3. CliExact' /\ CliLeft' = CliLeft /\ UNCHANGED <<wpc_cli, rpc_cli, want_cli, in_cli>>
  BY <1>1, CliSame DEF Orderly, Exact
<1>4. UNCHANGED <<cpc, calls, res, spc, req, unsent>>
  BY <1>1 DEF client, server
<1>5. AtWork'
  BY <1>1, <1>2, <1>3, <1>4 DEF Orderly, AtWork
<1>6. Asked /\ calls > 0 /\ req[2] = calls /\ Answered
  BY <1>2 DEF Orderly, Phase, Between, Requested, NoAnswer
<1>7. GotAnswer' = GotAnswer /\ Header' = Header
  BY <1>2, <1>4 DEF GotAnswer, Header
<1>8. Answered'
  BY <1>2, <1>3, <1>4, <1>6, <1>7 DEF Answered, NoRequest
<1>9. QED
  BY <1>2, <1>3, <1>4, <1>5, <1>6, <1>8 DEF Orderly, Exact, Phase, Asked

LEMMA WriteRecordOrderly ==
  ASSUME SInv, Orderly, WriteRecord PROVE Orderly'
<1> DEFINE m == Message("record", req[2], MSG)
<1>1. /\ spc = "writing" /\ unsent > 0 /\ unsent' = unsent - 1 /\ ToCli!Send(m)
      /\ UNCHANGED <<toSrvVars, client, spc, req, env>>
  BY DEF WriteRecord
<1>2. req[2] \in 0..MaxId
  BY ByteFacts, OrderlyTypes
<1>3. m \in Seq(Bytes) /\ Len(m) = MSG
  BY <1>2, MessageIsBytes, MessageFacts, Sizes DEF Kinds
<1> HIDE DEF m
<1>4. unsent = 1 /\ unsent' = 0
  BY <1>1, OrderlyTypes
<1>5. /\ SrvExact' /\ SrvLeft' = SrvLeft + MSG /\ UNCHANGED <<rpc_srv, want_srv, in_srv>>
      /\ SrvLeft > 0 => SrvNext' = SrvNext
  <2>1. SrvRing /\ SrvExact
    BY OrderlyTypes DEF Orderly, Exact
  <2>2. /\ SrvExact' /\ SrvLeft' = SrvLeft + Len(m) /\ UNCHANGED <<rpc_srv, want_srv, in_srv>>
        /\ SrvNext' = IF SrvLeft > 0 THEN SrvNext ELSE m[1]
    BY <1>1, <1>3, <2>1, SrvSend
  <2>3. QED
    BY <1>3, <2>2
<1>6. CliExact' /\ CliLeft' = CliLeft /\ UNCHANGED <<wpc_cli, rpc_cli, want_cli, in_cli>>
  BY <1>1, CliSame DEF Orderly, Exact
<1>7. UNCHANGED <<cpc, calls, res, spc, req>>
  BY <1>1 DEF client
<1>8. AtWork'
  BY <1>1, <1>5, <1>6, <1>7 DEF Orderly, AtWork
<1>9. Asked /\ calls > 0 /\ req[2] = calls /\ Answered
  BY <1>4 DEF Orderly, Phase, Between, Requested, NoAnswer
<1>10. MSG * unsent = MSG /\ MSG * unsent' = 0
  BY <1>4, Sizes
<1>11. GotAnswer' = GotAnswer
  BY <1>5, <1>7 DEF GotAnswer
<1>12. cpc # "records" => Header' = Header
  <2> SUFFICES ASSUME cpc # "records" PROVE Header' = Header
    OBVIOUS
  <2>1. Len(GotAnswer) + SrvLeft + MSG = HDR + MSG
    BY <1>4, <1>9, <1>10 DEF Answered
  <2>2. Len(GotAnswer) \in Nat
    BY OrderlyTypes DEF GotAnswer
  <2>3. SrvLeft > 0 \/ Len(GotAnswer) > 0
    BY <2>1, <2>2, OrderlyTypes
  <2>4. SrvLeft > 0 \/ GotAnswer # << >>
    BY <2>3
  <2>5. QED
    BY <1>5, <1>11, <2>4 DEF Header, First
<1>13. Answered'
  <2>1. NoRequest'
    BY <1>6, <1>7, <1>9 DEF Answered, NoRequest
  <2>2. SrvLeft' + MSG * unsent' = SrvLeft + MSG * unsent
    BY <1>5, <1>10, OrderlyTypes
  <2>3. Len(GotAnswer') + SrvLeft' + MSG * unsent' = Len(GotAnswer) + SrvLeft + MSG * unsent
    <3>1. Len(GotAnswer) \in Nat
      BY OrderlyTypes DEF GotAnswer
    <3>2. QED
      BY <1>5, <1>10, <1>11, <3>1, OrderlyTypes
  <2>4. QED
    BY <1>4, <1>5, <1>7, <1>9, <1>12, <2>1, <2>2, <2>3 DEF Answered
<1>14. QED
  BY <1>5, <1>6, <1>7, <1>8, <1>9, <1>13 DEF Orderly, Exact, Phase, Asked

LEMMA RepliedOrderly ==
  ASSUME SInv, Orderly, Replied PROVE Orderly'
<1>1. /\ spc = "writing" /\ wpc_srv = "idle" /\ unsent = 0 /\ spc' \in {"closed", "recv"}
      /\ UNCHANGED <<toSrvVars, toCliVars, client, req, unsent, env>>
  BY DEF Replied
<1>2. /\ CliExact' /\ CliLeft' = CliLeft /\ CliNext' = CliNext
      /\ UNCHANGED <<wpc_cli, rpc_cli, want_cli, in_cli>>
      /\ SrvExact' /\ SrvLeft' = SrvLeft /\ SrvNext' = SrvNext
      /\ UNCHANGED <<wpc_srv, rpc_srv, want_srv, in_srv>>
  BY <1>1, CliSame, SrvSame DEF Orderly, Exact
<1>3. UNCHANGED <<cpc, calls, res>>
  BY <1>1 DEF client
<1>4. AtWork'
  BY <1>1, <1>2, <1>3 DEF Orderly, AtWork
<1>5. (NoRequest => NoRequest') /\ (NoAnswer => NoAnswer')
  BY <1>1, <1>2 DEF NoRequest, NoAnswer
<1>6. Between => Between'
  BY <1>1, <1>3, <1>5 DEF Between
<1>7. Answered => Answered'
  BY <1>1, <1>2, <1>3, <1>5 DEF Answered, Header, GotAnswer
<1>8. Requested => Requested'
  BY <1>1, <1>2, <1>3, <1>5 DEF Requested, GotRequest
<1>9. Phase'
  BY <1>1, <1>3, <1>6, <1>7, <1>8 DEF Orderly, Phase, Asked
<1>10. QED
  BY <1>2, <1>4, <1>9 DEF Orderly, Exact

-----------------------------------------------------------------------------
(* The invariant and the theorems *)

(* An interruption leaves bytes behind and a later session moves the       *)
(* indices: the bytes stay in their order in the first session whatever is *)
(* cut short, and in any session that is orderly, which this one began as. *)
PInv == /\ SInv
        /\ (session = 1 \/ orderly) => InPlace
        /\ orderly => Orderly

(* What a step does to each ring, if it is not the start of a session. *)
ToSrvStep ==
  \/ \E m \in Seq(Bytes) : ToSrv!Send(m)
  \/ \E n \in Nat : ToSrv!Recv(n)
  \/ ToSrv!Sending \/ ToSrv!Receiving \/ ToSrv!CutSend \/ ToSrv!CutRecv
ToCliStep ==
  \/ \E m \in Seq(Bytes) : ToCli!Send(m)
  \/ \E n \in Nat : ToCli!Recv(n)
  \/ ToCli!Sending \/ ToCli!Receiving \/ ToCli!CutSend \/ ToCli!CutRecv

LEMMA RingSteps ==
  ASSUME SInv, [Next]_vars, ~Restart
  PROVE  /\ ToSrvStep \/ UNCHANGED toSrvVars
         /\ ToCliStep \/ UNCHANGED toCliVars
         /\ UNCHANGED session
<1>1. ASSUME NEW kind \in Requests \cup {"leave"}, Request(kind),
             calls < MaxCalls \/ cpc = "handler"
      PROVE  ToSrvStep /\ UNCHANGED toCliVars /\ UNCHANGED session
  <2>1. SInv'
    BY <1>1, RequestInv
  <2>2. (calls \in 0..MaxId)'
    BY <2>1, CallsFit, PTL
  <2>3. calls' \in 0..MaxId
    BY <2>2 DEF MaxId
  <2>4. Message(kind, calls', MSG) \in Seq(Bytes)
    BY <2>3, MessageIsBytes, Sizes DEF Kinds
  <2>5. QED
    BY <1>1, <2>4 DEF Request, ToSrvStep, env
<1>2. ASSUME NEW kind \in Requests, Call(kind)
      PROVE  ToSrvStep /\ UNCHANGED toCliVars /\ UNCHANGED session
  BY <1>1, <1>2 DEF Call
<1>3. SayGoodBye => ToSrvStep /\ UNCHANGED toCliVars /\ UNCHANGED session
  BY <1>1 DEF SayGoodBye
<1>4. SendStep => ToSrvStep /\ UNCHANGED toCliVars /\ UNCHANGED session
  BY DEF SendStep, ToSrvStep, env
<1>5. AwaitHeader \/ RecvStep => ToCliStep /\ UNCHANGED toSrvVars /\ UNCHANGED session
  BY Sizes DEF AwaitHeader, RecvStep, ToCliStep, env
<1>6. TakeHeader => (ToCliStep \/ UNCHANGED toCliVars) /\ UNCHANGED toSrvVars /\ UNCHANGED session
  BY Sizes DEF TakeHeader, ToCliStep, env
<1>7. TakeRecord \/ Replied => UNCHANGED toCliVars /\ UNCHANGED toSrvVars /\ UNCHANGED session
  BY DEF TakeRecord, Replied, env
<1>8. CutClient => (ToSrvStep \/ UNCHANGED toSrvVars) /\ (ToCliStep \/ UNCHANGED toCliVars)
  BY DEF CutClient, ToSrvStep, ToCliStep
<1>9. Interrupt \/ Resize \/ KillClient => CutClient /\ UNCHANGED session
  BY DEF Interrupt, Resize, KillClient
<1>10. AwaitRequest \/ ReadStep => ToSrvStep /\ UNCHANGED toCliVars /\ UNCHANGED session
  BY Sizes DEF AwaitRequest, ReadStep, ToSrvStep, env
<1>11. WriteStep => ToCliStep /\ UNCHANGED toSrvVars /\ UNCHANGED session
  BY DEF WriteStep, ToCliStep, env
<1>12. WriteRecord => ToCliStep /\ UNCHANGED toSrvVars /\ UNCHANGED session
  <2> SUFFICES ASSUME WriteRecord PROVE ToCliStep /\ UNCHANGED toSrvVars /\ UNCHANGED session
    OBVIOUS
  <2>1. req[2] \in 0..MaxId
    BY ByteFacts, OrderlyTypes
  <2>2. Message("record", req[2], MSG) \in Seq(Bytes)
    BY <2>1, MessageIsBytes, Sizes DEF Kinds
  <2>3. QED
    BY <2>2 DEF WriteRecord, ToCliStep, env
<1>13. Handle => ToCliStep /\ UNCHANGED toSrvVars /\ UNCHANGED session
  <2> SUFFICES ASSUME Handle PROVE ToCliStep /\ UNCHANGED toSrvVars /\ UNCHANGED session
    OBVIOUS
  <2>1. req' = in_cli[1] /\ in_cli # << >> /\ UNCHANGED <<toSrvVars, session>>
    BY DEF Handle, SInv, Ends, env
  <2>2. req' \in Bytes
    BY <2>1, OrderlyTypes
  <2>3. req'[2] \in 0..MaxId
    BY <2>2, ByteFacts
  <2>4. PICK kind \in Kinds : ToCli!Send(Message(kind, req'[2], HDR))
    BY DEF Handle, Kinds
  <2>5. Message(kind, req'[2], HDR) \in Seq(Bytes)
    BY <2>3, MessageIsBytes, Sizes
  <2>6. QED
    BY <2>1, <2>4, <2>5 DEF ToCliStep
<1>14. KillServer => /\ ToSrvStep \/ UNCHANGED toSrvVars
                     /\ ToCliStep \/ UNCHANGED toCliVars
                     /\ UNCHANGED session
  BY DEF KillServer, ToSrvStep, ToCliStep
<1>15. UNCHANGED vars => UNCHANGED toSrvVars /\ UNCHANGED toCliVars /\ UNCHANGED session
  BY DEF vars, env
<1>16. QED
  BY <1>2, <1>3, <1>4, <1>5, <1>6, <1>7, <1>8, <1>9, <1>10, <1>11, <1>12, <1>13, <1>14, <1>15
     DEF Next, Client, Server

LEMMA RingsStayInPlace ==
  ASSUME SInv, InPlace, [Next]_vars, ~Restart
  PROVE  InPlace' /\ [ToSrv!P!Next]_(ToSrv!P!vars) /\ [ToCli!P!Next]_(ToCli!P!vars)
<1>1. CliRing /\ SrvRing
  BY DEF SInv
<1>2. ToSrvStep => ToSrv!Distance' /\ [ToSrv!P!Next]_(ToSrv!P!vars)
  BY <1>1, CliPipe DEF InPlace, ToSrvStep
<1>3. ToCliStep => ToCli!Distance' /\ [ToCli!P!Next]_(ToCli!P!vars)
  BY <1>1, SrvPipe DEF InPlace, ToCliStep
<1>4. UNCHANGED toSrvVars => ToSrv!Distance' /\ UNCHANGED ToSrv!P!vars
  BY CliSame DEF InPlace
<1>5. UNCHANGED toCliVars => ToCli!Distance' /\ UNCHANGED ToCli!P!vars
  BY SrvSame DEF InPlace
<1>6. QED
  BY <1>2, <1>3, <1>4, <1>5, RingSteps DEF InPlace

(* The indices of the next session begin where nothing is left to read.    *)
LEMMA RestartOrderly ==
  ASSUME SInv, Orderly, Restart
  PROVE  Orderly' /\ InPlace'
<1>1. /\ Gone(cpc) /\ Gone(spc)
      /\ wr_cli' = 0 /\ rd_cli' = 0 /\ wr_srv' = 0 /\ rd_srv' = 0
      /\ drift_cli' = 0 /\ drift_srv' = 0
      /\ cpc' = "idle" /\ spc' = "recv" /\ req' = Rest /\ unsent' = 0
      /\ UNCHANGED <<calls, res>>
  BY DEF Restart
<1>2. /\ UNCHANGED <<available_cli, free_cli, wpc_cli, out_cli, rpc_cli, want_cli, in_cli>>
      /\ UNCHANGED <<available_srv, free_srv, wpc_srv, out_srv, rpc_srv, want_srv, in_srv>>
  BY DEF Restart
<1>3. Exact /\ AtWork /\ Between
  BY <1>1 DEF Orderly, Phase, Asked, Gone
<1>4. CliExact' /\ SrvExact'
  BY <1>1, <1>2, <1>3 DEF Exact, CliExact, SrvExact, ToSrv!One, ToCli!One
<1>5. ToSrv!Pending' = ToSrv!Pending /\ ToCli!Pending' = ToCli!Pending
  BY <1>1, <1>2, <1>3 DEF Exact, CliExact, SrvExact, ToSrv!Pending, ToCli!Pending,
     ToSrv!One, ToCli!One
<1>6. CliLeft' = CliLeft /\ SrvLeft' = SrvLeft
  BY <1>2, <1>5 DEF CliLeft, SrvLeft
<1>7. AtWork'
  BY <1>1, <1>2, <1>3 DEF AtWork, Gone
<1>8. Between'
  BY <1>1, <1>3, <1>6 DEF Between, NoRequest, NoAnswer
<1>9. ToSrv!Pending = 0 /\ ToCli!Pending = 0
  BY <1>3, OrderlyTypes, CliLefts, SrvLefts DEF Between, NoRequest, NoAnswer
<1>10. (0 + 0) % ZONE_SIZE = 0
  BY Sizes, SMT
<1>11. InPlace'
  BY <1>1, <1>5, <1>9, <1>10 DEF InPlace, ToSrv!Distance, ToCli!Distance
<1>12. QED
  BY <1>1, <1>4, <1>7, <1>8, <1>11 DEF Orderly, Exact, Phase, Asked

LEMMA OrderlySteps ==
  ASSUME SInv, Orderly, InPlace, [Next]_vars, orderly, orderly'
  PROVE  Orderly'
<1>1. ASSUME NEW kind \in Requests, Call(kind) PROVE Orderly'
  BY <1>1, RequestOrderly DEF Call
<1>2. CASE SayGoodBye
  BY <1>2, RequestOrderly DEF SayGoodBye
<1>3. CASE Client
  BY <1>2, <1>3, SendStepOrderly, AwaitHeaderOrderly, RecvStepOrderly, TakeHeaderOrderly,
     TakeRecordOrderly DEF Client
<1>4. CASE Interrupt
  BY <1>4, ClientCutOrderly DEF Interrupt
<1>5. CASE Resize
  BY <1>5 DEF Resize
<1>6. CASE KillClient
  BY <1>6, ClientCutOrderly DEF KillClient
<1>7. CASE Server
  BY <1>7, AwaitRequestOrderly, ReadStepOrderly, HandleOrderly, WriteStepOrderly,
     WriteRecordOrderly, RepliedOrderly DEF Server
<1>8. CASE KillServer
  BY <1>8, KillServerOrderly
<1>9. CASE Restart
  BY <1>9, RestartOrderly
<1>10. CASE UNCHANGED vars
  <2>1. UNCHANGED <<toSrvVars, toCliVars, cpc, calls, res, spc, req, unsent>>
    BY <1>10 DEF vars, client, server
  <2>2. /\ CliExact' = CliExact /\ CliLeft' = CliLeft /\ CliNext' = CliNext
        /\ UNCHANGED <<wpc_cli, rpc_cli, want_cli, in_cli>>
        /\ SrvExact' = SrvExact /\ SrvLeft' = SrvLeft /\ SrvNext' = SrvNext
        /\ UNCHANGED <<wpc_srv, rpc_srv, want_srv, in_srv>>
    BY <2>1, CliSame, SrvSame
  <2>3. QED
    BY <2>1, <2>2 DEF Orderly, Exact, AtWork, Phase, Asked, Between, Answered, Requested,
       NoRequest, NoAnswer, GotRequest, GotAnswer, Header
<1>11. QED
  BY <1>1, <1>3, <1>4, <1>5, <1>6, <1>7, <1>8, <1>9, <1>10 DEF Next

LEMMA OrderlyIsPast == ASSUME SInv, [Next]_vars, orderly' PROVE orderly
<1>1. Interrupt \/ Resize \/ KillClient \/ KillServer => orderly
  BY DEF Interrupt, Resize, KillClient, KillServer
<1>2. Restart => orderly
  BY DEF Restart
<1>3. Client => orderly
  BY DEF Client, SayGoodBye, Request, SendStep, AwaitHeader, RecvStep, TakeHeader, TakeRecord, env
<1>4. Server => orderly
  BY DEF Server, AwaitRequest, ReadStep, Handle, WriteStep, WriteRecord, Replied, env
<1>5. ASSUME NEW kind \in Requests, Call(kind) PROVE orderly
  BY <1>5 DEF Call, Request, env
<1>6. UNCHANGED vars => orderly
  BY DEF vars, env
<1>7. QED
  BY <1>1, <1>2, <1>3, <1>4, <1>5, <1>6 DEF Next

LEMMA OrderlyInit == Init => PInv
<1> SUFFICES ASSUME Init PROVE PInv
  OBVIOUS
<1>1. SInv
  BY InitInv
<1>2. /\ available_cli = 0 /\ free_cli = ZONE_SIZE /\ wr_cli = 0 /\ rd_cli = 0
      /\ wpc_cli = "idle" /\ rpc_cli = "idle" /\ out_cli = << >> /\ want_cli = 0 /\ drift_cli = 0
  BY DEF Init, ToSrv!Init
<1>3. /\ available_srv = 0 /\ free_srv = ZONE_SIZE /\ wr_srv = 0 /\ rd_srv = 0
      /\ wpc_srv = "idle" /\ rpc_srv = "idle" /\ out_srv = << >> /\ want_srv = 0 /\ drift_srv = 0
  BY DEF Init, ToCli!Init
<1>4. cpc = "idle" /\ spc = "recv" /\ req = Rest /\ unsent = 0
  BY DEF Init
<1>5. ToSrv!Pending = 0 /\ ToCli!Pending = 0
  BY <1>2, <1>3 DEF ToSrv!Pending, ToCli!Pending, ToSrv!One, ToCli!One
<1>6. (0 + 0) % ZONE_SIZE = 0
  BY Sizes, SMT
<1>7. InPlace
  BY <1>2, <1>3, <1>5, <1>6 DEF InPlace, ToSrv!Distance, ToCli!Distance
<1>8. Exact
  BY <1>2, <1>3, Sizes DEF Exact, CliExact, SrvExact, ToSrv!One, ToCli!One
<1>9. CliLeft = 0 /\ SrvLeft = 0
  <2>1. Len(out_cli) = 0 /\ Len(out_srv) = 0
    BY <1>2, <1>3
  <2>2. QED
    BY <1>5, <2>1 DEF CliLeft, SrvLeft
<1>10. AtWork
  BY <1>2, <1>3, <1>4 DEF AtWork
<1>11. Phase
  BY <1>4, <1>9 DEF Phase, Asked, Between, NoRequest, NoAnswer
<1>12. QED
  BY <1>1, <1>7, <1>8, <1>10, <1>11 DEF PInv, Orderly

LEMMA OrderlyNext == PInv /\ [Next]_vars => PInv'
<1> SUFFICES ASSUME PInv, [Next]_vars PROVE PInv'
  OBVIOUS
<1>1. SInv /\ SInv'
  BY NextInv DEF PInv
<1>2. ASSUME orderly' PROVE Orderly'
  BY <1>1, <1>2, OrderlyIsPast, OrderlySteps DEF PInv
<1>3. ASSUME session' = 1 \/ orderly' PROVE InPlace'
  <2>1. CASE Restart
    <3>1. session \in Nat /\ session >= 1 /\ session' = session + 1
      BY <1>1, <2>1 DEF SInv, Ends, Restart
    <3>2. orderly'
      BY <1>3, <3>1
    <3>3. QED
      BY <1>1, <2>1, <3>2, OrderlyIsPast, RestartOrderly DEF PInv
  <2>2. CASE ~Restart
    <3>1. session = 1 \/ orderly
      BY <1>1, <1>3, <2>2, RingSteps, OrderlyIsPast
    <3>2. QED
      BY <1>1, <2>2, <3>1, RingsStayInPlace DEF PInv
  <2>3. QED
    BY <2>1, <2>2
<1>4. QED
  BY <1>1, <1>2, <1>3 DEF PInv

LEMMA OrderlyInvariance == Spec => []PInv
BY OrderlyInit, OrderlyNext, PTL DEF Spec

(* Between two calls of an orderly session both rings are as new, their    *)
(* indices aside: nothing leaks into the next call, or into the next       *)
(* session, which finds the semaphores of this one (shmem.c:119).          *)
THEOREM NothingLeaks == Spec => []NothingIsLeftBehind
<1>1. PInv => NothingIsLeftBehind
  <2> SUFFICES ASSUME PInv, orderly, cpc = "idle"
               PROVE  /\ available_cli = 0 /\ available_srv = 0
                      /\ free_cli = ZONE_SIZE /\ free_srv = ZONE_SIZE
    BY DEF NothingIsLeftBehind
  <2>1. SInv /\ Exact /\ AtWork /\ Between
    BY DEF PInv, Orderly, Phase, Asked
  <2>2. /\ available_cli = 0 /\ wpc_cli = "idle" /\ rpc_cli # "load"
        /\ available_srv = 0 /\ wpc_srv = "idle" /\ rpc_srv = "idle"
    BY <2>1, OrderlyTypes, CliLefts, SrvLefts DEF Between, NoRequest, NoAnswer, AtWork
  <2>3. rpc_cli # "post"
    BY <2>1 DEF AtWork, Between, NoRequest, SInv, CliRing
  <2>4. free_cli \in Nat /\ free_srv \in Nat
    BY <2>1, OrderlyTypes, CliTypes, SrvTypes
  <2>5. QED
    BY <2>1, <2>2, <2>3, <2>4 DEF Exact, CliExact, SrvExact, ToSrv!One, ToCli!One
<1>2. QED
  BY <1>1, OrderlyInvariance, PTL

(* What a call of an orderly session has read is the answer to this call,  *)
(* and the server has carried out no other since (cli.c, proto.c).         *)
THEOREM AnswersAreOwn == Spec => []OwnAnswer
<1>1. PInv => OwnAnswer
  BY DEF PInv, Orderly, Phase, Asked, Between, OwnAnswer
<1>2. QED
  BY <1>1, OrderlyInvariance, PTL

(* Either direction is a pipe in the first session, whatever is cut short, *)
(* and in a later one as long as every call is finished (shmem.c:181 and   *)
(* :212, whose indices a new session sets to 0).                           *)
THEOREM BytesKeepTheirOrder == Spec => BytesComeInOrder
<1>1. ASSUME PInv, PInv', [Next]_vars
      PROVE  /\ [Within(ToSrv!P!Next)]_(ToSrv!P!vars)
             /\ [Within(ToCli!P!Next)]_(ToCli!P!vars)
  <2>1. CASE session' = session /\ (session = 1 \/ orderly')
    <3>1. SInv /\ InPlace
      BY <1>1, <2>1, OrderlyIsPast DEF PInv
    <3>2. session \in Nat
      BY <3>1 DEF SInv, Ends
    <3>3. ~Restart
      BY <2>1, <3>2 DEF Restart
    <3>4. QED
      BY <1>1, <3>1, <3>3, RingsStayInPlace DEF Within
  <2>2. QED
    BY <2>1 DEF Within
<1>2. QED
  BY <1>1, OrderlyInvariance, PTL DEF Spec, BytesComeInOrder

=============================================================================
