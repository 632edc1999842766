--------------------------- MODULE ProtocolProofs ---------------------------
(***************************************************************************)
(* The protocol between a client and its server process, for any number of *)
(* calls, interruptions and replays and lists of any length: which answer  *)
(* a call returns, which requests are carried out, and that the messages   *)
(* implement Calls.                                                        *)
(***************************************************************************)
EXTENDS Protocol, SequenceTheorems, TLAPS

RecordId == Nat \X (1..MaxList)
Number == -1..MaxList
HeaderSet == [kind : {"header"}, type : AnswerType, payload : Number, of : Nat]
RecordSet == [kind : {"record"}, rec : RecordId]
MessageSet == HeaderSet \cup RecordSet
Value == [of : Nat, code : Number, list : Seq(RecordId)]

Types ==
  /\ cpc \in {"idle", "header", "records", "left", "killed"}
  /\ leaving \in BOOLEAN
  /\ calls \in 0..(MaxCalls + 1)
  /\ proxy \in Op \cup {"leave"}
  /\ res \in [type : AnswerType \cup {"other"}, code : Number \cup {Scrap},
              len : 0..MaxList, list : Seq(RecordId), of : Nat]
  /\ answer \in [of : Nat, code : Number \cup {Scrap}, list : Seq(RecordId)]
  /\ resizes \in 0..MaxResizes
  /\ toSrv \in Seq(Request)
  /\ toCli \in Seq(MessageSet)
  /\ spc \in {"recv", "handle", "header", "records", "closed", "killed"}
  /\ buf \in Request \cup {None}
  /\ received \in {"bytes", "eof", "error"}
  /\ sres \in [type : AnswerType, code : Number, list : Seq(RecordId), of : Nat]
  /\ sent \in 0..MaxList
  /\ log \in Seq(Value)

(* How many requests the server has taken off the connection. *)
Served == calls - Len(toSrv)

(* The requests under way, in the order of the calls. *)
Asked ==
  /\ Len(toSrv) <= calls
  /\ \A i \in 1..Len(toSrv) : toSrv[i].id = Served + i

(* The buffer of the server holds the last request that it took. *)
Handled ==
  /\ buf = None => spc = "recv" /\ Served = 0 /\ log = << >>
  /\ buf # None => buf.id = Served

LeaveHandled == buf # None /\ buf.op = "leave"

(* The good-bye is the last request, and the server stops at it. *)
Goodbye ==
  /\ LeaveHandled => spc # "recv"
  /\ leaving => IF toSrv = << >> THEN LeaveHandled
                                 ELSE toSrv[Len(toSrv)].op = "leave"
  /\ cpc = "left" => leaving
  /\ cpc = "idle" => ~leaving
  /\ ~leaving => calls <= MaxCalls

(* The last request carried out is the one in the buffer, or the one       *)
(* before it; it is carried out again only when the client was killed.     *)
Latest ==
  log # << >> =>
    \/ /\ log[Len(log)].of = Served
       /\ spc = "handle" => cpc = "killed"
    \/ /\ log[Len(log)].of = Served - 1
       /\ spc = "handle" \/ LeaveHandled

(* As long as the client is there each request is carried out once. *)
Logged ==
  Connected =>
    /\ \A j \in 1..Len(log) : log[j].of = j
    /\ Len(log) = IF spc = "handle" \/ LeaveHandled THEN Served - 1 ELSE Served

(* How many records the answer to a call has. *)
RecordsIn(values, id) == IF id \in 1..Len(values) THEN Len(values[id].list) ELSE 0
Records(id) == RecordsIn(log, id)

(* What the server is writing. *)
Answering ==
  /\ \A k \in 1..Len(sres.list) : sres.list[k] = <<sres.of, k>>
  /\ Len(sres.list) <= MaxList
  /\ sres.type = "atc_ack" => sres.list = << >>
  /\ spc = "header" => sent = 0
  /\ spc = "records" => sent < Len(sres.list)
  /\ spc \in {"header", "records"} => sres.of = Served
  /\ Connected /\ spc \in {"header", "records"} => Len(sres.list) = Records(Served)

(* The place of a message in the stream of all answers: whose answer it is *)
(* in, and the how manieth record, 0 for the header.                       *)
Pos(m) == IF m.kind = "header" THEN <<m.of, 0>> ELSE m.rec
Follows(values, p, q) ==
  q = IF p[2] < RecordsIn(values, p[1]) THEN <<p[1], p[2] + 1>> ELSE <<p[1] + 1, 0>>

(* The message read last, those on their way, and the one to write next,   *)
(* each follows the one before.                                            *)
LastRead == <<res.of, Len(res.list)>>
NextWritten ==
  CASE spc \in {"handle", "header"} -> <<Served, 0>>
    [] spc = "records" -> <<Served, sent + 1>>
    [] OTHER -> <<Served + 1, 0>>
Link(i) == IF i = 0 THEN LastRead
           ELSE IF i <= Len(toCli) THEN Pos(toCli[i]) ELSE NextWritten
Chain == Connected => \A i \in 0..Len(toCli) : Follows(log, Link(i), Link(i + 1))

(* Nothing is answered before it was carried out. *)
Written == IF spc \in {"handle", "header"} THEN Served - 1 ELSE Served
Bounded == Connected => \A i \in 0..Len(toCli) : Link(i)[1] <= Written

(* A header says how many records follow it. *)
Counted ==
  Connected => \A i \in 1..Len(toCli) :
    toCli[i].kind = "header" =>
      Records(toCli[i].of) = IF toCli[i].type = "atc_ack" THEN 0 ELSE toCli[i].payload

(* What the client has read, and which call's answer it is. *)
Reading ==
  /\ cpc = "records" => res.len = Records(res.of) /\ Len(res.list) < res.len
  /\ cpc = "idle" \/ (cpc = "header" /\ ~leaving) => Len(res.list) = Records(res.of)
  /\ cpc = "idle" => res.of = calls - resizes
  /\ cpc = "header" /\ ~leaving => res.of = calls - 1 - resizes
  /\ cpc = "records" /\ ~leaving => res.of = calls - resizes

PInv ==
  /\ Types /\ Asked /\ Handled /\ Goodbye /\ Latest /\ OnlyTheLastIsRepeated
  /\ Logged /\ Answering /\ Chain /\ Bounded /\ Counted /\ Reading

-----------------------------------------------------------------------------
(* What the definitions amount to *)

LEMMA TypesAreOK == Types => TypeOK
BY DEF Types, TypeOK, RecordId, Number, HeaderSet, RecordSet, MessageSet, Value

LEMMA Sorts ==
  ASSUME PInv
  PROVE  /\ calls \in Nat /\ Len(toSrv) \in Nat /\ Served \in Nat
         /\ toSrv \in Seq(Request) /\ toCli \in Seq(MessageSet) /\ Len(toCli) \in Nat
         /\ log \in Seq(Value) /\ Len(log) \in Nat
         /\ res.of \in Nat /\ res.list \in Seq(RecordId) /\ Len(res.list) \in Nat
         /\ res.len \in Nat
         /\ sres.list \in Seq(RecordId) /\ Len(sres.list) \in Nat /\ sent \in Nat
         /\ resizes \in Nat
<1>1. Types /\ Asked
  BY DEF PInv
<1>2. MaxCalls \in Nat /\ MaxResizes \in Nat /\ MaxList \in Nat
  BY ProtocolBoundAssumption, RequestAssumption
<1>3. calls \in Nat /\ resizes \in Nat /\ sent \in Nat /\ res.len \in Nat
  BY <1>1, <1>2 DEF Types
<1>4. toSrv \in Seq(Request) /\ toCli \in Seq(MessageSet) /\ log \in Seq(Value)
  BY <1>1 DEF Types
<1>5. res.list \in Seq(RecordId) /\ sres.list \in Seq(RecordId) /\ res.of \in Nat
  BY <1>1 DEF Types
<1>6. Len(toSrv) <= calls
  BY <1>1 DEF Asked
<1>7. QED
  BY <1>3, <1>4, <1>5, <1>6 DEF Served

LEMMA RecordsSort ==
  ASSUME PInv, NEW x \in Int
  PROVE  Records(x) \in Nat
<1>1. log \in Seq(Value)
  BY Sorts
<1>2. CASE x \in 1..Len(log)
  <2>1. log[x] \in Value
    BY <1>1, <1>2
  <2>2. log[x].list \in Seq(RecordId)
    BY <2>1 DEF Value
  <2>3. QED
    BY <1>2, <2>2 DEF Records, RecordsIn
<1>3. CASE x \notin 1..Len(log)
  BY <1>3 DEF Records, RecordsIn
<1>4. QED
  BY <1>2, <1>3

(* A header is at place 0 of its answer, a record at a place of its own. *)
LEMMA PosFacts ==
  ASSUME NEW m \in MessageSet
  PROVE  /\ m.kind \in {"header", "record"}
         /\ m.kind = "header" => m \in HeaderSet /\ Pos(m) = <<m.of, 0>> /\ m.of \in Nat
         /\ m.kind = "record" => m \in RecordSet /\ Pos(m) = m.rec
                                 /\ m.rec \in RecordId /\ m.rec[2] \in 1..MaxList
         /\ Pos(m)[1] \in Nat
<1>1. m \in HeaderSet => m.kind = "header" /\ m.of \in Nat
  BY DEF HeaderSet
<1>2. m \in RecordSet => m.kind = "record" /\ m.rec \in RecordId
  BY DEF RecordSet
<1>3. m \in HeaderSet \/ m \in RecordSet
  BY DEF MessageSet
<1>4. \A r \in RecordId : r[1] \in Nat /\ r[2] \in 1..MaxList
  BY DEF RecordId
<1>5. QED
  BY <1>1, <1>2, <1>3, <1>4 DEF Pos

-----------------------------------------------------------------------------
(* The stream of answers, under what the steps do to it *)

Stream == Chain /\ Bounded /\ Counted

LEMMA StreamStays ==
  ASSUME PInv, Connected' => Connected,
         UNCHANGED <<res, toCli, log>>,
         NextWritten' = NextWritten, Written' = Written
  PROVE  Stream'
<1>1. \A i : Link(i)' = Link(i)
  BY DEF Link, LastRead, Pos
<1>3. QED
  BY <1>1 DEF PInv, Stream, Chain, Bounded, Counted, Records

LEMMA StreamIsRead ==
  ASSUME PInv, Connected, toCli # << >>,
         toCli' = Tail(toCli), LastRead' = Pos(toCli[1]), log' = log,
         NextWritten' = NextWritten, Written' = Written
  PROVE  Stream'
<1>1. toCli \in Seq(MessageSet) /\ Len(toCli) \in Nat
  BY Sorts
<1>2. Len(toCli') = Len(toCli) - 1 /\ \A i \in 1..Len(toCli') : toCli'[i] = toCli[i + 1]
  BY <1>1
<1>3. \A i \in 0..(Len(toCli') + 1) : Link(i)' = Link(i + 1)
  BY <1>1, <1>2 DEF Link, Pos
<1>5. Chain'
  <2>1. \A i \in 0..Len(toCli') : Follows(log, Link(i + 1), Link(i + 2))
    BY <1>1, <1>2 DEF PInv, Chain
  <2>2. QED
    BY <1>1, <1>2, <1>3, <2>1 DEF Chain
<1>6. Bounded'
  BY <1>1, <1>2, <1>3 DEF PInv, Bounded
<1>7. Counted'
  BY <1>1, <1>2 DEF PInv, Counted, Records
<1>8. QED
  BY <1>5, <1>6, <1>7 DEF Stream

LEMMA StreamIsWritten ==
  ASSUME PInv, NEW m \in MessageSet, Connected' => Connected,
         Connected => /\ toCli' = Append(toCli, m)
                      /\ Pos(m) = NextWritten
                      /\ Follows(log, NextWritten, NextWritten')
                      /\ m.kind = "header" =>
                           Records(m.of) = IF m.type = "atc_ack" THEN 0 ELSE m.payload
                      /\ Written <= Served /\ Written' = Served
                      /\ NextWritten[1] = Served,
         UNCHANGED <<res, log>>
  PROVE  Stream'
<1> SUFFICES ASSUME Connected PROVE Stream'
  BY DEF Stream, Chain, Bounded, Counted
<1>1. toCli \in Seq(MessageSet) /\ Len(toCli) \in Nat /\ Served \in Nat
  BY Sorts
<1>2. /\ Len(toCli') = Len(toCli) + 1 /\ toCli'[Len(toCli) + 1] = m
      /\ \A i \in 1..Len(toCli) : toCli'[i] = toCli[i]
  BY <1>1
<1>3. \A i \in 0..Len(toCli) : Link(i)' = Link(i)
  <2> SUFFICES ASSUME NEW i \in 0..Len(toCli) PROVE Link(i)' = Link(i)
    OBVIOUS
  <2>1. CASE i = 0
    BY <2>1 DEF Link, LastRead
  <2>2. CASE i # 0
    <3>1. toCli'[i] = toCli[i] /\ i <= Len(toCli) /\ i <= Len(toCli')
      BY <1>1, <1>2, <2>2
    <3>2. QED
      BY <2>2, <3>1 DEF Link
  <2>3. QED
    BY <2>1, <2>2
<1>4. PICK n \in Nat : n = Len(toCli)
  BY <1>1
<1>5. Link(n + 1)' = NextWritten /\ Link(n + 2)' = NextWritten' /\ Link(n + 1) = NextWritten
  <2>1. Len(toCli') = n + 1 /\ toCli'[n + 1] = m
    BY <1>2, <1>4
  <2>2. n + 1 # 0 /\ n + 2 # 0 /\ n + 1 <= n + 1 /\ ~(n + 2 <= n + 1) /\ ~(n + 1 <= n)
    BY <1>4
  <2>3. Link(n + 1)' = Pos(toCli'[n + 1])
    BY <2>1, <2>2 DEF Link, Pos
  <2>4. Link(n + 2)' = NextWritten'
    BY <2>1, <2>2 DEF Link
  <2>5. Link(n + 1) = NextWritten
    BY <1>4, <2>2 DEF Link
  <2>6. QED
    BY <2>1, <2>3, <2>4, <2>5
<1>6. Chain'
  <2>1. \A i \in 0..n : Follows(log, Link(i), Link(i + 1))
    BY <1>4 DEF PInv, Chain
  <2>2. Len(toCli') = n + 1
    BY <1>2, <1>4
  <2>3. \A i \in 0..n : Link(i)' = Link(i)
    BY <1>3, <1>4
  <2>4. \A i \in 0..(n + 1) : Follows(log', Link(i)', Link(i + 1)')
    <3> SUFFICES ASSUME NEW i \in 0..(n + 1)
                 PROVE  Follows(log', Link(i)', Link(i + 1)')
      OBVIOUS
    <3>1. CASE i \in 0..(n - 1)
      <4>1. i \in 0..n /\ i + 1 \in 0..n
        BY <1>4, <3>1
      <4>2. Link(i)' = Link(i) /\ Link(i + 1)' = Link(i + 1)
        BY <2>3, <4>1
      <4>3. QED
        BY <2>1, <4>1, <4>2
    <3>2. CASE i = n
      <4>1. n \in 0..n
        BY <1>4
      <4>2. Link(n)' = Link(n) /\ Link(n + 1)' = Link(n + 1)
        BY <1>5, <2>3, <4>1
      <4>3. QED
        BY <2>1, <3>2, <4>1, <4>2
    <3>3. CASE i = n + 1
      <4>1. (n + 1) + 1 = n + 2
        BY <1>4
      <4>2. Link((n + 1) + 1)' = NextWritten'
        BY <1>5, <4>1
      <4>3. QED
        BY <1>5, <3>3, <4>2
    <3>4. QED
      BY <3>1, <3>2, <3>3
  <2>5. QED
    BY <2>2, <2>4 DEF Chain
<1>7. Bounded'
  <2>1. \A i \in 0..Len(toCli) : Link(i)[1] <= Written
    BY DEF PInv, Bounded
  <2>2. \A i \in 0..Len(toCli') : i \in 0..Len(toCli) \/ i = Len(toCli) + 1
    BY <1>1, <1>2
  <2>3. Written \in Int
    BY <1>1 DEF Written
  <2>4. \A i \in 0..Len(toCli) : Link(i)[1] \in Int
    <3> SUFFICES ASSUME NEW i \in 0..Len(toCli) PROVE Link(i)[1] \in Int
      OBVIOUS
    <3>1. CASE i = 0
      BY <3>1, Sorts DEF Link, LastRead
    <3>2. CASE i # 0
      <4>1. toCli[i] \in MessageSet
        BY <1>1, <3>2
      <4>2. Pos(toCli[i])[1] \in Nat
        BY <4>1, PosFacts
      <4>3. QED
        BY <1>1, <3>2, <4>2 DEF Link
    <3>3. QED
      BY <3>1, <3>2
  <2>5. \A i \in 0..Len(toCli') : (Link(i)')[1] <= Served
    <3> SUFFICES ASSUME NEW i \in 0..Len(toCli')
                 PROVE  (Link(i)')[1] <= Served
      OBVIOUS
    <3>1. CASE i \in 0..Len(toCli)
      BY <1>1, <1>3, <2>1, <2>3, <2>4, <3>1
    <3>2. CASE i = n + 1
      BY <1>1, <1>5, <3>2
    <3>3. QED
      BY <1>4, <2>2, <3>1, <3>2
  <2>6. QED
    BY <2>5 DEF Bounded
<1>8. Counted'
  BY <1>1, <1>2 DEF PInv, Counted, Records
<1>9. QED
  BY <1>6, <1>7, <1>8 DEF Stream

-----------------------------------------------------------------------------
(* The steps of the client *)

(* What only the server changes. *)
LEMMA ServerStays ==
  ASSUME PInv, UNCHANGED server, Served' = Served,
         Connected' => Connected, cpc = "killed" => cpc' = "killed"
  PROVE  /\ Handled' /\ Latest' /\ OnlyTheLastIsRepeated' /\ Logged' /\ Answering'
         /\ NextWritten' = NextWritten /\ Written' = Written
         /\ LeaveHandled' = LeaveHandled
<1>1. UNCHANGED <<spc, buf, received, sres, sent, log>>
  BY DEF server
<1>2. Handled'
  BY <1>1 DEF PInv, Handled
<1>3. LeaveHandled' = LeaveHandled
  BY <1>1 DEF LeaveHandled
<1>4. Latest'
  BY <1>1, <1>3 DEF PInv, Latest
<1>5. OnlyTheLastIsRepeated'
  BY <1>1 DEF PInv, OnlyTheLastIsRepeated
<1>6. Logged'
  BY <1>1, <1>3 DEF PInv, Logged
<1>7. Answering'
  BY <1>1 DEF PInv, Answering, Records
<1>8. NextWritten' = NextWritten /\ Written' = Written
  BY <1>1 DEF NextWritten, Written
<1>9. QED
  BY <1>2, <1>3, <1>4, <1>5, <1>6, <1>7, <1>8

(* A request, be it a call or the good-bye, goes behind those under way. *)
LEMMA SendFacts ==
  ASSUME PInv, NEW op \in Op \cup {"leave"}, Send(op)
  PROVE  /\ Served' = Served /\ Asked' /\ calls' = calls + 1
         /\ toSrv' \in Seq(Request) /\ toSrv' # << >>
         /\ toSrv'[Len(toSrv')].op = op
<1>1. /\ calls \in Nat /\ toSrv \in Seq(Request) /\ Len(toSrv) \in Nat
      /\ Len(toSrv) <= calls
  BY Sorts DEF PInv, Asked
<1> DEFINE r == [op |-> op, id |-> calls + 1]
<1>2. toSrv' = Append(toSrv, r) /\ calls' = calls + 1
  BY DEF Send
<1>3. r \in Request /\ r.id = calls + 1 /\ r.op = op
  BY <1>1 DEF Request
<1> HIDE DEF r
<1>4. /\ toSrv' \in Seq(Request) /\ Len(toSrv') = Len(toSrv) + 1 /\ toSrv' # << >>
      /\ toSrv'[Len(toSrv')] = r
      /\ \A i \in 1..Len(toSrv) : toSrv'[i] = toSrv[i]
  BY <1>1, <1>2, <1>3
<1>5. Served' = Served
  BY <1>1, <1>2, <1>4 DEF Served
<1>6. \A i \in 1..Len(toSrv') : toSrv'[i].id = Served + i
  <2> SUFFICES ASSUME NEW i \in 1..Len(toSrv') PROVE toSrv'[i].id = Served + i
    OBVIOUS
  <2>1. CASE i \in 1..Len(toSrv)
    BY <1>4, <2>1 DEF PInv, Asked
  <2>2. CASE i = Len(toSrv')
    <3>1. Served + i = calls + 1
      BY <1>1, <1>4, <2>2 DEF Served
    <3>2. QED
      BY <1>3, <1>4, <2>2, <3>1
  <2>3. QED
    BY <1>1, <1>4, <2>1, <2>2
<1>7. Asked'
  BY <1>1, <1>2, <1>4, <1>5, <1>6 DEF Asked
<1>8. QED
  BY <1>2, <1>3, <1>4, <1>5, <1>7

LEMMA CallInv == ASSUME PInv, NEW op \in Op, Call(op) PROVE PInv'
<1>1. /\ cpc = "idle" /\ calls < MaxCalls /\ Send(op) /\ cpc' = "header" /\ proxy' = op
      /\ UNCHANGED <<leaving, res, answer, resizes, toCli, server>>
  BY DEF Call, Send
<1>2. /\ Served' = Served /\ Asked' /\ calls' = calls + 1
      /\ toSrv' \in Seq(Request) /\ toSrv' # << >>
  BY <1>1, SendFacts
<1>3. ~leaving /\ ~leaving' /\ Connected
  BY <1>1 DEF PInv, Goodbye, Connected
<1>4. Types'
  BY <1>1, <1>2, ProtocolBoundAssumption DEF PInv, Types, server
<1>5. /\ Handled' /\ Latest' /\ OnlyTheLastIsRepeated' /\ Logged' /\ Answering'
      /\ NextWritten' = NextWritten /\ Written' = Written /\ LeaveHandled' = LeaveHandled
  BY <1>1, <1>2, <1>3, ServerStays
<1>6. Goodbye'
  BY <1>1, <1>2, <1>3, <1>5, Sorts, ProtocolBoundAssumption DEF PInv, Goodbye, server
<1>7. Stream'
  BY <1>1, <1>3, <1>5, StreamStays DEF server
<1>8. Reading'
  BY <1>1, <1>2, <1>3, Sorts DEF PInv, Reading, Records, server
<1>9. QED
  BY <1>2, <1>4, <1>5, <1>6, <1>7, <1>8 DEF PInv, Stream

LEMMA InterruptInv == ASSUME PInv, Interrupt PROVE PInv'
<1>1. /\ Connected /\ ~leaving /\ leaving' = TRUE /\ Send("leave")
      /\ cpc' = "header" /\ proxy' = "leave"
      /\ UNCHANGED <<res, answer, resizes, toCli, server>>
  BY DEF Interrupt, Send
<1>2. /\ Served' = Served /\ Asked' /\ calls' = calls + 1
      /\ toSrv' \in Seq(Request) /\ toSrv' # << >> /\ toSrv'[Len(toSrv')].op = "leave"
  BY <1>1, SendFacts
<1>3. Types'
  BY <1>1, <1>2, ProtocolBoundAssumption DEF PInv, Types, Goodbye, server
<1>4. /\ Handled' /\ Latest' /\ OnlyTheLastIsRepeated' /\ Logged' /\ Answering'
      /\ NextWritten' = NextWritten /\ Written' = Written /\ LeaveHandled' = LeaveHandled
  <2>1. cpc # "killed"
    BY <1>1 DEF Connected
  <2>2. QED
    BY <1>1, <1>2, <2>1, ServerStays
<1>5. Goodbye'
  BY <1>1, <1>2, <1>4 DEF PInv, Goodbye, server
<1>6. Stream'
  BY <1>1, <1>4, StreamStays DEF server
<1>7. Reading'
  BY <1>1 DEF PInv, Reading, Records, server
<1>8. QED
  BY <1>2, <1>3, <1>4, <1>5, <1>6, <1>7 DEF PInv, Stream

(* What leaves the requests alone. *)
LEMMA AskedStays ==
  ASSUME PInv, UNCHANGED <<calls, toSrv>>
  PROVE  Served' = Served /\ Asked'
BY DEF PInv, Asked, Served

LEMMA AnswerSort ==
  ASSUME NEW op, NEW r \in [type : AnswerType \cup {"other"}, code : Number \cup {Scrap},
                            len : 0..MaxList, list : Seq(RecordId), of : Nat]
  PROVE  Answer(op, r) \in [of : Nat, code : Number \cup {Scrap}, list : Seq(RecordId)]
<1>1. /\ r.of \in Nat /\ r.code \in Number \cup {Scrap} /\ r.len \in Number
      /\ r.list \in Seq(RecordId) /\ -1 \in Number
  BY RequestAssumption DEF Number
<1>2. << >> \in Seq(RecordId)
  OBVIOUS
<1>3. QED
  BY <1>1, <1>2 DEF Answer, Code

LEMMA RefuseInv == ASSUME PInv, Refuse PROVE PInv'
<1>1. /\ cpc = "idle" /\ answer' = Code(calls, -1)
      /\ UNCHANGED <<cpc, leaving, calls, proxy, res, resizes, toSrv, toCli, server>>
  BY DEF Refuse
<1>2. Types'
  <2>1. Code(calls, -1) \in [of : Nat, code : Number \cup {Scrap}, list : Seq(RecordId)]
    BY Sorts, RequestAssumption DEF Code, Number
  <2>2. QED
    BY <1>1, <2>1 DEF PInv, Types, server
<1>3. Served' = Served /\ Asked'
  BY <1>1, AskedStays
<1>4. Connected' = Connected
  BY <1>1 DEF Connected
<1>5. /\ Handled' /\ Latest' /\ OnlyTheLastIsRepeated' /\ Logged' /\ Answering'
      /\ NextWritten' = NextWritten /\ Written' = Written /\ LeaveHandled' = LeaveHandled
  BY <1>1, <1>3, <1>4, ServerStays
<1>6. Goodbye'
  BY <1>1, <1>5 DEF PInv, Goodbye, server
<1>7. Stream'
  BY <1>1, <1>4, <1>5, StreamStays DEF server
<1>8. Reading'
  BY <1>1 DEF PInv, Reading, Records, server
<1>9. QED
  BY <1>2, <1>3, <1>5, <1>6, <1>7, <1>8 DEF PInv, Stream

LEMMA ResizeInv == ASSUME PInv, Resize PROVE PInv'
<1>1. /\ cpc = "header" /\ resizes < MaxResizes /\ resizes' = resizes + 1
      /\ cpc' = IF leaving THEN "left" ELSE "idle"
      /\ answer' = IF leaving THEN answer ELSE Answer(proxy, res)
      /\ UNCHANGED <<leaving, calls, proxy, res, toSrv, toCli, server>>
  BY DEF Resize, Finish
<1>2. Types'
  <2>1. Answer(proxy, res) \in [of : Nat, code : Number \cup {Scrap}, list : Seq(RecordId)]
    BY AnswerSort DEF PInv, Types
  <2>2. resizes' \in 0..MaxResizes
    BY <1>1, Sorts, ProtocolBoundAssumption
  <2>3. QED
    BY <1>1, <2>1, <2>2 DEF PInv, Types, server
<1>3. Served' = Served /\ Asked'
  BY <1>1, AskedStays
<1>4. Connected' => Connected
  BY <1>1 DEF Connected
<1>5. /\ Handled' /\ Latest' /\ OnlyTheLastIsRepeated' /\ Logged' /\ Answering'
      /\ NextWritten' = NextWritten /\ Written' = Written /\ LeaveHandled' = LeaveHandled
  BY <1>1, <1>3, <1>4, ServerStays
<1>6. Goodbye'
  BY <1>1, <1>5 DEF PInv, Goodbye, server
<1>7. Stream'
  BY <1>1, <1>4, <1>5, StreamStays DEF server
<1>8. Reading'
  BY <1>1, Sorts DEF PInv, Reading, Records, server
<1>9. QED
  BY <1>2, <1>3, <1>5, <1>6, <1>7, <1>8 DEF PInv, Stream

LEMMA CrashInv == ASSUME PInv, Crash PROVE PInv'
<1>1. /\ cpc' = "killed"
      /\ UNCHANGED <<leaving, calls, proxy, res, answer, resizes, toSrv, toCli, server>>
  BY DEF Crash
<1>2. Types'
  BY <1>1 DEF PInv, Types, server
<1>3. Served' = Served /\ Asked'
  BY <1>1, AskedStays
<1>4. Connected' => Connected
  BY <1>1 DEF Connected
<1>5. /\ Handled' /\ Latest' /\ OnlyTheLastIsRepeated' /\ Logged' /\ Answering'
      /\ NextWritten' = NextWritten /\ Written' = Written /\ LeaveHandled' = LeaveHandled
  BY <1>1, <1>3, <1>4, ServerStays
<1>6. Goodbye'
  BY <1>1, <1>5 DEF PInv, Goodbye, server
<1>7. Stream'
  BY <1>1, <1>4, <1>5, StreamStays DEF server
<1>8. Reading'
  BY <1>1 DEF Reading
<1>9. QED
  BY <1>2, <1>3, <1>5, <1>6, <1>7, <1>8 DEF PInv, Stream

(* The message that the client reads follows the one that it read last: a  *)
(* header of the next call if all of the last list was read, and else a    *)
(* record.                                                                 *)
LEMMA HeadFacts ==
  ASSUME PInv, Connected, toCli # << >>
  PROVE  /\ toCli[1] \in MessageSet /\ Head(toCli) = toCli[1]
         /\ Tail(toCli) \in Seq(MessageSet)
         /\ Pos(toCli[1]) = IF Len(res.list) < Records(res.of)
                              THEN <<res.of, Len(res.list) + 1>> ELSE <<res.of + 1, 0>>
<1>1. toCli \in Seq(MessageSet) /\ Len(toCli) \in Nat /\ 1 <= Len(toCli)
  BY Sorts
<1>2. 0 \in 0..Len(toCli) /\ 0 + 1 = 1
  BY <1>1
<1>3. Follows(log, Link(0), Link(1))
  BY <1>2 DEF PInv, Chain
<1>4. Link(0) = <<res.of, Len(res.list)>> /\ Link(1) = Pos(toCli[1])
  BY <1>1 DEF Link, LastRead
<1>5. toCli[1] \in MessageSet /\ Head(toCli) = toCli[1] /\ Tail(toCli) \in Seq(MessageSet)
  BY <1>1
<1>6. QED
  BY <1>3, <1>4, <1>5 DEF Follows, Records

LEMMA ReadHeaderInv == ASSUME PInv, ReadHeader PROVE PInv'
<1> DEFINE h == toCli[1]
<1>1. /\ cpc = "header" /\ toCli # << >> /\ Connected /\ cpc # "killed"
      /\ UNCHANGED <<leaving, calls, proxy, resizes, toSrv, server>>
  BY DEF ReadHeader, Connected
<1>2. /\ h \in MessageSet /\ Head(toCli) = h /\ Tail(toCli) \in Seq(MessageSet)
      /\ Pos(h) = IF Len(res.list) < Records(res.of)
                     THEN <<res.of, Len(res.list) + 1>> ELSE <<res.of + 1, 0>>
  BY <1>1, HeadFacts
<1>3. toCli' = Tail(toCli) /\ res' = Decoded(h)
  BY <1>2 DEF ReadHeader
<1>4. IF res'.type \in {"atc_planes", "atc_airports"} /\ res'.len > 0
        THEN cpc' = "records" /\ answer' = answer
        ELSE /\ cpc' = IF leaving THEN "left" ELSE "idle"
             /\ answer' = IF leaving THEN answer ELSE Answer(proxy, res')
  BY DEF ReadHeader, Finish
<1>5. h.kind = "header" =>
        Records(h.of) = IF h.type = "atc_ack" THEN 0 ELSE h.payload
  BY <1>1, Sorts DEF PInv, Counted
<1> HIDE DEF h
<1>6. /\ h.kind \in {"header", "record"}
      /\ h.kind = "header" => h \in HeaderSet /\ Pos(h) = <<h.of, 0>> /\ h.of \in Nat
      /\ h.kind = "record" => Pos(h) = h.rec /\ h.rec[2] \in 1..MaxList
  BY <1>2, PosFacts
<1>7. res \in [type : AnswerType \cup {"other"}, code : Number \cup {Scrap},
              len : 0..MaxList, list : Seq(RecordId), of : Nat]
  BY DEF PInv, Types
<1>8. h.kind = "record" => leaving /\ res'.type = "other" /\ res'.len = res.len
  <2>1. ASSUME h.kind = "record", ~leaving PROVE FALSE
    <3>1. Len(res.list) = Records(res.of)
      BY <1>1, <2>1 DEF PInv, Reading
    <3>2. Pos(h)[2] = 0
      BY <1>2, <3>1, Sorts
    <3>3. QED
      BY <1>6, <2>1, <3>2
  <2>2. h.kind = "record" => res' = [res EXCEPT !.type = "other"]
    BY <1>3 DEF Decoded
  <2>3. QED
    BY <1>7, <2>1, <2>2
<1>9. h.kind = "header" =>
        /\ res'.list = << >> /\ res'.of = h.of /\ res'.type = h.type
        /\ h.type = "atc_ack" => res'.len = 0
        /\ h.type # "atc_ack" => res'.len = Records(h.of)
        /\ Records(h.of) \in 0..MaxList /\ (h.type = "atc_ack" => Records(h.of) = 0)
  <2>1. SUFFICES ASSUME h.kind = "header"
                 PROVE  /\ res'.list = << >> /\ res'.of = h.of /\ res'.type = h.type
                        /\ h.type = "atc_ack" => res'.len = 0
                        /\ h.type # "atc_ack" => res'.len = Records(h.of)
                        /\ Records(h.of) \in 0..MaxList
                        /\ h.type = "atc_ack" => Records(h.of) = 0
    OBVIOUS
  <2>2. h.type \in AnswerType /\ h.payload \in Number /\ h.of \in Nat
    BY <1>6, <2>1 DEF HeaderSet
  <2>3. Records(h.of) \in Nat
    BY <2>2, RecordsSort
  <2>4. CASE h.type = "atc_ack"
    <3>1. res' = [type |-> h.type, code |-> h.payload, len |-> 0, list |-> << >>, of |-> h.of]
      BY <1>3, <2>1, <2>4 DEF Decoded
    <3>2. QED
      BY <1>5, <2>1, <2>4, <3>1, RequestAssumption
  <2>5. CASE h.type # "atc_ack"
    <3>1. res' = [res EXCEPT !.type = h.type, !.len = h.payload, !.list = << >>, !.of = h.of]
      BY <1>3, <2>1, <2>5 DEF Decoded
    <3>2. h.payload = Records(h.of)
      BY <1>5, <2>1, <2>5
    <3>3. QED
      BY <1>7, <2>2, <2>3, <2>5, <3>1, <3>2 DEF Number
  <2>6. QED
    BY <2>4, <2>5
<1>10. res' \in [type : AnswerType \cup {"other"}, code : Number \cup {Scrap},
                 len : 0..MaxList, list : Seq(RecordId), of : Nat]
  <2>1. CASE h.kind = "record"
    <3>1. res' = [res EXCEPT !.type = "other"]
      BY <1>3, <2>1 DEF Decoded
    <3>2. QED
      BY <1>7, <3>1
  <2>2. CASE h.kind = "header" /\ h.type = "atc_ack"
    <3>1. res' = [type |-> h.type, code |-> h.payload, len |-> 0, list |-> << >>, of |-> h.of]
      BY <1>3, <2>2 DEF Decoded
    <3>2. h.type \in AnswerType /\ h.payload \in Number /\ h.of \in Nat
      BY <1>6, <2>2 DEF HeaderSet
    <3>3. QED
      BY <3>1, <3>2, RequestAssumption
  <2>3. CASE h.kind = "header" /\ h.type # "atc_ack"
    <3>1. res' = [res EXCEPT !.type = h.type, !.len = h.payload, !.list = << >>, !.of = h.of]
      BY <1>3, <2>3 DEF Decoded
    <3>2. h.type \in AnswerType /\ h.of \in Nat
      BY <1>6, <2>3 DEF HeaderSet
    <3>3. h.payload \in 0..MaxList
      BY <1>5, <1>9, <2>3
    <3>4. << >> \in Seq(RecordId)
      OBVIOUS
    <3>5. h.type \in AnswerType \cup {"other"}
      BY <3>2
    <3>6. QED
      BY <1>7, <3>1, <3>2, <3>3, <3>4, <3>5
  <2>4. QED
    BY <1>6, <2>1, <2>2, <2>3
<1>11. Types'
  <2>1. Answer(proxy, res') \in [of : Nat, code : Number \cup {Scrap}, list : Seq(RecordId)]
    BY <1>10, AnswerSort
  <2>2. answer' \in [of : Nat, code : Number \cup {Scrap}, list : Seq(RecordId)]
    BY <1>4, <2>1 DEF PInv, Types
  <2>3. cpc' \in {"idle", "header", "records", "left", "killed"}
    BY <1>4
  <2>4. toCli' \in Seq(MessageSet)
    BY <1>2, <1>3
  <2>5. QED
    BY <1>1, <1>10, <2>2, <2>3, <2>4 DEF PInv, Types, server
<1>12. Served' = Served /\ Asked'
  BY <1>1, AskedStays
<1>13. /\ Handled' /\ Latest' /\ OnlyTheLastIsRepeated' /\ Logged' /\ Answering'
       /\ NextWritten' = NextWritten /\ Written' = Written /\ LeaveHandled' = LeaveHandled
  BY <1>1, <1>12, ServerStays
<1>14. Goodbye'
  BY <1>1, <1>4, <1>13 DEF PInv, Goodbye, server
<1>15. CASE h.kind = "record"
  <2>1. cpc' = "left"
    BY <1>4, <1>8, <1>15
  <2>2. Stream' /\ Reading'
    BY <2>1 DEF Stream, Chain, Bounded, Counted, Connected, Reading
  <2>3. QED
    BY <1>11, <1>12, <1>13, <1>14, <2>2 DEF PInv, Stream
<1>16. CASE h.kind = "header"
  <2>1. LastRead' = Pos(h)
    BY <1>6, <1>9, <1>16 DEF LastRead
  <2>2. Stream'
    BY <1>1, <1>2, <1>3, <1>13, <2>1, StreamIsRead DEF h, server
  <2>3. h.of = res.of + 1 \/ leaving
    <3>1. ~leaving => Len(res.list) = Records(res.of)
      BY <1>1 DEF PInv, Reading
    <3>2. ~leaving => Pos(h) = <<res.of + 1, 0>>
      BY <1>2, <3>1, Sorts
    <3>3. QED
      BY <1>6, <1>16, <3>2
  <2>4. ~leaving => res.of = calls - 1 - resizes
    BY <1>1 DEF PInv, Reading
  <2>5. Reading'
    <3>1. Records(res'.of) = RecordsIn(log, h.of) /\ log' = log
      BY <1>1, <1>9, <1>16 DEF Records, server
    <3>2. \/ cpc' = "records" /\ res'.len > 0 /\ h.type # "atc_ack"
          \/ cpc' = "left" /\ leaving
          \/ cpc' = "idle" /\ ~leaving /\ Records(h.of) = 0
      <4>1. h.type \in AnswerType
        BY <1>6, <1>16 DEF HeaderSet
      <4>2. res'.len \in Nat
        BY <1>9, <1>16, <4>1
      <4>3. QED
        BY <1>4, <1>9, <1>16, <4>1, <4>2 DEF AnswerType
    <3>3. Len(res'.list) = 0
      BY <1>9, <1>16
    <3>4. ~leaving => res'.of = calls - resizes
      BY <1>9, <1>16, <2>3, <2>4, Sorts
    <3>5. res'.of = h.of
      BY <1>9, <1>16
    <3>6. QED
      BY <1>1, <1>9, <1>16, <3>1, <3>2, <3>3, <3>4, <3>5 DEF Reading, Records
  <2>6. QED
    BY <1>11, <1>12, <1>13, <1>14, <2>2, <2>5 DEF PInv, Stream
<1>17. QED
  BY <1>6, <1>15, <1>16

LEMMA ReadRecordInv == ASSUME PInv, ReadRecord PROVE PInv'
<1> DEFINE h == toCli[1]
           k == Len(res.list) + 1
<1>1. /\ cpc = "records" /\ toCli # << >> /\ Connected /\ cpc # "killed"
      /\ UNCHANGED <<leaving, calls, proxy, resizes, toSrv, server>>
  BY DEF ReadRecord, Connected
<1>2. /\ res.len = Records(res.of) /\ Len(res.list) < res.len
      /\ ~leaving => res.of = calls - resizes
  BY <1>1 DEF PInv, Reading
<1>3. /\ h \in MessageSet /\ Head(toCli) = h /\ Tail(toCli) \in Seq(MessageSet)
      /\ Pos(h) = <<res.of, k>>
  BY <1>1, <1>2, HeadFacts
<1>4. k \in Nat /\ k > 0
  BY Sorts
<1>5. /\ toCli' = Tail(toCli)
      /\ res' = [res EXCEPT !.code = Scrap, !.list = Append(res.list, h.rec)]
      /\ IF Len(res'.list) = res.len
           THEN /\ cpc' = IF leaving THEN "left" ELSE "idle"
                /\ answer' = IF leaving THEN answer ELSE Answer(proxy, res')
           ELSE cpc' = cpc /\ answer' = answer
  BY <1>3 DEF ReadRecord, Finish
<1> HIDE DEF h, k
<1>6. h.rec = <<res.of, k>> /\ h.rec \in RecordId
  BY <1>3, <1>4, PosFacts
<1>7. res \in [type : AnswerType \cup {"other"}, code : Number \cup {Scrap},
              len : 0..MaxList, list : Seq(RecordId), of : Nat]
  BY DEF PInv, Types
<1>8. /\ Append(res.list, h.rec) \in Seq(RecordId) /\ Len(Append(res.list, h.rec)) = k
  BY <1>6, Sorts DEF k
<1>9. /\ res' \in [type : AnswerType \cup {"other"}, code : Number \cup {Scrap},
                  len : 0..MaxList, list : Seq(RecordId), of : Nat]
      /\ Len(res'.list) = k /\ res'.len = res.len /\ res'.of = res.of
  <2> DEFINE l == Append(res.list, h.rec)
  <2>1. l \in Seq(RecordId) /\ Len(l) = k /\ res' = [res EXCEPT !.code = Scrap, !.list = l]
    BY <1>5, <1>8
  <2> HIDE DEF l
  <2>2. QED
    BY <1>7, <2>1
<1>10. Types'
  <2>1. Answer(proxy, res') \in [of : Nat, code : Number \cup {Scrap}, list : Seq(RecordId)]
    BY <1>9, AnswerSort
  <2>2. answer' \in [of : Nat, code : Number \cup {Scrap}, list : Seq(RecordId)]
    BY <1>5, <2>1 DEF PInv, Types
  <2>3. cpc' \in {"idle", "header", "records", "left", "killed"}
    BY <1>1, <1>5
  <2>4. toCli' \in Seq(MessageSet)
    BY <1>3, <1>5
  <2>5. QED
    BY <1>1, <1>9, <2>2, <2>3, <2>4 DEF PInv, Types, server
<1>11. Served' = Served /\ Asked'
  BY <1>1, AskedStays
<1>12. /\ Handled' /\ Latest' /\ OnlyTheLastIsRepeated' /\ Logged' /\ Answering'
       /\ NextWritten' = NextWritten /\ Written' = Written /\ LeaveHandled' = LeaveHandled
  BY <1>1, <1>11, ServerStays
<1>13. Goodbye'
  BY <1>1, <1>5, <1>12 DEF PInv, Goodbye, server
<1>14. Stream'
  <2>1. LastRead' = Pos(h)
    BY <1>3, <1>9 DEF LastRead
  <2>2. QED
    BY <1>1, <1>3, <1>5, <1>12, <2>1, StreamIsRead DEF h, server
<1>15. Reading'
  <2>1. Records(res.of) = RecordsIn(log, res.of) /\ log' = log
    BY <1>1 DEF Records, server
  <2>2. \/ cpc' = "records" /\ k # res.len
        \/ cpc' = "left" /\ leaving
        \/ cpc' = "idle" /\ ~leaving /\ k = res.len
    BY <1>1, <1>5, <1>9
  <2>3. k <= res.len
    BY <1>2, Sorts DEF k
  <2>4. k < res.len \/ k = res.len
    BY <1>4, <2>3, Sorts
  <2>5. QED
    BY <1>1, <1>2, <1>9, <2>1, <2>2, <2>4 DEF Reading, Records
<1>16. QED
  BY <1>10, <1>11, <1>12, <1>13, <1>14, <1>15 DEF PInv, Stream

-----------------------------------------------------------------------------
(* The steps of the server *)

(* What only the client changes. *)
LEMMA ClientStays ==
  ASSUME PInv, UNCHANGED <<client, log>>
  PROVE  Reading' /\ Connected' = Connected
BY DEF PInv, Reading, Records, client, Connected

LEMMA RecvRequestInv == ASSUME PInv, RecvRequest PROVE PInv'
<1> DEFINE h == toSrv[1]
<1>1. /\ spc = "recv" /\ toSrv # << >> /\ spc' = "handle" /\ received' = "bytes"
      /\ toSrv' = Tail(toSrv)
      /\ UNCHANGED <<client, toCli, sres, sent, log>>
  BY DEF RecvRequest
<1>2. /\ toSrv \in Seq(Request) /\ Len(toSrv) \in Nat /\ calls \in Nat /\ Served \in Nat
      /\ log \in Seq(Value) /\ Len(log) \in Nat
  BY Sorts
<1>3. /\ toSrv' \in Seq(Request) /\ Len(toSrv') = Len(toSrv) - 1 /\ Len(toSrv) >= 1
      /\ \A i \in 1..Len(toSrv') : toSrv'[i] = toSrv[i + 1]
      /\ h \in Request /\ buf' = h
  BY <1>1, <1>2 DEF RecvRequest
<1>4. calls' = calls /\ Served' = Served + 1
  BY <1>1, <1>2, <1>3 DEF Served, client
<1>5. h.id = Served'
  BY <1>2, <1>3, <1>4 DEF PInv, Asked
<1> HIDE DEF h
<1>6. buf' # None /\ ~LeaveHandled
  BY <1>1, <1>3, NoneAssumption DEF PInv, Goodbye
<1>7. Types'
  BY <1>1, <1>3 DEF PInv, Types, client
<1>8. Asked'
  <2>1. \A i \in 1..Len(toSrv) : toSrv[i].id = Served + i
    BY DEF PInv, Asked
  <2>2. \A i \in 1..Len(toSrv') : i + 1 \in 1..Len(toSrv) /\ Served + (i + 1) = Served' + i
    BY <1>2, <1>3, <1>4
  <2>3. \A i \in 1..Len(toSrv') : toSrv'[i].id = Served' + i
    BY <1>3, <2>1, <2>2
  <2>4. Len(toSrv') <= calls'
    BY <1>2, <1>3, <1>4 DEF PInv, Asked
  <2>5. QED
    BY <2>3, <2>4 DEF Asked
<1>9. Handled'
  BY <1>3, <1>5, <1>6 DEF Handled
<1>10. Goodbye'
  <2>1. leaving => IF toSrv' = << >> THEN LeaveHandled' ELSE toSrv'[Len(toSrv')].op = "leave"
    <3> SUFFICES ASSUME leaving
                 PROVE  IF toSrv' = << >> THEN LeaveHandled' ELSE toSrv'[Len(toSrv')].op = "leave"
      OBVIOUS
    <3>1. toSrv[Len(toSrv)].op = "leave"
      BY <1>1 DEF PInv, Goodbye
    <3>2. CASE toSrv' = << >>
      <4>1. Len(toSrv) = 1
        BY <1>2, <1>3, <3>2
      <4>2. h.op = "leave"
        BY <3>1, <4>1 DEF h
      <4>3. QED
        BY <1>3, <1>6, <3>2, <4>2 DEF LeaveHandled
    <3>3. CASE toSrv' # << >>
      <4>1. Len(toSrv') \in 1..Len(toSrv')
        BY <1>3, <3>3
      <4>2. toSrv'[Len(toSrv')] = toSrv[Len(toSrv') + 1] /\ Len(toSrv') + 1 = Len(toSrv)
        BY <1>2, <1>3, <4>1
      <4>3. QED
        BY <3>1, <3>3, <4>2
    <3>4. QED
      BY <3>2, <3>3
  <2>2. QED
    BY <1>1, <2>1 DEF PInv, Goodbye, client
<1>11. Latest'
  <2>1. log # << >> => log[Len(log)].of = Served
    BY <1>6 , <1>1 DEF PInv, Latest
  <2>2. log # << >> => log'[Len(log')].of = Served' - 1
    BY <1>1, <1>2, <1>4, <2>1
  <2>3. QED
    BY <1>1, <2>2 DEF Latest
<1>12. OnlyTheLastIsRepeated'
  BY <1>1 DEF PInv, OnlyTheLastIsRepeated, client
<1>13. Connected' = Connected /\ Reading'
  BY <1>1, ClientStays
<1>14. Logged'
  <2>1. Connected => (\A j \in 1..Len(log) : log[j].of = j) /\ Len(log) = Served
    BY <1>1, <1>6 DEF PInv, Logged
  <2>2. Connected => Len(log') = Served' - 1
    BY <1>1, <1>2, <1>4, <2>1
  <2>3. QED
    BY <1>1, <1>13, <2>1, <2>2 DEF Logged
<1>15. Answering'
  BY <1>1 DEF PInv, Answering
<1>16. NextWritten' = NextWritten /\ Written' = Written
  BY <1>1, <1>2, <1>4 DEF NextWritten, Written
<1>17. Stream'
  BY <1>1, <1>13, <1>16, StreamStays DEF client
<1>18. QED
  BY <1>7, <1>8, <1>9, <1>10, <1>11, <1>12, <1>13, <1>14, <1>15, <1>17 DEF PInv, Stream

LEMMA RecvNothingInv == ASSUME PInv, RecvNothing PROVE PInv'
<1>1. /\ spc = "recv" /\ toSrv = << >> /\ ~Connected /\ spc' = "handle"
      /\ received' \in {"eof", "error"}
      /\ UNCHANGED <<client, toSrv, toCli, sres, sent, log>>
      /\ buf = None => buf' \in [op : Op \cup {"leave"}, id : {0}]
      /\ buf # None => buf' = buf
  BY DEF RecvNothing
<1>2. calls' = calls /\ cpc' = cpc /\ leaving' = leaving
  BY <1>1 DEF client
<1>3. ~LeaveHandled /\ ~leaving /\ cpc = "killed"
  BY <1>1 DEF PInv, Goodbye, Connected
<1>4. buf' \in Request
  BY <1>1 DEF PInv, Types, Request
<1>5. buf' # None
  BY <1>4, NoneAssumption
<1>6. Types'
  BY <1>1, <1>4 DEF PInv, Types, client
<1>7. Served' = Served /\ Asked'
  BY <1>1, <1>2, AskedStays
<1>8. Handled'
  <2>1. buf'.id = Served
    BY <1>1 DEF PInv, Handled
  <2>2. QED
    BY <1>5, <1>7, <2>1 DEF Handled
<1>9. Goodbye'
  BY <1>1, <1>2, <1>3 DEF PInv, Goodbye
<1>10. Latest'
  <2>1. log # << >> => log[Len(log)].of = Served
    BY <1>1, <1>3 DEF PInv, Latest
  <2>2. QED
    BY <1>1, <1>2, <1>3, <1>7, <2>1 DEF Latest
<1>11. OnlyTheLastIsRepeated'
  BY <1>1, <1>2 DEF PInv, OnlyTheLastIsRepeated
<1>12. ~Connected' /\ Reading'
  BY <1>1, ClientStays
<1>13. Logged' /\ Stream'
  BY <1>12 DEF Logged, Stream, Chain, Bounded, Counted
<1>14. Answering'
  BY <1>1, <1>12 DEF PInv, Answering
<1>15. QED
  BY <1>6, <1>7, <1>8, <1>9, <1>10, <1>11, <1>12, <1>13, <1>14 DEF PInv, Stream

(* What the functions of ATCD return is the answer to this very call. *)
LEMMA OutcomeFacts ==
  ASSUME NEW r \in Request, NEW v \in Outcome(r)
  PROVE  /\ v \in Value /\ v.of = r.id /\ Len(v.list) \in 0..MaxList
         /\ \A k \in 1..Len(v.list) : v.list[k] = <<v.of, k>>
         /\ r.op \notin ListOp => v.list = << >>
<1>1. r.id \in Nat /\ MaxList \in Nat \ {0}
  BY RequestAssumption DEF Request
<1>2. ASSUME NEW n \in 0..MaxList
      PROVE  LET w == Listed(r.id, n) IN
               /\ w \in Value /\ w.of = r.id /\ Len(w.list) = n
               /\ \A k \in 1..Len(w.list) : w.list[k] = <<w.of, k>>
  <2> DEFINE l == [i \in 1..n |-> <<r.id, i>>]
  <2>1. l \in Seq(RecordId) /\ Len(l) = n /\ \A k \in 1..n : l[k] = <<r.id, k>>
    <3>1. \A i \in 1..n : <<r.id, i>> \in RecordId
      BY <1>1 DEF RecordId
    <3>2. QED
      BY <1>1, <3>1
  <2> HIDE DEF l
  <2>2. Listed(r.id, n) = [of |-> r.id, code |-> n, list |-> l]
    BY DEF Listed, l
  <2>3. n \in Number
    BY <1>1 DEF Number
  <2>4. QED
    BY <1>1, <2>1, <2>2, <2>3 DEF Value
<1>3. ASSUME NEW n \in Number
      PROVE  LET w == Code(r.id, n) IN w \in Value /\ w.of = r.id /\ w.list = << >>
  BY <1>1 DEF Code, Value
<1>4. CASE r.op \in ListOp /\ \E n \in 0..MaxList : v = Listed(r.id, n)
  BY <1>2, <1>4
<1>5. CASE \E n \in Number : v = Code(r.id, n)
  <2>1. v \in Value /\ v.of = r.id /\ v.list = << >>
    BY <1>3, <1>5
  <2>2. Len(v.list) = 0 /\ 0 \in 0..MaxList
    BY <1>1, <2>1
  <2>3. QED
    BY <2>1, <2>2
<1>6. \/ r.op \in ListOp /\ \E n \in 0..MaxList : v = Listed(r.id, n)
      \/ \E n \in Number : v = Code(r.id, n)
  <2>1. MaxList \in 0..MaxList /\ -1 \in Number /\ 0 \in Number /\ 1 \in Number
    BY <1>1 DEF Number
  <2>2. CASE r.op = "get_airplanes"
    BY <2>1, <2>2 DEF Outcome, ListOp
  <2>3. CASE r.op = "get_airports"
    BY <2>1, <2>3 DEF Outcome, ListOp
  <2>4. CASE r.op = "set"
    BY <2>1, <2>4 DEF Outcome
  <2>5. CASE r.op = "get_count"
    <3>1. PICK n \in (IF ScanFails THEN -1 ELSE 0)..1 : v = Code(r.id, n)
      BY <2>5 DEF Outcome
    <3>2. n \in Number
      BY <1>1, RequestAssumption DEF Number
    <3>3. QED
      BY <3>1, <3>2
  <2>6. CASE r.op \notin {"get_airplanes", "get_airports", "set", "get_count"}
    BY <2>1, <2>6 DEF Outcome
  <2>7. QED
    BY <2>2, <2>3, <2>4, <2>5, <2>6
<1>7. QED
  BY <1>4, <1>5, <1>6

(* Whose answers the messages are in. *)
LEMMA LinkSort ==
  ASSUME PInv, NEW i \in 0..Len(toCli)
  PROVE  Link(i)[1] \in Nat
<1>1. CASE i = 0
  BY <1>1, Sorts DEF Link, LastRead
<1>2. CASE i # 0
  <2>1. toCli[i] \in MessageSet /\ i <= Len(toCli)
    BY <1>2, Sorts
  <2>2. Pos(toCli[i])[1] \in Nat
    BY <2>1, PosFacts
  <2>3. QED
    BY <1>2, <2>1, <2>2 DEF Link
<1>3. QED
  BY <1>1, <1>2

LEMMA HandleInv == ASSUME PInv, Handle PROVE PInv'
<1>1. /\ spc = "handle" /\ buf.op # "leave" /\ spc' = "header" /\ sent' = 0
      /\ UNCHANGED <<client, toSrv, toCli, buf, received>>
  BY DEF Handle
<1>2. buf # None /\ buf \in Request /\ buf.id = Served
  BY <1>1 DEF PInv, Handled, Types
<1>3. PICK v \in Outcome(buf) :
        log' = Append(log, v) /\ sres' = Typed(TypeOf(buf.op), v)
  BY DEF Handle
<1>4. /\ v \in Value /\ v.of = Served /\ Len(v.list) \in 0..MaxList
      /\ \A k \in 1..Len(v.list) : v.list[k] = <<v.of, k>>
      /\ buf.op \notin ListOp => v.list = << >>
  BY <1>2, OutcomeFacts
<1>5. /\ log \in Seq(Value) /\ Len(log) \in Nat /\ Served \in Nat
      /\ toCli \in Seq(MessageSet) /\ Len(toCli) \in Nat
  BY Sorts
<1>6. /\ log' \in Seq(Value) /\ Len(log') = Len(log) + 1 /\ log'[Len(log) + 1] = v
      /\ log' # << >> /\ \A j \in 1..Len(log) : log'[j] = log[j]
  BY <1>3, <1>4, <1>5
<1>7. /\ sres' \in [type : AnswerType, code : Number, list : Seq(RecordId), of : Nat]
      /\ sres'.list = v.list /\ sres'.of = Served
      /\ sres'.type = "atc_ack" => v.list = << >>
  <2>1. sres' = [type |-> TypeOf(buf.op), code |-> v.code, list |-> v.list, of |-> v.of]
    BY <1>3 DEF Typed
  <2>2. v.code \in Number /\ v.list \in Seq(RecordId) /\ v.of \in Nat
    BY <1>4 DEF Value
  <2>3. /\ TypeOf(buf.op) \in AnswerType
        /\ TypeOf(buf.op) = "atc_ack" => buf.op \notin ListOp
    BY DEF TypeOf, AnswerType, ListOp
  <2>4. QED
    BY <1>4, <2>1, <2>2, <2>3
<1>8. calls' = calls /\ cpc' = cpc /\ leaving' = leaving
  BY <1>1 DEF client
<1>9. Types'
  <2>1. sent' \in 0..MaxList
    BY <1>1, RequestAssumption
  <2>2. QED
    BY <1>1, <1>6, <1>7, <2>1 DEF PInv, Types, client
<1>10. Served' = Served /\ Asked'
  BY <1>1, <1>8, AskedStays
<1>11. ~LeaveHandled' /\ ~LeaveHandled /\ Handled'
  BY <1>1, <1>2, <1>10 DEF LeaveHandled, Handled
<1>12. Goodbye'
  BY <1>1, <1>8, <1>11 DEF PInv, Goodbye
<1>13. Latest'
  BY <1>1, <1>4, <1>6, <1>10 DEF Latest
<1>14. OnlyTheLastIsRepeated'
  <2> SUFFICES ASSUME NEW j \in 2..Len(log')
               PROVE  \/ log'[j].of = log'[j - 1].of + 1
                      \/ log'[j].of = log'[j - 1].of /\ cpc' = "killed"
    BY DEF OnlyTheLastIsRepeated
  <2>1. CASE j \in 2..Len(log)
    <3>1. j \in 1..Len(log) /\ j - 1 \in 1..Len(log)
      BY <1>5, <2>1
    <3>2. log'[j] = log[j] /\ log'[j - 1] = log[j - 1]
      BY <1>6, <3>1
    <3>3. QED
      BY <1>8, <2>1, <3>2 DEF PInv, OnlyTheLastIsRepeated
  <2>2. CASE j = Len(log) + 1
    <3>1. Len(log) \in 1..Len(log) /\ log # << >> /\ j - 1 = Len(log)
      BY <1>5, <2>2
    <3>2. log'[j].of = Served /\ log'[j - 1] = log[Len(log)]
      BY <1>4, <1>6, <2>2, <3>1
    <3>3. (log[Len(log)].of = Served /\ cpc = "killed") \/ log[Len(log)].of = Served - 1
      BY <1>1, <3>1 DEF PInv, Latest
    <3>4. QED
      BY <1>5, <1>8, <3>2, <3>3
  <2>3. QED
    BY <1>5, <1>6, <2>1, <2>2
<1>15. Connected' = Connected
  BY <1>8 DEF Connected
<1>16. Connected => Len(log) = Served - 1 /\ Len(log') = Served
  BY <1>1, <1>5, <1>6 DEF PInv, Logged
<1>17. Logged'
  <2> SUFFICES ASSUME Connected PROVE Logged'
    BY <1>15 DEF Logged
  <2>1. \A j \in 1..Len(log) : log[j].of = j
    BY DEF PInv, Logged
  <2>2. \A j \in 1..Len(log') : j \in 1..Len(log) \/ j = Len(log) + 1
    BY <1>5, <1>6
  <2>3. \A j \in 1..Len(log') : log'[j].of = j
    BY <1>4, <1>5, <1>6, <1>16, <2>1, <2>2
  <2>4. QED
    BY <1>1, <1>10, <1>11, <1>16, <2>3 DEF Logged
<1>18. Answering'
  <2>1. Connected => Len(v.list) = RecordsIn(log', Served)
    <3>1. Connected => Served \in 1..Len(log') /\ log'[Served] = v
      BY <1>5, <1>6, <1>16
    <3>2. QED
      BY <3>1 DEF RecordsIn
  <2>2. QED
    BY <1>1, <1>4, <1>7, <1>10, <1>15, <2>1 DEF Answering, Records
<1>19. ASSUME Connected, NEW x \in Int, x <= Written
       PROVE  RecordsIn(log', x) = RecordsIn(log, x)
  <2>1. x <= Len(log)
    BY <1>1, <1>16, <1>19 DEF Written
  <2>2. x \in 1..Len(log') <=> x \in 1..Len(log)
    BY <1>5, <1>6, <2>1
  <2>3. x \in 1..Len(log) => log'[x] = log[x]
    BY <1>6
  <2>4. QED
    BY <2>2, <2>3 DEF RecordsIn
<1>20. ASSUME Connected, NEW i \in 0..Len(toCli)
       PROVE  Link(i)[1] \in Nat /\ Link(i)[1] <= Written
  BY <1>20, LinkSort DEF PInv, Bounded
<1>21. Stream'
  <2> SUFFICES ASSUME Connected PROVE Stream'
    BY <1>15 DEF Stream, Chain, Bounded, Counted
  <2>1. NextWritten' = NextWritten /\ Written' = Written
    BY <1>1, <1>10 DEF NextWritten, Written
  <2>2. res' = res /\ toCli' = toCli
    BY <1>1 DEF client
  <2>3. \A i : Link(i)' = Link(i)
    BY <2>1, <2>2 DEF Link, LastRead, Pos
  <2>4. Chain'
    <3>1. \A i \in 0..Len(toCli) : Follows(log, Link(i), Link(i + 1))
      BY DEF PInv, Chain
    <3>2. \A i \in 0..Len(toCli) : RecordsIn(log', Link(i)[1]) = RecordsIn(log, Link(i)[1])
      BY <1>19, <1>20
    <3>3. \A i \in 0..Len(toCli) : Follows(log', Link(i), Link(i + 1))
      BY <3>1, <3>2 DEF Follows
    <3>4. QED
      BY <2>2, <2>3, <3>3 DEF Chain
  <2>5. Bounded'
    BY <2>1, <2>2, <2>3 DEF PInv, Bounded
  <2>6. Counted'
    <3> SUFFICES ASSUME NEW i \in 1..Len(toCli), toCli[i].kind = "header"
                 PROVE  RecordsIn(log', toCli[i].of)
                          = IF toCli[i].type = "atc_ack" THEN 0 ELSE toCli[i].payload
      BY <2>2 DEF Counted, Records
    <3>1. toCli[i] \in MessageSet /\ i \in 0..Len(toCli) /\ i # 0 /\ i <= Len(toCli)
      BY <1>5
    <3>2. Link(i)[1] = toCli[i].of
      BY <3>1, PosFacts DEF Link
    <3>3. RecordsIn(log', toCli[i].of) = RecordsIn(log, toCli[i].of)
      BY <1>19, <1>20, <3>1, <3>2
    <3>4. QED
      BY <3>3 DEF PInv, Counted, Records
  <2>7. QED
    BY <2>4, <2>5, <2>6 DEF Stream
<1>22. Reading'
  <2>1. Connected => RecordsIn(log', res.of) = RecordsIn(log, res.of)
    <3>1. 0 \in 0..Len(toCli) /\ Link(0)[1] = res.of
      BY <1>5 DEF Link, LastRead
    <3>2. QED
      BY <1>19, <1>20, <3>1
  <2>2. cpc \in {"idle", "header", "records"} => Connected
    BY DEF Connected
  <2>3. QED
    BY <1>1, <2>1, <2>2 DEF PInv, Reading, Records, client
<1>23. QED
  BY <1>9, <1>10, <1>11, <1>12, <1>13, <1>14, <1>17, <1>18, <1>21, <1>22 DEF PInv, Stream

LEMMA HandleLeaveInv == ASSUME PInv, HandleLeave PROVE PInv'
<1>1. /\ spc = "handle" /\ buf.op = "leave" /\ spc' = "header" /\ sent' = 0
      /\ sres' = Typed("atc_ack", Code(buf.id, -1))
      /\ UNCHANGED <<client, toSrv, toCli, buf, received, log>>
  BY DEF HandleLeave
<1>2. buf # None /\ buf.id = Served /\ LeaveHandled
  BY <1>1 DEF PInv, Handled, LeaveHandled
<1>3. Served \in Nat /\ log \in Seq(Value) /\ Len(log) \in Nat
  BY Sorts
<1>4. sres' = [type |-> "atc_ack", code |-> -1, list |-> << >>, of |-> Served]
  BY <1>1, <1>2 DEF Typed, Code
<1>5. sres' \in [type : AnswerType, code : Number, list : Seq(RecordId), of : Nat]
  <2>1. "atc_ack" \in AnswerType /\ -1 \in Number /\ << >> \in Seq(RecordId)
    BY RequestAssumption DEF AnswerType, Number
  <2>2. QED
    BY <1>3, <1>4, <2>1
<1>6. Types'
  <2>1. sent' \in 0..MaxList
    BY <1>1, RequestAssumption
  <2>2. QED
    BY <1>1, <1>5, <2>1 DEF PInv, Types, client
<1>7. Served' = Served /\ Asked'
  BY <1>1, AskedStays DEF client
<1>8. LeaveHandled' /\ Handled'
  BY <1>1, <1>2, <1>7 DEF LeaveHandled, Handled
<1>9. Reading' /\ Connected' = Connected
  BY <1>1, ClientStays
<1>10. Goodbye'
  BY <1>1, <1>2, <1>8 DEF PInv, Goodbye, client
<1>11. Latest'
  BY <1>1, <1>7, <1>8 DEF PInv, Latest
<1>12. OnlyTheLastIsRepeated'
  BY <1>1 DEF PInv, OnlyTheLastIsRepeated, client
<1>13. Logged'
  BY <1>1, <1>7, <1>8, <1>9 DEF PInv, Logged
<1>14. Answering'
  <2>1. Connected => RecordsIn(log, Served) = 0
    <3>1. Connected => Len(log) = Served - 1
      BY <1>1 DEF PInv, Logged
    <3>2. Connected => Served \notin 1..Len(log)
      BY <1>3, <3>1
    <3>3. QED
      BY <3>2 DEF RecordsIn
  <2>2. Len(sres'.list) = 0 /\ sres'.list = << >> /\ sres'.of = Served
    BY <1>4
  <2>3. MaxList \in Nat
    BY RequestAssumption
  <2>4. QED
    BY <1>1, <1>7, <1>9, <2>1, <2>2, <2>3 DEF Answering, Records
<1>15. NextWritten' = NextWritten /\ Written' = Written
  BY <1>1, <1>7 DEF NextWritten, Written
<1>16. Stream'
  BY <1>1, <1>9, <1>15, StreamStays DEF client
<1>17. QED
  BY <1>6, <1>7, <1>8, <1>9, <1>10, <1>11, <1>12, <1>13, <1>14, <1>16 DEF PInv, Stream

(* What writing an answer leaves as it is. *)
LEMMA WritingStays ==
  ASSUME PInv, spc \in {"header", "records"},
         spc' \in {AfterReply, "records", "killed"},
         UNCHANGED <<client, toSrv, buf, received, sres, log>>
  PROVE  /\ Served' = Served /\ Asked' /\ Handled' /\ Goodbye' /\ Latest'
         /\ OnlyTheLastIsRepeated' /\ Logged' /\ Reading' /\ Connected' = Connected
<1>1. Served' = Served /\ Asked'
  BY AskedStays DEF client
<1>2. buf # None /\ buf.id = Served
  BY DEF PInv, Handled
<1>3. LeaveHandled' = LeaveHandled /\ Handled'
  BY <1>1, <1>2 DEF LeaveHandled, Handled
<1>4. spc' # "handle" /\ spc' # "header" /\ (LeaveHandled => spc' # "recv")
  BY DEF AfterReply, LeaveHandled
<1>5. Reading' /\ Connected' = Connected
  BY ClientStays
<1>6. Goodbye'
  BY <1>3, <1>4 DEF PInv, Goodbye, client
<1>7. Latest'
  BY <1>1, <1>3, <1>4 DEF PInv, Latest
<1>8. OnlyTheLastIsRepeated'
  BY DEF PInv, OnlyTheLastIsRepeated, client
<1>9. Logged'
  BY <1>1, <1>3, <1>4, <1>5 DEF PInv, Logged
<1>10. QED
  BY <1>1, <1>3, <1>5, <1>6, <1>7, <1>8, <1>9

LEMMA WriteHeaderInv == ASSUME PInv, WriteHeader PROVE PInv'
<1> DEFINE n == IF sres.type = "atc_ack" THEN sres.code ELSE Len(sres.list)
           m == Header(sres.type, n, sres.of)
<1>1. /\ spc = "header" /\ toCli' = (IF Connected THEN Append(toCli, m) ELSE toCli)
      /\ spc' = IF sres.list = << >> THEN AfterReply ELSE "records"
      /\ UNCHANGED <<client, toSrv, buf, received, sres, sent, log>>
  BY DEF WriteHeader, Write
<1>2. /\ Served' = Served /\ Asked' /\ Handled' /\ Goodbye' /\ Latest'
      /\ OnlyTheLastIsRepeated' /\ Logged' /\ Reading' /\ Connected' = Connected
  BY <1>1, WritingStays
<1>3. /\ sres.list \in Seq(RecordId) /\ Len(sres.list) \in Nat /\ Served \in Nat
      /\ toCli \in Seq(MessageSet)
  BY Sorts
<1>4. /\ sent = 0 /\ sres.of = Served /\ Len(sres.list) <= MaxList
      /\ sres.type = "atc_ack" => sres.list = << >>
      /\ Connected => Len(sres.list) = Records(Served)
  BY <1>1 DEF PInv, Answering
<1>5. m \in MessageSet /\ m.kind = "header" /\ m.of = Served /\ m.type = sres.type
      /\ m.payload = n /\ Pos(m) = <<Served, 0>>
  <2>1. sres.type \in AnswerType /\ sres.code \in Number
    BY DEF PInv, Types
  <2>2. n \in Number
    BY <1>3, <1>4, <2>1, RequestAssumption DEF Number
  <2> HIDE DEF n
  <2>3. m = [kind |-> "header", type |-> sres.type, payload |-> n, of |-> Served]
    BY <1>4 DEF Header
  <2>4. QED
    BY <1>3, <2>1, <2>2, <2>3 DEF MessageSet, HeaderSet, Pos
<1>6. toCli' \in Seq(MessageSet)
  BY <1>1, <1>3, <1>5
<1>7. Types'
  BY <1>1, <1>6 DEF PInv, Types, AfterReply, client
<1>8. Answering'
  <2>1. spc' = "records" => 0 < Len(sres.list)
    BY <1>1, <1>3 DEF AfterReply
  <2>2. spc' # "header"
    BY <1>1 DEF AfterReply
  <2>3. QED
    BY <1>1, <1>2, <1>4, <2>1, <2>2 DEF PInv, Answering, Records
<1>9. NextWritten = <<Served, 0>> /\ Written = Served - 1 /\ Written' = Served
  BY <1>1, <1>2 DEF NextWritten, Written, AfterReply
<1>10. NextWritten' = IF sres.list = << >> THEN <<Served + 1, 0>> ELSE <<Served, 1>>
  BY <1>1, <1>2, <1>4 DEF NextWritten, AfterReply
<1>11. sres.list = << >> <=> Len(sres.list) = 0
  BY <1>3
<1>12. Connected => Follows(log, NextWritten, NextWritten')
  BY <1>3, <1>4, <1>9, <1>10, <1>11 DEF Follows, Records
<1>13. Connected => Records(m.of) = IF m.type = "atc_ack" THEN 0 ELSE m.payload
  BY <1>4, <1>5, <1>11
<1>14. UNCHANGED <<res, log>>
  BY <1>1 DEF client
<1>15. Stream'
  <2>1. Connected => toCli' = Append(toCli, m) /\ Pos(m) = NextWritten
    BY <1>1, <1>5, <1>9
  <2>2. Written <= Served /\ NextWritten[1] = Served
    BY <1>3, <1>9
  <2> HIDE DEF m
  <2>3. QED
    BY <1>2, <1>5, <1>9, <1>12, <1>13, <1>14, <2>1, <2>2, StreamIsWritten
<1>16. QED
  BY <1>2, <1>7, <1>8, <1>15 DEF PInv, Stream

LEMMA WriteRecordInv == ASSUME PInv, WriteRecord PROVE PInv'
<1> DEFINE m == Record(sres.list[sent + 1])
<1>1. /\ spc = "records" /\ toCli' = (IF Connected THEN Append(toCli, m) ELSE toCli)
      /\ sent' = sent + 1
      /\ spc' = IF sent + 1 = Len(sres.list) THEN AfterReply ELSE "records"
      /\ UNCHANGED <<client, toSrv, buf, received, sres, log>>
  BY DEF WriteRecord, Write
<1>2. /\ Served' = Served /\ Asked' /\ Handled' /\ Goodbye' /\ Latest'
      /\ OnlyTheLastIsRepeated' /\ Logged' /\ Reading' /\ Connected' = Connected
  BY <1>1, WritingStays
<1>3. /\ sres.list \in Seq(RecordId) /\ Len(sres.list) \in Nat /\ Served \in Nat
      /\ toCli \in Seq(MessageSet) /\ sent \in Nat /\ MaxList \in Nat
  BY Sorts, RequestAssumption
<1>4. /\ sent < Len(sres.list) /\ sres.of = Served /\ Len(sres.list) <= MaxList
      /\ Connected => Len(sres.list) = Records(Served)
      /\ \A k \in 1..Len(sres.list) : sres.list[k] = <<sres.of, k>>
  BY <1>1 DEF PInv, Answering
<1>5. sent + 1 \in 1..Len(sres.list) /\ sent + 1 \in 1..MaxList
  BY <1>3, <1>4
<1>6. /\ m \in MessageSet /\ m.kind = "record" /\ Pos(m) = <<Served, sent + 1>>
  <2>1. sres.list[sent + 1] = <<Served, sent + 1>>
    BY <1>4, <1>5
  <2>2. <<Served, sent + 1>> \in RecordId
    BY <1>3, <1>5 DEF RecordId
  <2>3. m = [kind |-> "record", rec |-> <<Served, sent + 1>>]
    BY <2>1 DEF Record
  <2>4. QED
    BY <2>2, <2>3 DEF MessageSet, RecordSet, Pos
<1> HIDE DEF m
<1>7. toCli' \in Seq(MessageSet)
  BY <1>1, <1>3, <1>6
<1>8. Types'
  <2>1. sent' \in 0..MaxList
    BY <1>1, <1>3, <1>5
  <2>2. QED
    BY <1>1, <1>7, <2>1 DEF PInv, Types, AfterReply, client
<1>9. Answering'
  <2>1. spc' = "records" => sent' < Len(sres.list)
    BY <1>1, <1>3, <1>4 DEF AfterReply
  <2>2. spc' # "header"
    BY <1>1 DEF AfterReply
  <2>3. QED
    BY <1>1, <1>2, <1>4, <2>1, <2>2 DEF PInv, Answering, Records
<1>10. NextWritten = <<Served, sent + 1>> /\ Written = Served /\ Written' = Served
  BY <1>1, <1>2 DEF NextWritten, Written, AfterReply
<1>11. NextWritten' = IF sent + 1 = Len(sres.list) THEN <<Served + 1, 0>>
                                                   ELSE <<Served, (sent + 1) + 1>>
  BY <1>1, <1>2 DEF NextWritten, AfterReply
<1>12. Connected => Follows(log, NextWritten, NextWritten')
  <2>1. sent + 1 = Len(sres.list) <=> ~(sent + 1 < Len(sres.list))
    BY <1>3, <1>4
  <2>2. Connected => RecordsIn(log, Served) = Len(sres.list)
    BY <1>4 DEF Records
  <2>3. QED
    BY <1>10, <1>11, <2>1, <2>2 DEF Follows
<1>13. UNCHANGED <<res, log>>
  BY <1>1 DEF client
<1>14. Stream'
  <2>1. Connected => toCli' = Append(toCli, m) /\ Pos(m) = NextWritten
    BY <1>1, <1>6, <1>10
  <2>2. Written <= Served /\ NextWritten[1] = Served
    BY <1>3, <1>10
  <2>3. QED
    BY <1>2, <1>6, <1>10, <1>12, <1>13, <2>1, <2>2, StreamIsWritten
<1>15. QED
  BY <1>2, <1>8, <1>9, <1>14 DEF PInv, Stream

LEMMA WriteFailsInv == ASSUME PInv, WriteFails PROVE PInv'
<1>1. /\ spc \in {"header", "records"} /\ ~Connected
      /\ spc' \in {AfterReply, "killed"}
      /\ UNCHANGED <<client, toSrv, toCli, buf, received, sres, sent, log>>
  BY DEF WriteFails
<1>2. /\ Served' = Served /\ Asked' /\ Handled' /\ Goodbye' /\ Latest'
      /\ OnlyTheLastIsRepeated' /\ Logged' /\ Reading' /\ Connected' = Connected
  BY <1>1, WritingStays
<1>3. Types'
  BY <1>1 DEF PInv, Types, AfterReply, client
<1>4. spc' \notin {"header", "records"}
  BY <1>1 DEF AfterReply
<1>5. Answering'
  BY <1>1, <1>2, <1>4 DEF PInv, Answering
<1>6. Stream'
  BY <1>1, <1>2 DEF Stream, Chain, Bounded, Counted
<1>7. QED
  BY <1>2, <1>3, <1>5, <1>6 DEF PInv, Stream

-----------------------------------------------------------------------------
(* The specification *)

LEMMA InitInv == Init => PInv
<1> SUFFICES ASSUME Init PROVE PInv
  OBVIOUS
<1>1. /\ cpc = "idle" /\ leaving = FALSE /\ calls = 0 /\ proxy = "create_plane"
      /\ res = [type |-> "other", code |-> 0, len |-> 0, list |-> << >>, of |-> 0]
      /\ answer = [of |-> 0, code |-> 0, list |-> << >>]
      /\ resizes = 0 /\ toSrv = << >> /\ toCli = << >>
      /\ spc = "recv" /\ buf = None /\ received = "bytes"
      /\ sres = [type |-> "atc_ack", code |-> 0, list |-> << >>, of |-> 0]
      /\ sent = 0 /\ log = << >>
  BY DEF Init, Code
<1>2. MaxCalls \in Nat /\ MaxResizes \in Nat /\ MaxList \in Nat \ {0}
  BY ProtocolBoundAssumption, RequestAssumption
<1>3. Len(toSrv) = 0 /\ Len(toCli) = 0 /\ Len(log) = 0 /\ Len(res.list) = 0
      /\ Len(sres.list) = 0
  BY <1>1
<1>4. Served = 0
  <2>1. calls = 0 /\ Len(toSrv) = 0
    BY <1>1, <1>3
  <2>2. QED
    BY <2>1 DEF Served
<1>5. Types
  <2>1. 0 \in Number /\ 0 \in 0..MaxList /\ 0 \in 0..MaxResizes /\ 0 \in 0..(MaxCalls + 1)
    BY <1>2 DEF Number
  <2>2. "create_plane" \in Op /\ "atc_ack" \in AnswerType
    BY DEF Op, AnswerType
  <2>3. /\ << >> \in Seq(RecordId) /\ << >> \in Seq(Request)
        /\ << >> \in Seq(MessageSet) /\ << >> \in Seq(Value)
    OBVIOUS
  <2>4. /\ res \in [type : AnswerType \cup {"other"}, code : Number \cup {Scrap},
                   len : 0..MaxList, list : Seq(RecordId), of : Nat]
        /\ answer \in [of : Nat, code : Number \cup {Scrap}, list : Seq(RecordId)]
        /\ sres \in [type : AnswerType, code : Number, list : Seq(RecordId), of : Nat]
    BY <1>1, <2>1, <2>2, <2>3
  <2>5. QED
    BY <1>1, <2>1, <2>2, <2>3, <2>4 DEF Types
<1>6. Asked /\ Handled /\ Latest
  BY <1>1, <1>3, <1>4 DEF Asked, Handled, Latest, LeaveHandled
<1>7. Goodbye
  BY <1>1, <1>2 DEF Goodbye, LeaveHandled
<1>8. OnlyTheLastIsRepeated /\ Logged
  BY <1>1, <1>3, <1>4 DEF OnlyTheLastIsRepeated, Logged, LeaveHandled
<1>9. Answering
  BY <1>1, <1>2, <1>3 DEF Answering
<1>10. RecordsIn(log, 0) = 0
  BY <1>3 DEF RecordsIn
<1>11. Link(0) = <<0, 0>> /\ Link(1) = <<1, 0>>
  BY <1>1, <1>3, <1>4 DEF Link, LastRead, NextWritten
<1>12. Chain
  <2>1. Follows(log, Link(0), Link(0 + 1))
    BY <1>10, <1>11 DEF Follows
  <2>2. QED
    BY <1>3, <2>1 DEF Chain
<1>13. Bounded
  BY <1>1, <1>3, <1>4, <1>11 DEF Bounded, Written
<1>14. Counted
  BY <1>3 DEF Counted
<1>15. Reading
  BY <1>1, <1>3, <1>10 DEF Reading, Records
<1>16. QED
  BY <1>5, <1>6, <1>7, <1>8, <1>9, <1>12, <1>13, <1>14, <1>15 DEF PInv

LEMMA StutterInv == ASSUME PInv, UNCHANGED vars PROVE PInv'
<1>1. UNCHANGED <<cpc, leaving, calls, proxy, res, answer, resizes, toSrv, toCli, server>>
  BY DEF vars, client
<1>2. Served' = Served /\ Asked'
  BY <1>1, AskedStays
<1>3. Connected' = Connected
  BY <1>1 DEF Connected
<1>4. /\ Handled' /\ Latest' /\ OnlyTheLastIsRepeated' /\ Logged' /\ Answering'
      /\ NextWritten' = NextWritten /\ Written' = Written
      /\ LeaveHandled' = LeaveHandled
  BY <1>1, <1>2, <1>3, ServerStays
<1>5. Types'
  BY <1>1 DEF PInv, Types, server
<1>6. Goodbye'
  BY <1>1, <1>4 DEF PInv, Goodbye, server
<1>7. Stream'
  BY <1>1, <1>3, <1>4, StreamStays DEF server
<1>8. Reading'
  BY <1>1 DEF PInv, Reading, Records, server
<1>9. QED
  BY <1>2, <1>4, <1>5, <1>6, <1>7, <1>8 DEF PInv, Stream

LEMMA NextInv == PInv /\ [Next]_vars => PInv'
<1> SUFFICES ASSUME PInv, [Next]_vars PROVE PInv'
  OBVIOUS
<1>1. CASE \E op \in Op : Call(op)
  BY <1>1, CallInv
<1>2. CASE Refuse
  BY <1>2, RefuseInv
<1>3. CASE ReadHeader
  BY <1>3, ReadHeaderInv
<1>4. CASE ReadRecord
  BY <1>4, ReadRecordInv
<1>5. CASE Resize
  BY <1>5, ResizeInv
<1>6. CASE Interrupt
  BY <1>6, InterruptInv
<1>7. CASE Crash
  BY <1>7, CrashInv
<1>8. CASE RecvRequest
  BY <1>8, RecvRequestInv
<1>9. CASE RecvNothing
  BY <1>9, RecvNothingInv
<1>10. CASE Handle
  BY <1>10, HandleInv
<1>11. CASE HandleLeave
  BY <1>11, HandleLeaveInv
<1>12. CASE WriteHeader
  BY <1>12, WriteHeaderInv
<1>13. CASE WriteRecord
  BY <1>13, WriteRecordInv
<1>14. CASE WriteFails
  BY <1>14, WriteFailsInv
<1>15. CASE UNCHANGED vars
  BY <1>15, StutterInv
<1>16. QED
  BY <1>1, <1>2, <1>3, <1>4, <1>5, <1>6, <1>7, <1>8, <1>9, <1>10, <1>11, <1>12,
     <1>13, <1>14, <1>15 DEF Next, ClientReads, Server

LEMMA Invariance == Spec => []PInv
<1>1. Init => PInv
  BY InitInv
<1>2. PInv /\ [Next]_vars => PInv'
  BY NextInv
<1>3. QED
  BY <1>1, <1>2, PTL DEF Spec

(* What the two ends keep, conn.res, the buffer of atc_reply and the       *)
(* messages on their way, has its type: a list never gets longer than the  *)
(* array of a conn_t that holds it, whatever cuts the calls short.         *)
THEOREM TypeCorrect == Spec => []TypeOK
<1>1. PInv => TypeOK
  BY TypesAreOK DEF PInv
<1>2. QED
  BY <1>1, Invariance, PTL

(* The answer that a call returns is that of as many calls before as calls *)
(* were cut short by a signal, for any number of calls and of signals: of  *)
(* this very call if none was (cli.c, atc_request).                        *)
THEOREM AnswersComeInOrder == Spec => []AnswersLag
<1>1. PInv => AnswersLag
  BY DEF PInv, Reading, AnswersLag
<1>2. QED
  BY <1>1, Invariance, PTL

(* The server carries out the requests one after the other and each once,  *)
(* but the last of a client that was killed (srv/main.c, atc_reply).       *)
THEOREM OnlyTheLastRepeats == Spec => []OnlyTheLastIsRepeated
<1>1. PInv => OnlyTheLastIsRepeated
  BY DEF PInv
<1>2. QED
  BY <1>1, Invariance, PTL

-----------------------------------------------------------------------------
(* The messages implement the calls *)

(* Only a client that was interrupted says good-bye. *)
OnlyLeaversLeave ==
  cpc # "killed" /\ ~leaving =>
    /\ buf # None => buf.op \in Op
    /\ \A i \in 1..Len(toSrv) : toSrv[i].op \in Op

(* The last request is for the function that the proxy stands for. *)
AskedByProxy ==
  Connected /\ calls > 0 =>
    (IF toSrv = << >> THEN buf.op ELSE toSrv[Len(toSrv)].op) = proxy

(* The server's conn.res is what the function returned last. *)
AnsweredByLog ==
  Connected /\ log # << >> /\ spc # "handle" /\ ~LeaveHandled =>
    /\ log[Len(log)] \in Outcome(buf)
    /\ sres = Typed(TypeOf(buf.op), log[Len(log)])

(* The header of the answer to the last request that was served says what  *)
(* that conn.res is.                                                       *)
HeaderOf(r) == Header(r.type, IF r.type = "atc_ack" THEN r.code ELSE Len(r.list), r.of)
HeaderOfAnswer ==
  Connected /\ spc # "handle" =>
    \A i \in 1..Len(toCli) :
      toCli[i].kind = "header" /\ toCli[i].of = Served => toCli[i] = HeaderOf(sres)

(* The client's conn.res has the records of one answer, in their order. *)
ListInOrder ==
  /\ Connected => \A k \in 1..Len(res.list) : res.list[k] = <<res.of, k>>
  /\ cpc = "records" => res.type \in {"atc_planes", "atc_airports"}

CInv == OnlyLeaversLeave /\ AskedByProxy /\ AnsweredByLog /\ HeaderOfAnswer /\ ListInOrder

(* What only the server changes, and what only the client does. *)
LEMMA ServerContentStays ==
  ASSUME CInv, UNCHANGED <<toCli, server>>, Served' = Served, Connected' => Connected
  PROVE  AnsweredByLog' /\ HeaderOfAnswer'
<1>1. UNCHANGED <<spc, buf, sres, log, toCli>>
  BY DEF server
<1>2. LeaveHandled' = LeaveHandled
  BY <1>1 DEF LeaveHandled
<1>3. AnsweredByLog'
  BY <1>1, <1>2 DEF CInv, AnsweredByLog
<1>4. HeaderOfAnswer'
  BY <1>1 DEF CInv, HeaderOfAnswer
<1>5. QED
  BY <1>3, <1>4

LEMMA ClientContentStays ==
  ASSUME CInv, UNCHANGED <<client, toSrv, buf>>
  PROVE  OnlyLeaversLeave' /\ AskedByProxy' /\ ListInOrder'
BY DEF CInv, OnlyLeaversLeave, AskedByProxy, ListInOrder, Connected, client

LEMMA SendContent ==
  ASSUME PInv, CInv, NEW op \in Op \cup {"leave"}, Send(op), Connected,
         op = "leave" => leaving', leaving => leaving',
         UNCHANGED <<res, toCli, server>>
  PROVE  CInv'
<1>1. /\ Served' = Served /\ calls' = calls + 1 /\ toSrv' \in Seq(Request) /\ toSrv' # << >>
      /\ toSrv'[Len(toSrv')].op = op
  BY SendFacts
<1>2. cpc' = "header" /\ proxy' = op /\ Connected' /\ UNCHANGED <<spc, buf, sres, log>>
  BY DEF Send, Connected, server
<1>3. AnsweredByLog' /\ HeaderOfAnswer'
  BY <1>1, ServerContentStays
<1>4. AskedByProxy'
  BY <1>1, <1>2 DEF AskedByProxy
<1>5. OnlyLeaversLeave'
  <2> SUFFICES ASSUME ~leaving', NEW i \in 1..Len(toSrv') PROVE toSrv'[i].op \in Op
    BY <1>2 DEF CInv, OnlyLeaversLeave, Connected
  <2>1. /\ toSrv \in Seq(Request) /\ Len(toSrv) \in Nat
        /\ toSrv' = Append(toSrv, [op |-> op, id |-> calls'])
    BY Sorts DEF Send
  <2>2. Len(toSrv') = Len(toSrv) + 1
    BY <2>1
  <2>3. CASE i \in 1..Len(toSrv)
    <3>1. toSrv'[i] = toSrv[i]
      BY <2>1, <2>3
    <3>2. QED
      BY <2>3, <3>1 DEF CInv, OnlyLeaversLeave, Connected
  <2>4. CASE i = Len(toSrv')
    BY <1>1, <2>4
  <2>5. QED
    BY <2>1, <2>2, <2>3, <2>4
<1>6. ListInOrder'
  BY <1>2 DEF CInv, ListInOrder
<1>7. QED
  BY <1>3, <1>4, <1>5, <1>6 DEF CInv

LEMMA CallContent == ASSUME PInv, CInv, NEW op \in Op, Call(op) PROVE CInv'
BY SendContent DEF Call, Connected, Op, ListOp

LEMMA InterruptContent == ASSUME PInv, CInv, Interrupt PROVE CInv'
BY SendContent DEF Interrupt

(* What is between two ends when the client neither sends nor reads. *)
LEMMA EndContent ==
  ASSUME PInv, CInv, UNCHANGED <<leaving, calls, proxy, res, toSrv, toCli, server>>,
         Connected' => Connected, cpc = "killed" => cpc' = "killed", cpc' # "records"
  PROVE  CInv'
<1>1. Served' = Served /\ UNCHANGED buf
  BY DEF Served, server
<1>2. AnsweredByLog' /\ HeaderOfAnswer'
  BY <1>1, ServerContentStays
<1>3. OnlyLeaversLeave' /\ AskedByProxy' /\ ListInOrder'
  BY <1>1 DEF CInv, OnlyLeaversLeave, AskedByProxy, ListInOrder
<1>4. QED
  BY <1>2, <1>3 DEF CInv

LEMMA ReadHeaderContent == ASSUME PInv, CInv, ReadHeader PROVE CInv'
<1>1. /\ cpc = "header" /\ toCli # << >> /\ Connected /\ toCli' = Tail(toCli)
      /\ res' = Decoded(Head(toCli))
      /\ UNCHANGED <<leaving, calls, proxy, toSrv, server>>
      /\ cpc' \in {"records", "left", "idle"}
      /\ cpc' = "records" => res'.type \in {"atc_planes", "atc_airports"}
  BY DEF ReadHeader, Connected, Finish
<1>2. Served' = Served /\ UNCHANGED <<spc, buf, sres, log>> /\ LeaveHandled' = LeaveHandled
  BY <1>1 DEF Served, server, LeaveHandled
<1>3. AnsweredByLog'
  BY <1>1, <1>2 DEF CInv, AnsweredByLog
<1>4. toCli \in Seq(MessageSet) /\ Len(toCli) \in Nat
  BY Sorts
<1>5. Len(toCli') = Len(toCli) - 1 /\ \A i \in 1..Len(toCli') : toCli'[i] = toCli[i + 1]
  BY <1>1, <1>4
<1>6. HeaderOfAnswer'
  BY <1>1, <1>2, <1>4, <1>5 DEF CInv, HeaderOfAnswer
<1>7. OnlyLeaversLeave' /\ AskedByProxy'
  BY <1>1, <1>2 DEF CInv, OnlyLeaversLeave, AskedByProxy, Connected
<1>8. Connected' => res'.list = << >>
  <2>1. toCli[1] \in MessageSet /\ Head(toCli) = toCli[1]
    BY <1>1, HeadFacts
  <2>2. CASE toCli[1].kind = "header"
    <3>1. res \in [type : AnswerType \cup {"other"}, code : Number \cup {Scrap},
                   len : 0..MaxList, list : Seq(RecordId), of : Nat]
      BY DEF PInv, Types
    <3>2. QED
      BY <1>1, <2>1, <2>2, <3>1 DEF Decoded
  <2>3. CASE toCli[1].kind = "record"
    <3>1. leaving
      <4>1. SUFFICES ASSUME ~leaving PROVE FALSE
        OBVIOUS
      <4>2. Len(res.list) = Records(res.of)
        BY <1>1, <4>1 DEF PInv, Reading
      <4>3. Pos(toCli[1])[2] = 0
        BY <1>1, <4>2, HeadFacts, Sorts
      <4>4. QED
        BY <2>1, <2>3, <4>3, PosFacts, RequestAssumption
    <3>2. res'.type = "other"
      <4>1. res \in [type : AnswerType \cup {"other"}, code : Number \cup {Scrap},
                     len : 0..MaxList, list : Seq(RecordId), of : Nat]
        BY DEF PInv, Types
      <4>2. QED
        BY <1>1, <2>1, <2>3, <4>1 DEF Decoded
    <3>3. cpc' = "left"
      BY <3>1, <3>2 DEF ReadHeader, Finish
    <3>4. QED
      BY <3>3 DEF Connected
  <2>4. QED
    BY <2>1, <2>2, <2>3, PosFacts
<1>9. ListInOrder'
  BY <1>1, <1>8 DEF ListInOrder
<1>10. QED
  BY <1>3, <1>6, <1>7, <1>9 DEF CInv

LEMMA ReadRecordContent == ASSUME PInv, CInv, ReadRecord PROVE CInv'
<1> DEFINE h == toCli[1]
           n == Len(res.list)
<1>1. /\ cpc = "records" /\ toCli # << >> /\ Connected /\ toCli' = Tail(toCli)
      /\ UNCHANGED <<leaving, calls, proxy, toSrv, server>>
      /\ cpc' \in {"records", "left", "idle"}
  BY DEF ReadRecord, Connected, Finish
<1>2. Served' = Served /\ UNCHANGED <<spc, buf, sres, log>> /\ LeaveHandled' = LeaveHandled
  BY <1>1 DEF Served, server, LeaveHandled
<1>3. AnsweredByLog'
  BY <1>1, <1>2 DEF CInv, AnsweredByLog
<1>4. toCli \in Seq(MessageSet) /\ Len(toCli) \in Nat
  BY Sorts
<1>5. Len(toCli') = Len(toCli) - 1 /\ \A i \in 1..Len(toCli') : toCli'[i] = toCli[i + 1]
  BY <1>1, <1>4
<1>6. HeaderOfAnswer'
  BY <1>1, <1>2, <1>4, <1>5 DEF CInv, HeaderOfAnswer
<1>7. OnlyLeaversLeave' /\ AskedByProxy'
  BY <1>1, <1>2 DEF CInv, OnlyLeaversLeave, AskedByProxy, Connected
<1>8. h \in MessageSet /\ Head(toCli) = h /\ Pos(h) = <<res.of, n + 1>>
  BY <1>1, HeadFacts, Sorts DEF PInv, Reading
<1>9. h.rec = <<res.of, n + 1>> /\ h.rec \in RecordId
  <2>1. n + 1 # 0
    BY Sorts
  <2>2. QED
    BY <1>8, <2>1, PosFacts
<1>10. res' = [res EXCEPT !.code = Scrap, !.list = Append(res.list, h.rec)]
  BY <1>8 DEF ReadRecord
<1>11. /\ res \in [type : AnswerType \cup {"other"}, code : Number \cup {Scrap},
                   len : 0..MaxList, list : Seq(RecordId), of : Nat]
       /\ res.list \in Seq(RecordId) /\ n \in Nat
  BY Sorts DEF PInv, Types
<1>12. res'.list = Append(res.list, h.rec) /\ res'.of = res.of /\ res'.type = res.type
  BY <1>10, <1>11
<1> HIDE DEF h, n
<1>13. /\ Len(res'.list) = n + 1 /\ res'.list[n + 1] = h.rec
       /\ \A k \in 1..n : res'.list[k] = res.list[k]
  BY <1>9, <1>11, <1>12 DEF n
<1>14. \A k \in 1..n : res.list[k] = <<res.of, k>>
  BY <1>1 DEF CInv, ListInOrder, n
<1>15. ListInOrder'
  BY <1>1, <1>9, <1>11, <1>12, <1>13, <1>14 DEF CInv, ListInOrder
<1>16. QED
  BY <1>3, <1>6, <1>7, <1>15 DEF CInv

LEMMA RecvRequestContent == ASSUME PInv, CInv, RecvRequest PROVE CInv'
<1>1. /\ spc = "recv" /\ toSrv # << >> /\ spc' = "handle" /\ buf' = Head(toSrv)
      /\ toSrv' = Tail(toSrv)
      /\ UNCHANGED <<client, toCli, sres, sent, log>>
  BY DEF RecvRequest
<1>2. toSrv \in Seq(Request) /\ Len(toSrv) \in Nat
  BY Sorts
<1>3. /\ Head(toSrv) = toSrv[1] /\ Len(toSrv) >= 1 /\ Len(toSrv') = Len(toSrv) - 1
      /\ \A i \in 1..Len(toSrv') : toSrv'[i] = toSrv[i + 1]
  BY <1>1, <1>2
<1>4. toSrv' = << >> <=> Len(toSrv) = 1
  BY <1>1, <1>2, <1>3
<1>5. UNCHANGED <<cpc, leaving, calls, proxy, res>> /\ Connected' = Connected
  BY <1>1 DEF client, Connected
<1>6. OnlyLeaversLeave'
  <2> SUFFICES ASSUME cpc # "killed", ~leaving
               PROVE  /\ buf'.op \in Op
                      /\ \A i \in 1..Len(toSrv') : toSrv'[i].op \in Op
    BY <1>5 DEF OnlyLeaversLeave
  <2>1. \A i \in 1..Len(toSrv) : toSrv[i].op \in Op
    BY DEF CInv, OnlyLeaversLeave
  <2>2. QED
    BY <1>1, <1>2, <1>3, <2>1
<1>7. AskedByProxy'
  BY <1>1, <1>2, <1>3, <1>4, <1>5 DEF CInv, AskedByProxy
<1>8. AnsweredByLog' /\ HeaderOfAnswer' /\ ListInOrder'
  BY <1>1, <1>5 DEF CInv, AnsweredByLog, HeaderOfAnswer, ListInOrder
<1>9. QED
  BY <1>6, <1>7, <1>8 DEF CInv

(* A client that left has said good-bye, and the server has stopped. *)
LEMMA NothingOfTheKilled == ASSUME PInv, RecvNothing PROVE cpc = "killed" /\ ~Connected'
<1>1. cpc \in {"left", "killed"} /\ spc = "recv" /\ toSrv = << >> /\ cpc' = cpc
  BY DEF RecvNothing, Connected, client
<1>2. cpc # "left"
  BY <1>1 DEF PInv, Goodbye
<1>3. QED
  BY <1>1, <1>2 DEF Connected

LEMMA KilledContent ==
  ASSUME PInv, CInv, cpc' = "killed" PROVE CInv'
<1>1. ~Connected' /\ cpc' # "records"
  BY DEF Connected
<1>2. QED
  BY <1>1 DEF CInv, OnlyLeaversLeave, AskedByProxy, AnsweredByLog, HeaderOfAnswer, ListInOrder

(* Nothing of an answer is under way before the function has returned. *)
LEMMA NoHeaderYet ==
  ASSUME PInv, spc = "handle", Connected, NEW i \in 1..Len(toCli), toCli[i].kind = "header"
  PROVE  toCli[i].of < Served
<1>1. toCli[i] \in MessageSet /\ i \in 0..Len(toCli) /\ i # 0 /\ i <= Len(toCli)
  BY Sorts
<1>2. Link(i)[1] = toCli[i].of /\ toCli[i].of \in Nat
  BY <1>1, PosFacts DEF Link
<1>3. Link(i)[1] <= Served - 1
  BY <1>1 DEF PInv, Bounded, Written
<1>4. QED
  BY <1>2, <1>3, Sorts

LEMMA HandleContent == ASSUME PInv, CInv, Handle PROVE CInv'
<1>1. /\ spc = "handle" /\ buf.op # "leave" /\ spc' = "header"
      /\ UNCHANGED <<client, toSrv, toCli, buf, received>>
  BY DEF Handle
<1>2. PICK v \in Outcome(buf) :
        log' = Append(log, v) /\ sres' = Typed(TypeOf(buf.op), v)
  BY DEF Handle
<1>3. OnlyLeaversLeave' /\ AskedByProxy' /\ ListInOrder'
  BY <1>1, ClientContentStays
<1>4. buf # None /\ buf \in Request
  BY <1>1 DEF PInv, Handled, Types
<1>5. v \in Value /\ log \in Seq(Value)
  BY <1>4, OutcomeFacts, Sorts
<1>6. log'[Len(log')] = v
  BY <1>2, <1>5
<1>7. AnsweredByLog'
  BY <1>1, <1>2, <1>6 DEF AnsweredByLog
<1>8. HeaderOfAnswer'
  <2>1. Served' = Served /\ Connected' = Connected /\ toCli' = toCli
    BY <1>1 DEF client, Served, Connected
  <2>2. Served \in Nat /\ Connected =>
          \A i \in 1..Len(toCli) : toCli[i].kind = "header" => toCli[i].of # Served
    <3> SUFFICES ASSUME Connected, NEW i \in 1..Len(toCli), toCli[i].kind = "header"
                 PROVE  toCli[i].of # Served
      BY Sorts
    <3>1. toCli[i] \in MessageSet
      BY Sorts
    <3>2. toCli[i].of < Served /\ toCli[i].of \in Nat
      BY <1>1, <3>1, NoHeaderYet, PosFacts
    <3>3. QED
      BY <3>2, Sorts
  <2>3. QED
    BY <2>1, <2>2, Sorts DEF HeaderOfAnswer
<1>9. QED
  BY <1>3, <1>7, <1>8 DEF CInv

LEMMA HandleLeaveContent == ASSUME PInv, CInv, HandleLeave PROVE CInv'
<1>1. /\ spc = "handle" /\ buf.op = "leave" /\ spc' = "header"
      /\ UNCHANGED <<client, toSrv, toCli, buf, received, log>>
  BY DEF HandleLeave
<1>2. OnlyLeaversLeave' /\ AskedByProxy' /\ ListInOrder'
  BY <1>1, ClientContentStays
<1>3. buf # None
  BY <1>1 DEF PInv, Handled
<1>4. AnsweredByLog'
  BY <1>1, <1>3 DEF AnsweredByLog, LeaveHandled
<1>5. HeaderOfAnswer'
  <2>1. Served' = Served /\ Connected' = Connected /\ toCli' = toCli
    BY <1>1 DEF client, Served, Connected
  <2>2. Served \in Nat /\ Connected =>
          \A i \in 1..Len(toCli) : toCli[i].kind = "header" => toCli[i].of # Served
    <3> SUFFICES ASSUME Connected, NEW i \in 1..Len(toCli), toCli[i].kind = "header"
                 PROVE  toCli[i].of # Served
      BY Sorts
    <3>1. toCli[i] \in MessageSet
      BY Sorts
    <3>2. toCli[i].of < Served /\ toCli[i].of \in Nat
      BY <1>1, <3>1, NoHeaderYet, PosFacts
    <3>3. QED
      BY <3>2, Sorts
  <2>3. QED
    BY <2>1, <2>2, Sorts DEF HeaderOfAnswer
<1>6. QED
  BY <1>2, <1>4, <1>5 DEF CInv

LEMMA WriteHeaderContent == ASSUME PInv, CInv, WriteHeader PROVE CInv'
<1>1. /\ spc = "header" /\ spc' \in {"closed", "recv", "records"}
      /\ toCli' = IF Connected THEN Append(toCli, HeaderOf(sres)) ELSE toCli
      /\ UNCHANGED <<client, toSrv, buf, received, sres, sent, log>>
  BY DEF WriteHeader, Write, HeaderOf, AfterReply
<1>2. OnlyLeaversLeave' /\ AskedByProxy' /\ ListInOrder'
  BY <1>1, ClientContentStays
<1>3. Served' = Served /\ LeaveHandled' = LeaveHandled /\ Connected' = Connected
  BY <1>1 DEF client, Served, LeaveHandled, Connected
<1>4. AnsweredByLog'
  BY <1>1, <1>3 DEF CInv, AnsweredByLog
<1>5. toCli \in Seq(MessageSet) /\ Len(toCli) \in Nat
  BY Sorts
<1>6. HeaderOf(sres) \in MessageSet
  <2>1. /\ sres \in [type : AnswerType, code : Number, list : Seq(RecordId), of : Nat]
        /\ Len(sres.list) \in Number
    BY Sorts, RequestAssumption DEF PInv, Types, Answering, Number
  <2>2. QED
    BY <2>1 DEF HeaderOf, Header, MessageSet, HeaderSet
<1>7. Connected => /\ Len(toCli') = Len(toCli) + 1
                   /\ toCli'[Len(toCli) + 1] = HeaderOf(sres)
                   /\ \A i \in 1..Len(toCli) : toCli'[i] = toCli[i]
  <2> HIDE DEF HeaderOf
  <2>1. QED
    BY <1>1, <1>5, <1>6
<1>8. HeaderOfAnswer'
  <2> SUFFICES ASSUME Connected, NEW i \in 1..Len(toCli'),
                      toCli'[i].kind = "header", toCli'[i].of = Served
               PROVE  toCli'[i] = HeaderOf(sres)
    BY <1>1, <1>3 DEF HeaderOfAnswer, HeaderOf
  <2>1. i \in 1..Len(toCli) \/ i = Len(toCli) + 1
    BY <1>5, <1>7
  <2>2. QED
    BY <1>1, <1>7, <2>1 DEF CInv, HeaderOfAnswer
<1>9. QED
  BY <1>2, <1>4, <1>8 DEF CInv

LEMMA WriteRecordContent == ASSUME PInv, CInv, WriteRecord PROVE CInv'
<1> DEFINE m == Record(sres.list[sent + 1])
<1>1. /\ spc = "records" /\ spc' \in {"closed", "recv", "records"}
      /\ toCli' = IF Connected THEN Append(toCli, m) ELSE toCli
      /\ UNCHANGED <<client, toSrv, buf, received, sres, log>>
  BY DEF WriteRecord, Write, AfterReply
<1>2. OnlyLeaversLeave' /\ AskedByProxy' /\ ListInOrder'
  BY <1>1, ClientContentStays
<1>3. Served' = Served /\ LeaveHandled' = LeaveHandled /\ Connected' = Connected
  BY <1>1 DEF client, Served, LeaveHandled, Connected
<1>4. AnsweredByLog'
  BY <1>1, <1>3 DEF CInv, AnsweredByLog
<1>5. toCli \in Seq(MessageSet) /\ Len(toCli) \in Nat
  BY Sorts
<1>6. m \in MessageSet /\ m.kind = "record"
  <2>1. /\ sres.list \in Seq(RecordId) /\ sent \in Nat /\ sent < Len(sres.list)
    BY <1>1, Sorts DEF PInv, Answering
  <2>2. QED
    BY <2>1 DEF Record, MessageSet, RecordSet
<1> HIDE DEF m
<1>7. Connected => /\ Len(toCli') = Len(toCli) + 1
                   /\ toCli'[Len(toCli) + 1] = m
                   /\ \A i \in 1..Len(toCli) : toCli'[i] = toCli[i]
  BY <1>1, <1>5, <1>6
<1>8. HeaderOfAnswer'
  <2> SUFFICES ASSUME Connected, NEW i \in 1..Len(toCli'),
                      toCli'[i].kind = "header", toCli'[i].of = Served
               PROVE  toCli'[i] = HeaderOf(sres)
    BY <1>1, <1>3 DEF HeaderOfAnswer, HeaderOf
  <2>1. i \in 1..Len(toCli) \/ i = Len(toCli) + 1
    BY <1>5, <1>7
  <2>2. QED
    BY <1>1, <1>6, <1>7, <2>1 DEF CInv, HeaderOfAnswer
<1>9. QED
  BY <1>2, <1>4, <1>8 DEF CInv

LEMMA WriteFailsContent == ASSUME PInv, CInv, WriteFails PROVE CInv'
<1>1. ~Connected /\ UNCHANGED <<client, toSrv, toCli, buf, received, sres, sent, log>>
  BY DEF WriteFails
<1>2. ~Connected'
  BY <1>1 DEF Connected, client
<1>3. OnlyLeaversLeave' /\ AskedByProxy' /\ ListInOrder'
  BY <1>1, ClientContentStays
<1>4. QED
  BY <1>2, <1>3 DEF CInv, AnsweredByLog, HeaderOfAnswer

LEMMA ContentInit == Init => CInv
BY DEF Init, CInv, OnlyLeaversLeave, AskedByProxy, AnsweredByLog, HeaderOfAnswer, ListInOrder

LEMMA ContentNext == PInv /\ CInv /\ [Next]_vars => CInv'
<1> SUFFICES ASSUME PInv, CInv, [Next]_vars PROVE CInv'
  OBVIOUS
<1>1. CASE \E op \in Op : Call(op)
  BY <1>1, CallContent
<1>2. CASE Refuse
  BY <1>2, EndContent DEF Refuse, Connected
<1>3. CASE ReadHeader
  BY <1>3, ReadHeaderContent
<1>4. CASE ReadRecord
  BY <1>4, ReadRecordContent
<1>5. CASE Resize
  <2>1. /\ cpc = "header" /\ cpc' \in {"left", "idle"}
        /\ UNCHANGED <<leaving, calls, proxy, res, toSrv, toCli, server>>
    BY <1>5 DEF Resize, Finish
  <2>2. QED
    BY <2>1, EndContent DEF Connected
<1>6. CASE Interrupt
  BY <1>6, InterruptContent
<1>7. CASE Crash
  BY <1>7, KilledContent DEF Crash
<1>8. CASE RecvRequest
  BY <1>8, RecvRequestContent
<1>9. CASE RecvNothing
  BY <1>9, NothingOfTheKilled, KilledContent DEF RecvNothing, client
<1>10. CASE Handle
  BY <1>10, HandleContent
<1>11. CASE HandleLeave
  BY <1>11, HandleLeaveContent
<1>12. CASE WriteHeader
  BY <1>12, WriteHeaderContent
<1>13. CASE WriteRecord
  BY <1>13, WriteRecordContent
<1>14. CASE WriteFails
  BY <1>14, WriteFailsContent
<1>15. CASE UNCHANGED vars
  <2>1. UNCHANGED <<client, toSrv, toCli, server, buf>>
    BY <1>15 DEF vars, server
  <2>2. Served' = Served /\ Connected' = Connected
    BY <2>1 DEF client, Served, Connected
  <2>3. QED
    BY <2>1, <2>2, ServerContentStays, ClientContentStays DEF CInv
<1>16. QED
  BY <1>1, <1>2, <1>3, <1>4, <1>5, <1>6, <1>7, <1>8, <1>9, <1>10, <1>11, <1>12,
     <1>13, <1>14, <1>15 DEF Next, ClientReads, Server

(* The client, the calls and the value that Calls speaks of. *)
Caller == IF leaving THEN "gone" ELSE IF Waiting THEN "waiting" ELSE "idle"
Jobs == IF spc = "handle" THEN <<buf>> \o toSrv ELSE toSrv
Returned == IF Waiting /\ log # << >> /\ log[Len(log)].of = calls
              THEN log[Len(log)] ELSE None

LEMMA JobsAppend ==
  ASSUME PInv, NEW r \in Request, toSrv' = Append(toSrv, r), spc' = spc, buf' = buf
  PROVE  Jobs' = Append(Jobs, r)
<1>1. toSrv \in Seq(Request)
  BY Sorts
<1>2. CASE spc = "handle"
  <2>1. buf \in Request
    BY <1>2 DEF PInv, Handled, Types
  <2>2. <<buf>> \o Append(toSrv, r) = Append(<<buf>> \o toSrv, r)
    BY <1>1, <2>1
  <2>3. QED
    BY <1>2, <2>2 DEF Jobs
<1>3. CASE spc # "handle"
  BY <1>3 DEF Jobs
<1>4. QED
  BY <1>2, <1>3

(* Nothing has been carried out that was not asked for. *)
LEMMA LogIsPast ==
  ASSUME PInv, log # << >>
  PROVE  /\ log[Len(log)] \in Value /\ log[Len(log)].of \in Nat
         /\ log[Len(log)].of <= Served /\ Served <= calls /\ calls \in Nat /\ Served \in Nat
         /\ spc = "handle" /\ cpc # "killed" => log[Len(log)].of < Served
<1>1. log \in Seq(Value) /\ calls \in Nat /\ Len(toSrv) \in Nat /\ Served \in Nat
  BY Sorts
<1>2. log[Len(log)] \in Value
  BY <1>1
<1>3. log[Len(log)].of \in Nat
  BY <1>2 DEF Value
<1>4. Served <= calls
  BY <1>1 DEF Served
<1>5. QED
  BY <1>1, <1>2, <1>3, <1>4 DEF PInv, Latest

LEMMA CallMaps == ASSUME PInv, NEW op \in Op, Call(op) PROVE Promise!Call(op)
<1>1. /\ cpc = "idle" /\ calls < MaxCalls /\ calls' = calls + 1 /\ cpc' = "header"
      /\ toSrv' = Append(toSrv, [op |-> op, id |-> calls + 1])
      /\ UNCHANGED <<leaving, answer, server>>
  BY DEF Call, Send
<1>2. ~leaving
  BY <1>1 DEF PInv, Goodbye
<1>3. [op |-> op, id |-> calls + 1] \in Request
  BY Sorts DEF Request
<1>4. Jobs' = Append(Jobs, [op |-> op, id |-> calls + 1])
  BY <1>1, <1>3, JobsAppend DEF server
<1>5. Returned' = None /\ Returned = None
  <2>1. Returned = None
    BY <1>1 DEF Returned, Waiting
  <2>2. log # << >> => log[Len(log)].of # calls'
    BY <1>1, LogIsPast
  <2>3. QED
    BY <1>1, <2>1, <2>2 DEF Returned, server
<1>6. Caller = "idle" /\ Caller' = "waiting"
  BY <1>1, <1>2 DEF Caller, Waiting
<1>7. QED
  BY <1>1, <1>4, <1>5, <1>6 DEF Promise!Call, Caller, Jobs, Returned

LEMMA RefuseMaps == ASSUME PInv, Refuse PROVE Promise!Refuse
<1>1. cpc = "idle" /\ answer' = Code(calls, -1)
      /\ UNCHANGED <<cpc, leaving, calls, toSrv, server>>
  BY DEF Refuse
<1>2. ~leaving
  BY <1>1 DEF PInv, Goodbye
<1>3. Caller = "idle" /\ Caller' = Caller
  BY <1>1, <1>2 DEF Caller, Waiting
<1>4. Jobs' = Jobs /\ Returned' = Returned
  BY <1>1 DEF Jobs, Returned, Waiting, server
<1>5. QED
  BY <1>1, <1>3, <1>4 DEF Promise!Refuse, Promise!Code, Code, Caller, Jobs, Returned

LEMMA InterruptMaps == ASSUME PInv, Interrupt PROVE Promise!Leave
<1>1. /\ ~leaving /\ leaving' /\ calls' = calls + 1
      /\ toSrv' = Append(toSrv, [op |-> "leave", id |-> calls + 1])
      /\ UNCHANGED <<answer, server>>
  BY DEF Interrupt, Send
<1>2. [op |-> "leave", id |-> calls + 1] \in Request
  BY Sorts DEF Request
<1>3. Jobs' = Append(Jobs, [op |-> "leave", id |-> calls + 1])
  BY <1>1, <1>2, JobsAppend DEF server
<1>4. Caller # "gone" /\ Caller' = "gone" /\ Returned' = None
  BY <1>1 DEF Caller, Returned, Waiting
<1>5. QED
  BY <1>1, <1>3, <1>4 DEF Promise!Leave, Caller, Jobs, Returned

(* The server's steps, other than carrying out a request, are not seen. *)
LEMMA RecvMaps == ASSUME PInv, RecvRequest PROVE UNCHANGED Promise!vars
<1>1. /\ spc = "recv" /\ toSrv # << >> /\ spc' = "handle" /\ buf' = Head(toSrv)
      /\ toSrv' = Tail(toSrv)
      /\ UNCHANGED <<cpc, leaving, calls, answer, log>>
  BY DEF RecvRequest, client
<1>2. toSrv \in Seq(Request)
  BY Sorts
<1>3. <<Head(toSrv)>> \o Tail(toSrv) = toSrv
  BY <1>1, <1>2
<1>4. Jobs' = Jobs
  BY <1>1, <1>3 DEF Jobs
<1>5. Caller' = Caller /\ Returned' = Returned
  BY <1>1 DEF Caller, Returned, Waiting
<1>6. QED
  BY <1>1, <1>4, <1>5 DEF Promise!vars, Caller, Jobs, Returned

LEMMA WriteMaps ==
  ASSUME WriteHeader \/ WriteRecord \/ WriteFails PROVE UNCHANGED Promise!vars
<1>1. /\ spc # "handle" /\ spc' # "handle"
      /\ UNCHANGED <<cpc, leaving, calls, answer, toSrv, log>>
  BY DEF WriteHeader, WriteRecord, WriteFails, AfterReply, client
<1>2. Jobs' = Jobs /\ Caller' = Caller /\ Returned' = Returned
  BY <1>1 DEF Jobs, Caller, Returned, Waiting
<1>3. QED
  BY <1>1, <1>2 DEF Promise!vars, Caller, Jobs, Returned

LEMMA HandleMaps ==
  ASSUME PInv, CInv, Handle \/ HandleLeave, cpc # "killed" PROVE Promise!Execute
<1>1. /\ spc = "handle" /\ spc' = "header"
      /\ UNCHANGED <<cpc, leaving, calls, answer, toSrv, buf>>
  BY DEF Handle, HandleLeave, client
<1>2. buf \in Request /\ buf # None /\ toSrv \in Seq(Request) /\ buf.id = Served
  BY <1>1, Sorts DEF PInv, Handled, Types
<1>3. Jobs # << >> /\ Head(Jobs) = buf /\ Tail(Jobs) = toSrv /\ Jobs' = toSrv
  <2>1. Jobs = <<buf>> \o toSrv
    BY <1>1 DEF Jobs
  <2>2. <<buf>> \o toSrv # << >> /\ Head(<<buf>> \o toSrv) = buf
        /\ Tail(<<buf>> \o toSrv) = toSrv
    BY <1>2
  <2>3. QED
    BY <1>1, <2>1, <2>2 DEF Jobs
<1>4. Caller' = Caller
  BY <1>1 DEF Caller, Waiting
<1>5. Returned = None
  BY <1>1, LogIsPast DEF Returned
<1>6. \E v \in Outcome(buf) :
        Returned' = IF Caller = "waiting" /\ v.of = calls THEN v ELSE Returned
  <2>1. CASE Handle
    <3>1. PICK v \in Outcome(buf) : log' = Append(log, v)
      BY <2>1 DEF Handle
    <3>2. v \in Value /\ log \in Seq(Value)
      BY <1>2, <3>1, OutcomeFacts, Sorts
    <3>3. log' # << >> /\ log'[Len(log')] = v
      BY <3>1, <3>2
    <3>4. Waiting <=> Caller = "waiting"
      BY DEF Caller, Waiting
    <3>5. Waiting' = Waiting
      BY <1>1 DEF Waiting
    <3>6. QED
      BY <1>1, <1>5, <3>3, <3>4, <3>5 DEF Returned
  <2>2. CASE HandleLeave
    <3>1. buf.op = "leave" /\ log' = log
      BY <2>2 DEF HandleLeave
    <3>2. leaving
      BY <1>2, <3>1 DEF CInv, OnlyLeaversLeave, Op, ListOp
    <3>3. Code(buf.id, 0) \in Outcome(buf)
      BY <3>1 DEF Outcome
    <3>4. Returned' = None /\ Caller = "gone"
      BY <1>1, <3>2 DEF Returned, Waiting, Caller
    <3>5. QED
      BY <1>5, <3>3, <3>4
  <2>3. QED
    BY <2>1, <2>2
<1>7. \A r : Promise!Outcome(r) = Outcome(r)
  BY DEF Promise!Outcome, Outcome, Promise!Code, Code, Promise!Listed, Listed
<1>8. QED
  BY <1>1, <1>3, <1>4, <1>6, <1>7 DEF Promise!Execute, Caller, Jobs, Returned

(* What a function returns, by the function. *)
LEMMA OutcomeOf ==
  ASSUME NEW r \in Request, NEW v \in Outcome(r)
  PROVE  /\ r.op = "get_airplanes" /\ v.code # -1 => \E n \in 0..MaxList : v = Listed(r.id, n)
         /\ r.op = "get_airports" => v = Listed(r.id, MaxList)
         /\ r.op \notin ListOp => v = Code(r.id, v.code)
<1>1. ASSUME NEW x, NEW n, x = Code(r.id, n) PROVE x = Code(r.id, x.code)
  BY <1>1 DEF Code
<1>2. r.op = "get_airplanes" /\ v.code # -1 => \E n \in 0..MaxList : v = Listed(r.id, n)
  BY DEF Outcome, Code
<1>3. r.op = "get_airports" => v = Listed(r.id, MaxList)
  BY DEF Outcome
<1>4. r.op \notin ListOp => \E n : v = Code(r.id, n)
  <2>1. CASE r.op = "set"
    BY <2>1 DEF Outcome
  <2>2. CASE r.op = "get_count"
    BY <2>2 DEF Outcome
  <2>3. CASE r.op \notin ListOp \cup {"set", "get_count"}
    BY <2>3 DEF Outcome, ListOp
  <2>4. QED
    BY <2>1, <2>2, <2>3
<1>5. QED
  BY <1>1, <1>2, <1>3, <1>4

(* The answer that a waiting client reads is that to its call. *)
LEMMA AnswerIsThere ==
  ASSUME PInv, CInv, Waiting, resizes = 0, toCli # << >>
  PROVE  /\ calls \in Nat /\ Served = calls /\ spc # "handle" /\ calls > 0
         /\ Pos(toCli[1])[1] = calls /\ (cpc = "header" => Pos(toCli[1])[2] = 0)
         /\ buf \in Request /\ buf.op = proxy /\ buf.id = calls
         /\ Returned = log[Len(log)] /\ Returned \in Outcome(buf)
         /\ sres = Typed(TypeOf(proxy), Returned)
         /\ Records(calls) = Len(Returned.list)
<1>1. cpc \in {"header", "records"} /\ ~leaving /\ Connected
  BY DEF Waiting, Connected
<1>2. /\ calls \in Nat /\ Served \in Nat /\ res.of \in Nat /\ Len(toSrv) \in Nat
      /\ toSrv \in Seq(Request)
  BY Sorts
<1>3. Pos(toCli[1]) = IF Len(res.list) < Records(res.of)
                        THEN <<res.of, Len(res.list) + 1>> ELSE <<res.of + 1, 0>>
  BY <1>1, HeadFacts
<1>4. Pos(toCli[1])[1] = calls /\ (cpc = "header" => Pos(toCli[1])[2] = 0)
  <2>1. CASE cpc = "header"
    <3>1. Len(res.list) = Records(res.of) /\ res.of = calls - 1
      BY <1>1, <1>2, <2>1 DEF PInv, Reading
    <3>2. Pos(toCli[1]) = <<res.of + 1, 0>>
      BY <1>3, <3>1, Sorts
    <3>3. QED
      BY <1>2, <3>1, <3>2
  <2>2. CASE cpc = "records"
    <3>1. Len(res.list) < Records(res.of) /\ res.of = calls
      BY <1>1, <1>2, <2>2 DEF PInv, Reading
    <3>2. QED
      BY <1>3, <2>2, <3>1
  <2>3. QED
    BY <1>1, <2>1, <2>2
<1>5. calls <= Written
  <2>1. 1 \in 0..Len(toCli) /\ Link(1) = Pos(toCli[1])
    BY Sorts DEF Link
  <2>2. QED
    BY <1>1, <1>4, <2>1 DEF PInv, Bounded
<1>6. Served = calls /\ spc \notin {"handle", "header"}
  BY <1>2, <1>5 DEF Written, Served
<1>7. toSrv = << >>
  BY <1>2, <1>6 DEF Served
<1>8. calls > 0
  <2>1. CASE cpc = "header"
    BY <1>1, <1>2, <2>1 DEF PInv, Reading
  <2>2. CASE cpc = "records"
    <3>1. Len(res.list) < Records(calls)
      BY <1>1, <1>2, <2>2 DEF PInv, Reading
    <3>2. calls \in 1..Len(log)
      BY <3>1, Sorts DEF Records, RecordsIn
    <3>3. QED
      BY <3>2
  <2>3. QED
    BY <1>1, <2>1, <2>2
<1>9. buf # None /\ buf \in Request /\ buf.id = calls /\ buf.op = proxy /\ ~LeaveHandled
  <2>1. buf # None
    BY <1>6, <1>8 DEF PInv, Handled
  <2>2. buf.op # "leave"
    BY <1>1, <2>1 DEF CInv, OnlyLeaversLeave, Connected, Op, ListOp
  <2>3. QED
    BY <1>1, <1>6, <1>7, <1>8, <2>1, <2>2
    DEF PInv, Handled, Types, CInv, AskedByProxy, LeaveHandled
<1>10. Len(log) = calls /\ log # << >> /\ log[Len(log)].of = calls
  <2>1. Len(log) = calls /\ \A j \in 1..Len(log) : log[j].of = j
    BY <1>1, <1>6, <1>9 DEF PInv, Logged
  <2>2. QED
    BY <1>2, <1>8, <2>1, Sorts
<1>11. Returned = log[Len(log)]
  BY <1>10 DEF Returned
<1>12. Returned \in Outcome(buf) /\ sres = Typed(TypeOf(proxy), Returned)
  BY <1>1, <1>6, <1>9, <1>10, <1>11 DEF CInv, AnsweredByLog
<1>13. Records(calls) = Len(Returned.list)
  BY <1>2, <1>8, <1>10, <1>11 DEF Records, RecordsIn
<1>14. QED
  BY <1>2, <1>4, <1>6, <1>8, <1>9, <1>11, <1>12, <1>13

(* A call that ends returns what its function returned. *)
LEMMA EndMaps ==
  ASSUME PInv, Waiting, ~Waiting', ~leaving, UNCHANGED <<leaving, calls, toSrv, server>>,
         Returned = log[Len(log)], log # << >>, answer' = Returned
  PROVE  Promise!Return
<1>1. UNCHANGED <<spc, buf, log>>
  BY DEF server
<1>2. Caller = "waiting" /\ Caller' = "idle" /\ Jobs' = Jobs
  BY <1>1 DEF Caller, Jobs
<1>3. Returned # None
  BY LogIsPast, NoneAssumption DEF Value, Number, RecordId
<1>4. Returned' = None
  BY DEF Returned
<1>5. QED
  BY <1>2, <1>3, <1>4 DEF Promise!Return, Caller, Jobs, Returned

LEMMA ReadStutters ==
  ASSUME UNCHANGED <<leaving, calls, toSrv, server, answer>>, Waiting' = Waiting
  PROVE  UNCHANGED Promise!vars
<1>1. Caller' = Caller /\ Jobs' = Jobs /\ Returned' = Returned
  BY DEF Caller, Jobs, Returned, server
<1>2. QED
  BY <1>1 DEF Promise!vars, Caller, Jobs, Returned

LEMMA HeaderAnswers ==
  ASSUME PInv, CInv, ReadHeader, Calm', Waiting, ~Waiting' PROVE Promise!Return
<1>1. /\ cpc = "header" /\ ~leaving /\ Connected /\ toCli # << >>
      /\ res' = Decoded(Head(toCli))
      /\ UNCHANGED <<leaving, calls, proxy, resizes, toSrv, server>>
  BY DEF ReadHeader, Waiting, Connected
<1>2. /\ answer' = Answer(proxy, res')
      /\ ~(res'.type \in {"atc_planes", "atc_airports"} /\ res'.len > 0)
  BY <1>1 DEF ReadHeader, Finish, Waiting
<1>3. resizes = 0 /\ ~(sres.type = "atc_planes" /\ sres.code = -1)
  BY <1>1 DEF Calm, server
<1>4. /\ calls \in Nat /\ Served = calls /\ spc # "handle" /\ calls > 0
      /\ Pos(toCli[1])[1] = calls /\ Pos(toCli[1])[2] = 0
      /\ buf \in Request /\ buf.op = proxy /\ buf.id = calls
      /\ Returned = log[Len(log)] /\ Returned \in Outcome(buf)
      /\ sres = Typed(TypeOf(proxy), Returned)
  BY <1>1, <1>3, AnswerIsThere
<1>5. toCli[1] \in MessageSet /\ Head(toCli) = toCli[1] /\ 1 \in 1..Len(toCli)
  BY <1>1, HeadFacts, Sorts
<1>6. toCli[1].kind = "header" /\ toCli[1].of = calls
  BY <1>4, <1>5, PosFacts, RequestAssumption
<1>7. toCli[1] = HeaderOf(sres)
  BY <1>1, <1>4, <1>5, <1>6 DEF CInv, HeaderOfAnswer
<1> DEFINE v == Returned
           t == TypeOf(proxy)
           n == Len(v.list)
<1>8. v \in Value /\ v.of = calls /\ (proxy \notin ListOp => v = Code(calls, v.code))
  BY <1>4, OutcomeFacts, OutcomeOf
<1>9. sres.type = t /\ sres.code = v.code /\ sres.list = v.list /\ sres.of = calls
  BY <1>4, <1>8 DEF Typed
<1>10. toCli[1] = [kind |-> "header", type |-> t,
                   payload |-> IF t = "atc_ack" THEN v.code ELSE n, of |-> calls]
  BY <1>7, <1>9 DEF HeaderOf, Header
<1>11. v.list \in Seq(RecordId) /\ n \in Nat /\ proxy \in Op \cup {"leave"}
  BY <1>8 DEF Value, PInv, Types
<1>12. res \in [type : AnswerType \cup {"other"}, code : Number \cup {Scrap},
                len : 0..MaxList, list : Seq(RecordId), of : Nat]
  BY DEF PInv, Types
<1>13. answer' = v
  <2>1. CASE proxy \notin ListOp
    <3>1. t = "atc_ack"
      BY <2>1 DEF TypeOf, ListOp
    <3>2. res' = [type |-> t, code |-> v.code, len |-> 0, list |-> << >>, of |-> calls]
      BY <1>1, <1>5, <1>10, <3>1 DEF Decoded
    <3>3. Answer(proxy, res') = Code(calls, v.code)
      BY <2>1, <3>2 DEF Answer, ListOp, Code
    <3>4. QED
      BY <1>2, <1>8, <2>1, <3>3
  <2>2. CASE proxy \in ListOp
    <3>1. t \in {"atc_planes", "atc_airports"} /\ t # "atc_ack"
      BY <2>2 DEF TypeOf, ListOp
    <3>2. res' = [res EXCEPT !.type = t, !.len = n, !.list = << >>, !.of = calls]
      <4> DEFINE h == toCli[1]
      <4>1. h.kind = "header" /\ h.type = t /\ h.payload = n /\ h.of = calls
        BY <1>10, <3>1
      <4>2. res' = Decoded(h)
        BY <1>1, <1>5
      <4> HIDE DEF h, t, n, v
      <4>3. QED
        BY <3>1, <4>1, <4>2 DEF Decoded
    <3>3. res'.type = t /\ res'.len = n /\ res'.list = << >> /\ res'.of = calls
      BY <1>12, <3>2
    <3>4. n = 0
      BY <1>2, <1>11, <3>1, <3>3
    <3>5. proxy = "get_airplanes"
      <4>1. SUFFICES ASSUME proxy = "get_airports" PROVE FALSE
        BY <2>2 DEF ListOp
      <4>2. v = Listed(calls, MaxList)
        BY <1>4, <4>1, OutcomeOf
      <4>3. v.list = [i \in 1..MaxList |-> <<calls, i>>]
        BY <4>2 DEF Listed
      <4>4. Len(v.list) = MaxList
        BY <4>3, RequestAssumption
      <4>5. QED
        BY <3>4, <4>4, RequestAssumption
    <3>6. v.code # -1
      BY <1>3, <1>9, <3>5 DEF TypeOf
    <3>7. PICK k \in 0..MaxList : v = Listed(calls, k)
      BY <1>4, <3>5, <3>6, OutcomeOf
    <3>8. v = [of |-> calls, code |-> 0, list |-> << >>]
      <4>1. v = [of |-> calls, code |-> k, list |-> [i \in 1..k |-> <<calls, i>>]]
        BY <3>7 DEF Listed
      <4>2. v.list = [i \in 1..k |-> <<calls, i>>] /\ v.code = k
        BY <4>1
      <4>3. k = 0
        BY <3>4, <4>2
      <4>4. v.list = << >>
        BY <1>11, <3>4
      <4>5. QED
        BY <4>1, <4>2, <4>3, <4>4
    <3>9. Answer(proxy, res') = [of |-> calls, code |-> 0, list |-> << >>]
      BY <3>1, <3>3, <3>4, <3>5 DEF Answer, ListOp
    <3>10. QED
      BY <1>2, <3>8, <3>9
  <2>3. QED
    BY <2>1, <2>2
<1>14. log # << >>
  BY <1>4, <1>8, NoneAssumption DEF Returned, Value, Number, RecordId
<1>15. QED
  BY <1>1, <1>4, <1>13, <1>14, EndMaps

LEMMA RecordAnswers ==
  ASSUME PInv, CInv, CInv', ReadRecord, Calm', Waiting, ~Waiting' PROVE Promise!Return
<1>1. /\ cpc = "records" /\ ~leaving /\ Connected /\ toCli # << >>
      /\ UNCHANGED <<leaving, calls, proxy, resizes, toSrv, server>>
      /\ res' = [res EXCEPT !.code = Scrap, !.list = Append(@, Head(toCli).rec)]
  BY DEF ReadRecord, Waiting, Connected
<1>2. Len(res'.list) = res.len /\ answer' = Answer(proxy, res') /\ Connected'
  BY <1>1 DEF ReadRecord, Finish, Waiting, Connected
<1>3. /\ res \in [type : AnswerType \cup {"other"}, code : Number \cup {Scrap},
                  len : 0..MaxList, list : Seq(RecordId), of : Nat]
      /\ res.list \in Seq(RecordId) /\ res.len \in Nat
  BY Sorts DEF PInv, Types
<1>4. /\ res'.code = Scrap /\ res'.len = res.len /\ res'.of = res.of
      /\ res'.type = res.type /\ res'.list = Append(res.list, Head(toCli).rec)
  BY <1>1, <1>3
<1>5. resizes = 0
  BY <1>1 DEF Calm
<1>6. /\ calls \in Nat
      /\ buf \in Request /\ buf.op = proxy /\ buf.id = calls
      /\ Returned = log[Len(log)] /\ Returned \in Outcome(buf)
      /\ Records(calls) = Len(Returned.list)
  BY <1>1, <1>5, AnswerIsThere
<1> DEFINE v == Returned
<1>7. /\ v \in Value /\ v.of = calls
      /\ \A k \in 1..Len(v.list) : v.list[k] = <<v.of, k>>
      /\ proxy \notin ListOp => v.list = << >>
  BY <1>6, OutcomeFacts
<1>8. v.list \in Seq(RecordId)
  BY <1>7 DEF Value
<1>9. res.of = calls /\ res.len = Len(v.list) /\ Len(res.list) < res.len
  BY <1>1, <1>5, <1>6 DEF PInv, Reading
<1>10. proxy \in ListOp
  <2>1. Len(v.list) # 0
    BY <1>3, <1>8, <1>9
  <2>2. QED
    BY <1>7, <2>1
<1>11. res'.list = v.list
  <2> DEFINE s == res'.list
             w == v.list
  <2>1. s \in Seq(RecordId)
    <3>1. toCli[1] \in MessageSet /\ Head(toCli) = toCli[1]
          /\ Pos(toCli[1]) = <<res.of, Len(res.list) + 1>>
      BY <1>1, HeadFacts DEF PInv, Reading
    <3>2. Len(res.list) + 1 # 0
      BY <1>3
    <3>3. Head(toCli).rec \in RecordId
      BY <3>1, <3>2, PosFacts
    <3>4. QED
      BY <1>3, <1>4, <3>3
  <2>2. w \in Seq(RecordId) /\ Len(s) = Len(w)
    BY <1>2, <1>8, <1>9
  <2>3. \A k \in 1..Len(s) : s[k] = <<calls, k>>
    BY <1>2, <1>4, <1>9 DEF CInv, ListInOrder
  <2>4. \A k \in 1..Len(s) : s[k] = w[k]
    BY <1>7, <2>2, <2>3
  <2> HIDE DEF s, w
  <2>5. s = w
    BY <2>1, <2>2, <2>4, SeqEqual
  <2>6. QED
    BY <2>5 DEF s, w
<1>12. v.code = Len(v.list)
  <2>1. CASE proxy = "get_airports"
    <3>1. v = Listed(calls, MaxList)
      BY <1>6, <2>1, OutcomeOf
    <3>2. v.list = [i \in 1..MaxList |-> <<calls, i>>] /\ v.code = MaxList
      BY <3>1 DEF Listed
    <3>3. QED
      BY <3>2, RequestAssumption
  <2>2. CASE proxy = "get_airplanes"
    <3>1. v.code # -1
      <4>1. sres = Typed(TypeOf(proxy), v)
        BY <1>1, <1>5, AnswerIsThere
      <4>2. sres.type = "atc_planes" /\ sres.code = v.code
        BY <2>2, <4>1 DEF Typed, TypeOf
      <4>3. QED
        BY <1>1, <4>2 DEF Calm, server
    <3>2. PICK n \in 0..MaxList : v = Listed(calls, n)
      BY <1>6, <2>2, <3>1, OutcomeOf
    <3>3. v.list = [i \in 1..n |-> <<calls, i>>] /\ v.code = n
      BY <3>2 DEF Listed
    <3>4. QED
      BY <3>3, RequestAssumption
  <2>3. QED
    BY <1>10, <2>1, <2>2 DEF ListOp
<1>13. v = [of |-> calls, code |-> Len(v.list), list |-> v.list]
  BY <1>7, <1>12 DEF Value
<1>14. answer' = v
  <2>1. res'.type # "atc_ack"
    BY <1>1, <1>4 DEF CInv, ListInOrder
  <2>2. res'.code # -1
    BY <1>4, ScrapAssumption
  <2>3. Answer(proxy, res') = [of |-> calls, code |-> res'.len, list |-> res'.list]
    BY <1>4, <1>9, <1>10, <2>1, <2>2 DEF Answer
  <2>4. QED
    BY <1>2, <1>4, <1>9, <1>11, <1>13, <2>3
<1>15. log # << >>
  BY <1>6, <1>7, NoneAssumption DEF Returned, Value, Number, RecordId
<1>16. QED
  BY <1>1, <1>6, <1>14, <1>15, EndMaps

LEMMA ReadMaps ==
  ASSUME PInv, CInv, CInv', ClientReads, Calm' PROVE [Promise!Next]_(Promise!vars)
<1>1. /\ cpc \in {"header", "records"} /\ cpc' \in {"records", "left", "idle"}
      /\ UNCHANGED <<leaving, calls, toSrv, server>>
      /\ leaving \/ cpc' = "records" => answer' = answer
      /\ cpc' = "records" \/ cpc' = IF leaving THEN "left" ELSE "idle"
  BY DEF ClientReads, ReadHeader, ReadRecord, Finish
<1>2. CASE leaving \/ cpc' = "records"
  <2>1. Waiting' = Waiting
    BY <1>1, <1>2 DEF Waiting
  <2>2. QED
    BY <1>1, <1>2, <2>1, ReadStutters
<1>3. CASE ~leaving /\ cpc' # "records"
  <2>1. Waiting /\ ~Waiting'
    BY <1>1, <1>3 DEF Waiting
  <2>2. Promise!Return
    BY <2>1, HeaderAnswers, RecordAnswers DEF ClientReads
  <2>3. QED
    BY <2>2 DEF Promise!Next
<1>4. QED
  BY <1>2, <1>3

LEMMA PromiseInit == Init => Promise!Init
BY DEF Init, Promise!Init, Waiting, Code, Promise!Code

LEMMA PromiseNext ==
  PInv /\ CInv /\ CInv' /\ [Next]_vars => [Calm' => Promise!Next]_(Promise!vars)
<1> SUFFICES ASSUME PInv, CInv, CInv', [Next]_vars, Calm'
             PROVE  [Promise!Next]_(Promise!vars)
  OBVIOUS
<1>1. CASE \E op \in Op : Call(op)
  <2>1. \E op \in Op : Promise!Call(op)
    BY <1>1, CallMaps
  <2>2. QED
    BY <2>1 DEF Promise!Next, Promise!Op, Op, Promise!ListOp, ListOp
<1>2. CASE Refuse
  BY <1>2, RefuseMaps DEF Promise!Next
<1>3. CASE ClientReads
  BY <1>3, ReadMaps
<1>4. CASE Resize
  BY <1>4, Sorts DEF Resize, Calm
<1>5. CASE Interrupt
  BY <1>5, InterruptMaps DEF Promise!Next
<1>6. CASE Crash
  BY <1>6 DEF Crash, Calm
<1>7. CASE RecvRequest
  BY <1>7, RecvMaps
<1>8. CASE RecvNothing
  BY <1>8, NothingOfTheKilled DEF RecvNothing, client, Calm
<1>9. CASE Handle \/ HandleLeave
  <2>1. cpc # "killed"
    BY <1>9 DEF Handle, HandleLeave, client, Calm
  <2>2. QED
    BY <1>9, <2>1, HandleMaps DEF Promise!Next
<1>10. CASE WriteHeader \/ WriteRecord \/ WriteFails
  BY <1>10, WriteMaps
<1>11. CASE UNCHANGED vars
  <2>1. Caller' = Caller /\ Jobs' = Jobs /\ Returned' = Returned /\ UNCHANGED <<calls, answer>>
    BY <1>11 DEF vars, client, server, Caller, Jobs, Returned, Waiting
  <2>2. QED
    BY <2>1 DEF Promise!vars, Caller, Jobs, Returned
<1>12. QED
  BY <1>1, <1>2, <1>3, <1>4, <1>5, <1>6, <1>7, <1>8, <1>9, <1>10, <1>11 DEF Next, Server

(* The messages of the two ends implement the proxies' promise: as long as *)
(* no call was cut short, each call of a client is carried out once, in    *)
(* order, and returns what the function of ATCD returned for it, but for   *)
(* the -1 of get_airplanes (cli.c, proto.c, srv/main.c).                   *)
THEOREM CallsAreImplemented == Spec => ImplementsCalls
<1>1. Init => PInv /\ CInv /\ Promise!Init
  BY InitInv, ContentInit, PromiseInit
<1>2. PInv /\ CInv /\ [Next]_vars => PInv' /\ CInv'
  BY NextInv, ContentNext
<1>3. QED
  BY <1>1, <1>2, PromiseNext, PTL DEF Spec, ImplementsCalls

=============================================================================
