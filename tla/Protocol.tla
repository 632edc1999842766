------------------------------ MODULE Protocol ------------------------------
(***************************************************************************)
(* One client and the server process that serves it: the proxies of cli.c, *)
(* atc_request, atc_reply and what they read and write (proto.c,           *)
(* serialize.c), and the server's reply_handler (srv/main.c), over the     *)
(* socket transport.                                                       *)
(*                                                                         *)
(* A message is what one transport_send writes; transport_recv waits for   *)
(* as many bytes (MSG_WAITALL), and the two ends read in the units they    *)
(* write.  Of the bytes of a message the model keeps its kind, the type    *)
(* and the number in a header, and which record of which answer a record   *)
(* is.  No error of a transport reaches a caller: the proxies ignore what  *)
(* atc_request returns, and atc_reply looks at no byte count.              *)
(***************************************************************************)
EXTENDS Requests, FiniteSets

CONSTANTS
  None,         \* nothing received yet; no value
  Scrap,        \* the number that the first bytes of a record make
  MaxCalls,     \* bound: how many calls the client makes
  MaxResizes,   \* bound: how many of them a resized terminal cuts short
  MaxCrashes,   \* bound: whether the client may be killed (0 or 1)
  MaxReplays    \* bound: how many requests the server makes of nothing

ASSUME ProtocolBoundAssumption ==
  /\ MaxCalls \in Nat \ {0} /\ MaxResizes \in Nat /\ MaxCrashes \in 0..1
  /\ MaxReplays \in Nat
ASSUME NoneAssumption ==
  None \notin Request \cup [of : Nat, code : -1..MaxList, list : Seq(Nat \X (1..MaxList))]
ASSUME ScrapAssumption == Scrap # -1   \* no name of a plane, no place of an airport

VARIABLES
  cpc,        \* the client: "idle", or in a call that waits for its "header"
              \* or its "records", or "left", or "killed"
  leaving,    \* it was interrupted (SIGINT), and says good-bye
  calls,      \* how many calls it has made
  proxy,      \* the function that it calls
  res,        \* its conn.res, and `of', the call that the last header was for
  answer,     \* what its last finished call returned
  resizes,    \* how many of its calls were cut short
  toSrv,      \* the requests on their way
  toCli,      \* the messages of the answers on their way
  spc,        \* the server: "recv", "handle", "header", "records", or
              \* "closed" or "killed"
  buf,        \* the buffer of atc_reply
  received,   \* what its transport_recv returned: "bytes", "eof" or "error"
  sres,       \* the server's conn.res
  sent,       \* how many records of it are sent
  log         \* what the backend functions returned, call by call

client == <<cpc, leaving, calls, proxy, res, answer, resizes>>
server == <<spc, buf, received, sres, sent, log>>
vars == <<client, toSrv, toCli, server>>

(* The types of answers. *)
AnswerType == {"atc_ack", "atc_planes", "atc_airports"}

(* The messages of an answer. *)
Header(t, n, id) == [kind |-> "header", type |-> t, payload |-> n, of |-> id]
Record(r) == [kind |-> "record", rec |-> r]

TypeOK ==
  LET Rec == Nat \X (1..MaxList)
      Num == -1..MaxList
  IN
  /\ cpc \in {"idle", "header", "records", "left", "killed"}
  /\ leaving \in BOOLEAN
  /\ calls \in 0..(MaxCalls + 1)
  /\ proxy \in Op \cup {"leave"}
  /\ res \in [type : AnswerType \cup {"other"}, code : Num \cup {Scrap},
              len : 0..MaxList, list : Seq(Rec), of : Nat]
  /\ answer \in [of : Nat, code : Num \cup {Scrap}, list : Seq(Rec)]
  /\ resizes \in 0..MaxResizes
  /\ toSrv \in Seq(Request)
  /\ \A i \in 1..Len(toCli) :
       toCli[i] \in [kind : {"header"}, type : AnswerType, payload : Num, of : Nat]
                      \cup [kind : {"record"}, rec : Rec]
  /\ spc \in {"recv", "handle", "header", "records", "closed", "killed"}
  /\ buf \in Request \cup {None}
  /\ received \in {"bytes", "eof", "error"}
  /\ sres \in [type : AnswerType, code : Num, list : Seq(Rec), of : Nat]
  /\ sent \in 0..MaxList
  /\ log \in Seq([of : Nat, code : Num, list : Seq(Rec)])

Init ==
  /\ cpc = "idle" /\ leaving = FALSE /\ calls = 0 /\ proxy = "create_plane"
  /\ res = [type |-> "other", code |-> 0, len |-> 0, list |-> << >>, of |-> 0]
  /\ answer = Code(0, 0)
  /\ resizes = 0
  /\ toSrv = << >> /\ toCli = << >>
  /\ spc = "recv" /\ buf = None /\ received = "bytes"
  /\ sres = [type |-> "atc_ack", code |-> 0, list |-> << >>, of |-> 0]
  /\ sent = 0
  /\ log = << >>

Connected == cpc \notin {"left", "killed"}

-----------------------------------------------------------------------------
(* The client                                                              *)

(* What a proxy makes of conn.res, whatever is in it.  The code and the    *)
(* list share their memory: get_airports' -1 can only be a code.           *)
Answer(op, r) ==
  CASE op = "get_airplanes" /\ r.type = "atc_ack" -> Code(r.of, r.code)
    [] op = "get_airports" /\ r.code = -1 -> Code(r.of, -1)
    [] op \in ListOp -> [of |-> r.of, code |-> r.len, list |-> r.list]
    [] OTHER -> Code(r.of, r.code)

(* The end of atc_request, and of the proxy. *)
Finish(r) ==
  /\ cpc' = IF leaving THEN "left" ELSE "idle"
  /\ answer' = IF leaving THEN answer ELSE Answer(proxy, r)

(* atc_request up to its first transport_recv. *)
Send(op) ==
  /\ calls' = calls + 1
  /\ proxy' = op
  /\ toSrv' = Append(toSrv, [op |-> op, id |-> calls'])
  /\ cpc' = "header"

(* Mutant: a proxy that returns nothing waits for nothing. *)
CallUnanswered(op) ==
  /\ cpc = "idle" /\ calls < MaxCalls
  /\ calls' = calls + 1
  /\ proxy' = op
  /\ toSrv' = Append(toSrv, [op |-> op, id |-> calls'])
  /\ cpc' = IF op = "create_plane" THEN "idle" ELSE "header"
  /\ UNCHANGED <<leaving, res, answer, resizes, toCli, server>>

Call(op) ==
  /\ cpc = "idle" /\ calls < MaxCalls
  /\ Send(op)
  /\ UNCHANGED <<leaving, res, answer, resizes, toCli, server>>

(* set, of a command that is none. *)
Refuse ==
  /\ cpc = "idle"
  /\ answer' = Code(calls, -1)
  /\ UNCHANGED <<cpc, leaving, calls, proxy, res, resizes, toSrv, toCli, server>>

(* atc_header_to_res.  A record in the place of a header has no type that  *)
(* is known.                                                               *)
Decoded(m) ==
  CASE m.kind = "record" -> [res EXCEPT !.type = "other"]
    [] m.kind = "header" /\ m.type = "atc_ack" ->
         [type |-> m.type, code |-> m.payload, len |-> 0, list |-> << >>, of |-> m.of]
    [] OTHER ->
         [res EXCEPT !.type = m.type, !.len = m.payload, !.list = << >>, !.of = m.of]

ReadHeader ==
  /\ cpc = "header" /\ toCli # << >>
  /\ toCli' = Tail(toCli)
  /\ res' = Decoded(Head(toCli))
  /\ IF res'.type \in {"atc_planes", "atc_airports"} /\ res'.len > 0
       THEN cpc' = "records" /\ UNCHANGED answer
       ELSE Finish(res')
  /\ UNCHANGED <<leaving, calls, proxy, resizes, toSrv, server>>

(* One more record of a list; the first one is written over the code. *)
ReadRecord ==
  /\ cpc = "records" /\ toCli # << >>
  /\ toCli' = Tail(toCli)
  /\ res' = [res EXCEPT !.code = Scrap, !.list = Append(@, Head(toCli).rec)]
  /\ IF Len(res'.list) = res.len THEN Finish(res')
                                 ELSE UNCHANGED <<cpc, answer>>
  /\ UNCHANGED <<leaving, calls, proxy, resizes, toSrv, server>>

(* SIGWINCH, which curses catches, ends recv with EINTR before a byte of   *)
(* the answer has come: the proxy makes do with the conn.res of an earlier *)
(* call.                                                                   *)
Resize ==
  /\ cpc = "header" /\ resizes < MaxResizes
  /\ resizes' = resizes + 1
  /\ Finish(res)
  /\ UNCHANGED <<leaving, calls, proxy, res, toSrv, toCli, server>>

(* Mutant: the handler may interrupt itself. *)
InterruptAgain ==
  /\ Connected
  /\ leaving' = TRUE
  /\ Send("leave")
  /\ UNCHANGED <<res, answer, resizes, toCli, server>>

(* cli_sigint_handler, in the middle of whatever the client does: another  *)
(* request, and the first answer that comes.                               *)
Interrupt ==
  /\ Connected /\ ~leaving
  /\ leaving' = TRUE
  /\ Send("leave")
  /\ UNCHANGED <<res, answer, resizes, toCli, server>>

(* The client is killed, or its terminal is closed. *)
Crash ==
  /\ Connected /\ MaxCrashes = 1
  /\ cpc' = "killed"
  /\ UNCHANGED <<leaving, calls, proxy, res, answer, resizes, toSrv, toCli, server>>

-----------------------------------------------------------------------------
(* The server                                                              *)

(* Mutant: the message stays where it is. *)
PeekRequest ==
  /\ spc = "recv" /\ toSrv # << >>
  /\ spc' = "handle"
  /\ buf' = Head(toSrv)
  /\ received' = "bytes"
  /\ toSrv' \in {toSrv, Tail(toSrv)}
  /\ UNCHANGED <<client, toCli, sres, sent, log>>

RecvRequest ==
  /\ spc = "recv" /\ toSrv # << >>
  /\ spc' = "handle"
  /\ buf' = Head(toSrv)
  /\ toSrv' = Tail(toSrv)
  /\ received' = "bytes"
  /\ UNCHANGED <<client, toCli, sres, sent, log>>

(* The client is gone: recv returns 0, or -1 if the connection was reset,  *)
(* and the buffer, which is not initialised, is handled as a request.  It  *)
(* is in the stack frame where it was, with the last request in it; before *)
(* the first request it may hold anything.                                 *)
RecvNothing ==
  /\ spc = "recv" /\ toSrv = << >> /\ ~Connected
  /\ Len(log) < calls + MaxReplays
  /\ spc' = "handle"
  /\ received' \in {"eof", "error"}
  /\ buf' \in IF buf = None THEN [op : Op \cup {"leave"}, id : {0}] ELSE {buf}
  /\ UNCHANGED <<client, toSrv, toCli, sres, sent, log>>

(* The type of the answer to a request. *)
TypeOf(op) ==
  CASE op = "get_airplanes" -> "atc_planes"
    [] op = "get_airports" -> "atc_airports"
    [] OTHER -> "atc_ack"
Typed(t, v) == [type |-> t, code |-> v.code, list |-> v.list, of |-> v.of]

(* Mutant: the number of planes is not put into the answer. *)
HandleUncounted ==
  /\ spc = "handle" /\ buf.op # "leave"
  /\ \E v \in Outcome(buf) :
       /\ log' = Append(log, v)
       /\ sres' = Typed(TypeOf(buf.op), [v EXCEPT !.list = << >>])
  /\ spc' = "header"
  /\ sent' = 0
  /\ UNCHANGED <<client, toSrv, toCli, buf, received>>

(* reply_handler, for a request that calls a function of ATCD: its -1 goes *)
(* into the code, in the answer to get_airplanes too, which has none.      *)
Handle ==
  /\ spc = "handle" /\ buf.op # "leave"
  /\ \E v \in Outcome(buf) :
       /\ log' = Append(log, v)
       /\ sres' = Typed(TypeOf(buf.op), v)
  /\ spc' = "header"
  /\ sent' = 0
  /\ UNCHANGED <<client, toSrv, toCli, buf, received>>

(* Mutant: a good-bye is not answered. *)
HandleLeaveUnanswered ==
  /\ spc = "handle" /\ buf.op = "leave"
  /\ spc' = "closed"
  /\ UNCHANGED <<client, toSrv, toCli, buf, received, sres, sent, log>>

(* The good-bye is answered with a -1. *)
HandleLeave ==
  /\ spc = "handle" /\ buf.op = "leave"
  /\ sres' = Typed("atc_ack", Code(buf.id, -1))
  /\ spc' = "header"
  /\ sent' = 0
  /\ UNCHANGED <<client, toSrv, toCli, buf, received, log>>

(* The loop of listen_child_channels goes on unless atc_reply returned -1. *)
AfterReply == IF buf.op = "leave" \/ received = "error" THEN "closed" ELSE "recv"

(* What is written to a client that is gone is lost. *)
Write(m) == toCli' = IF Connected THEN Append(toCli, m) ELSE toCli

(* _atc_write_response. *)
WriteHeader ==
  /\ spc = "header"
  /\ Write(Header(sres.type,
                  IF sres.type = "atc_ack" THEN sres.code ELSE Len(sres.list),
                  sres.of))
  /\ spc' = IF sres.list = << >> THEN AfterReply ELSE "records"
  /\ UNCHANGED <<client, toSrv, buf, received, sres, sent, log>>

WriteRecord ==
  /\ spc = "records"
  /\ Write(Record(sres.list[sent + 1]))
  /\ sent' = sent + 1
  /\ spc' = IF sent' = Len(sres.list) THEN AfterReply ELSE "records"
  /\ UNCHANGED <<client, toSrv, buf, received, sres, log>>

(* A write to a client that is gone fails, which is ignored, or kills the  *)
(* process (SIGPIPE).                                                      *)
WriteFails ==
  /\ spc \in {"header", "records"} /\ ~Connected
  /\ spc' \in {AfterReply, "killed"}
  /\ UNCHANGED <<client, toSrv, toCli, buf, received, sres, sent, log>>

-----------------------------------------------------------------------------

ClientReads == ReadHeader \/ ReadRecord
Server ==
  \/ RecvRequest \/ RecvNothing \/ Handle \/ HandleLeave
  \/ WriteHeader \/ WriteRecord \/ WriteFails

Next ==
  \/ \E op \in Op : Call(op)
  \/ Refuse \/ ClientReads \/ Resize \/ Interrupt \/ Crash \/ Server

Spec == Init /\ [][Next]_vars

(* Neither end stops between two reads or writes. *)
FairSpec == Spec /\ WF_vars(ClientReads) /\ WF_vars(Server)

-----------------------------------------------------------------------------
(* Properties                                                              *)

(* As long as no call was cut short and no client killed, and except while *)
(* the answer of a get_airplanes that failed is on its way, the messages   *)
(* implement Calls: "Re-implements the _ATCD_ functions as proxy calls to  *)
(* the API" (README.md:42).  What those three break is the subject of the  *)
(* properties below.                                                       *)
Waiting == ~leaving /\ cpc \in {"header", "records"}
Promise == INSTANCE Calls WITH
  caller <- IF leaving THEN "gone" ELSE IF Waiting THEN "waiting" ELSE "idle",
  jobs <- IF spc = "handle" THEN <<buf>> \o toSrv ELSE toSrv,
  value <- IF Waiting /\ log # << >> /\ log[Len(log)].of = calls
             THEN log[Len(log)] ELSE None
Calm ==
  /\ resizes = 0 /\ cpc # "killed"
  /\ ~(sres.type = "atc_planes" /\ sres.code = -1)
ImplementsCalls == Promise!Init /\ [][Calm' => Promise!Next]_(Promise!vars)

(* A call ends, and a client that says good-bye gets away: no two ends     *)
(* wait for each other.                                                    *)
CallsEnd == (cpc \in {"header", "records"}) ~> (cpc \in {"idle", "left", "killed"})

(* Answers are read in the order of the calls.  Every call that was cut    *)
(* short leaves one answer unread, and from then on each call returns the  *)
(* answer of as many calls before.                                         *)
AnswersLag == cpc = "idle" => res.of = calls - resizes

(* The server carries out the calls in their order and none twice, as long *)
(* as the client is there; when it is gone without a good-bye the last one *)
(* is repeated, and no other.                                              *)
OnlyTheLastIsRepeated ==
  \A j \in 2..Len(log) :
    \/ log[j].of = log[j - 1].of + 1
    \/ log[j].of = log[j - 1].of /\ cpc = "killed"

(* "Returns the amount of planes flying currently [...] or -1 if there was *)
(* an error" (atcd.c:242): the proxy returns 0 planes instead.             *)
ErrorsAreReported ==
  \A j \in 1..Len(log) :
    (cpc = "idle" /\ answer.of = log[j].of /\ log[j].code = -1) => answer.code = -1

=============================================================================
