---------------------------- MODULE ShmemSession ----------------------------
(***************************************************************************)
(* A client and the server process that serves it, over shared memory, a   *)
(* semaphore operation at a time: the requests in one ring, the answers in *)
(* the other (transport/shmem/shmem.c), and of cli.c and proto.c what is   *)
(* sent and read.  A request and a record take MSG bytes, a header HDR; of *)
(* its bytes the first one says what it is, and of which call.             *)
(*                                                                         *)
(* The client may be interrupted in the middle of a call (SIGINT, which    *)
(* says good-bye, or a resized terminal), and both ends may be killed.     *)
(* When both are gone the server may be started again: it counts its ports *)
(* from 0 once more, and finds the semaphores of the last session on that  *)
(* port, which nobody has unlinked, with the counts that they had.         *)
(***************************************************************************)
EXTENDS Zone, FiniteSets

CONSTANTS
  HDR,           \* ATCP_HEADER_LEN
  MSG,           \* ATCP_MSG_LEN
  MaxCalls,      \* bound: how many requests are made
  MaxFaults,     \* bound: how many waits a resized terminal cuts short, and
                 \* how often an end is killed
  MaxSessions    \* bound: how often the server is started

ASSUME SessionAssumption ==
  /\ HDR \in Nat \ {0} /\ MSG \in Nat \ {0}
  /\ {MaxCalls, MaxFaults} \subseteq Nat /\ MaxSessions \in Nat \ {0}

VARIABLES
  \* the ring at CLI_BASE, that the client writes and the server reads
  zone_cli, available_cli, free_cli, wr_cli, wpc_cli, out_cli,
  rd_cli, rpc_cli, want_cli, in_cli, drift_cli,
  \* the ring at SRV_BASE
  zone_srv, available_srv, free_srv, wr_srv, wpc_srv, out_srv,
  rd_srv, rpc_srv, want_srv, in_srv, drift_srv,
  \* the client
  cpc,        \* "idle"; in a call: "send", "header", "records"; "handler"
              \* before the good-bye; "left" or "killed"
  leaving,    \* its SIGINT handler runs
  calls,      \* how many requests were made
  res,        \* which call the last header was for
  records,    \* how many records it has still to read
  \* the server
  spc,        \* "recv", "reading", "writing", "closed" or "killed"
  req,        \* the first byte of the last request
  unsent,     \* how many records it has still to write
  \* the environment
  session,    \* how often the server was started
  faults,     \* how many there were
  orderly     \* history: every call that was begun was finished, so far

toSrvVars == <<zone_cli, available_cli, free_cli, wr_cli, wpc_cli, out_cli,
               rd_cli, rpc_cli, want_cli, in_cli, drift_cli>>
toCliVars == <<zone_srv, available_srv, free_srv, wr_srv, wpc_srv, out_srv,
               rd_srv, rpc_srv, want_srv, in_srv, drift_srv>>
client == <<cpc, leaving, calls, res, records>>
server == <<spc, req, unsent>>
env == <<session, faults, orderly>>
vars == <<toSrvVars, toCliVars, client, server, env>>

ToSrv == INSTANCE Ring WITH
  zone <- zone_cli, available <- available_cli, free <- free_cli,
  wr <- wr_cli, wpc <- wpc_cli, out <- out_cli,
  rd <- rd_cli, rpc <- rpc_cli, want <- want_cli, in <- in_cli, drift <- drift_cli
ToCli == INSTANCE Ring WITH
  zone <- zone_srv, available <- available_srv, free <- free_srv,
  wr <- wr_srv, wpc <- wpc_srv, out <- out_srv,
  rd <- rd_srv, rpc <- rpc_srv, want <- want_srv, in <- in_srv, drift <- drift_srv

-----------------------------------------------------------------------------
(* Messages *)

Rest == <<"rest", 0>>
Message(kind, id, n) == <<<<kind, id>>>> \o [i \in 1..(n - 1) |-> Rest]

(* "list" stands for get_airplanes and get_airports, whose answers have     *)
(* records (one, or none), "plain" for the requests that are answered with  *)
(* a number, the good-bye, "leave", among them.                             *)
Requests == {"list", "plain"}
Kinds == Requests \cup {"leave", "ack", "empty", "listed", "record"}
MaxId == MaxCalls + MaxSessions
Bytes == (Kinds \X (0..MaxId)) \cup {Rest}

ASSUME ByteAssumption == Bytes \subseteq Byte

Gone(pc) == pc \in {"left", "closed", "killed"}

TypeOK ==
  /\ ToSrv!TypeOK /\ ToCli!TypeOK
  /\ cpc \in {"idle", "send", "header", "records", "handler", "left", "killed"}
  /\ leaving \in BOOLEAN
  /\ calls \in 0..MaxId
  /\ res \in 0..MaxId
  /\ records \in 0..1
  /\ spc \in {"recv", "reading", "writing", "closed", "killed"}
  /\ req \in Byte
  /\ unsent \in 0..1
  /\ session \in 1..MaxSessions
  /\ faults \in 0..MaxFaults
  /\ orderly \in BOOLEAN

(* What shm_open makes is filled with zeros. *)
Init ==
  /\ zone_cli = [i \in ToSrv!Index |-> Rest]
  /\ zone_srv = [i \in ToCli!Index |-> Rest]
  /\ ToSrv!Init /\ ToCli!Init
  /\ cpc = "idle" /\ leaving = FALSE /\ calls = 0 /\ res = 0 /\ records = 0
  /\ spc = "recv" /\ req = Rest /\ unsent = 0
  /\ session = 1 /\ faults = 0 /\ orderly = TRUE

-----------------------------------------------------------------------------
(* The client *)

(* atc_request sends a message. *)
Request(kind) ==
  /\ calls' = calls + 1
  /\ ToSrv!Send(Message(kind, calls', MSG))
  /\ cpc' = "send"
  /\ UNCHANGED <<toCliVars, leaving, res, records, server, env>>

Call(kind) == cpc = "idle" /\ calls < MaxCalls /\ Request(kind)
SayGoodBye == cpc = "handler" /\ Request("leave")

SendStep ==
  /\ cpc = "send"
  /\ ToSrv!Sending
  /\ UNCHANGED <<toCliVars, client, server, env>>

(* _atc_read_response, up to its first transport_recv. *)
AwaitHeader ==
  /\ cpc = "send" /\ wpc_cli = "idle"
  /\ ToCli!Recv(HDR)
  /\ cpc' = "header"
  /\ UNCHANGED <<toSrvVars, leaving, calls, res, records, server, env>>

RecvStep ==
  /\ cpc \in {"header", "records"}
  /\ ToCli!Receiving
  /\ UNCHANGED <<toSrvVars, client, server, env>>

Finish == cpc' = IF leaving THEN "left" ELSE "idle"

(* Mutant: a list without records is no answer. *)
TakeHeaderNonEmpty ==
  /\ cpc = "header" /\ rpc_srv = "idle"
  /\ res' = IF in_srv[1][1] \in {"ack", "listed"} THEN in_srv[1][2] ELSE res
  /\ IF in_srv[1][1] = "listed"
       THEN cpc' = "records" /\ records' = 1 /\ ToCli!Recv(MSG)
       ELSE Finish /\ UNCHANGED <<records, toCliVars>>
  /\ UNCHANGED <<toSrvVars, leaving, calls, server, env>>

(* What is no header is not looked at any further. *)
TakeHeader ==
  /\ cpc = "header" /\ rpc_srv = "idle"
  /\ res' = IF in_srv[1][1] \in {"ack", "empty", "listed"} THEN in_srv[1][2] ELSE res
  /\ IF in_srv[1][1] = "listed"
       THEN cpc' = "records" /\ records' = 1 /\ ToCli!Recv(MSG)
       ELSE Finish /\ UNCHANGED <<records, toCliVars>>
  /\ UNCHANGED <<toSrvVars, leaving, calls, server, env>>

TakeRecord ==
  /\ cpc = "records" /\ rpc_srv = "idle"
  /\ records' = records - 1
  /\ Finish
  /\ UNCHANGED <<toSrvVars, toCliVars, leaving, calls, res, server, env>>

(* What the client was sending or receiving is left as it is. *)
CutClient ==
  /\ IF wpc_cli = "idle" THEN UNCHANGED toSrvVars ELSE ToSrv!CutSend
  /\ IF rpc_srv = "idle" THEN UNCHANGED toCliVars ELSE ToCli!CutRecv

(* cli_sigint_handler, in the middle of whatever the client does.  It does  *)
(* not come back, and SIGINT waits as long as it runs.                      *)
Interrupt ==
  /\ ~leaving /\ ~Gone(cpc)
  /\ leaving' = TRUE
  /\ cpc' = "handler"
  /\ CutClient
  /\ records' = 0
  /\ orderly' = (orderly /\ cpc = "idle")
  /\ UNCHANGED <<calls, res, server, session, faults>>

(* SIGWINCH: a sem_wait that has to wait returns -1, and so does the call.  *)
Resize ==
  /\ faults < MaxFaults
  /\ \/ wpc_cli = "wait" /\ free_cli = 0
     \/ rpc_srv = "wait" /\ available_srv = 0
  /\ faults' = faults + 1
  /\ CutClient
  /\ Finish
  /\ records' = 0
  /\ orderly' = FALSE
  /\ UNCHANGED <<leaving, calls, res, server, session>>

KillClient ==
  /\ ~Gone(cpc) /\ faults < MaxFaults
  /\ faults' = faults + 1
  /\ CutClient
  /\ cpc' = "killed"
  /\ orderly' = (orderly /\ cpc = "idle")
  /\ UNCHANGED <<leaving, calls, res, records, server, session>>

-----------------------------------------------------------------------------
(* The server *)

AwaitRequest ==
  /\ spc = "recv"
  /\ ToSrv!Recv(MSG)
  /\ spc' = "reading"
  /\ UNCHANGED <<toCliVars, client, req, unsent, env>>

ReadStep ==
  /\ spc = "reading"
  /\ ToSrv!Receiving
  /\ UNCHANGED <<toCliVars, client, server, env>>

(* Mutant: the good-bye is not answered. *)
HandleSilently ==
  /\ spc = "reading" /\ rpc_cli = "idle"
  /\ req' = in_cli[1]
  /\ spc' = "writing"
  /\ unsent' = 0
  /\ IF req'[1] = "leave" THEN UNCHANGED toCliVars
                          ELSE ToCli!Send(Message("ack", req'[2], HDR))
  /\ UNCHANGED <<toSrvVars, client, env>>

(* Mutant: one record more than the header says. *)
HandleUncounted ==
  /\ spc = "reading" /\ rpc_cli = "idle"
  /\ req' = in_cli[1]
  /\ spc' = "writing"
  /\ unsent' = IF req'[1] = "list" THEN 1 ELSE 0
  /\ ToCli!Send(Message("ack", req'[2], HDR))
  /\ UNCHANGED <<toSrvVars, client, env>>

(* reply_handler and the header of its answer.  What is no request is       *)
(* answered with a 0.                                                       *)
Handle ==
  /\ spc = "reading" /\ rpc_cli = "idle"
  /\ req' = in_cli[1]
  /\ spc' = "writing"
  /\ \E n \in IF req'[1] = "list" THEN 0..1 ELSE {0} :
       /\ unsent' = n
       /\ ToCli!Send(Message(IF req'[1] # "list" THEN "ack"
                             ELSE IF n = 0 THEN "empty" ELSE "listed", req'[2], HDR))
  /\ UNCHANGED <<toSrvVars, client, env>>

WriteStep ==
  /\ spc = "writing"
  /\ ToCli!Sending
  /\ UNCHANGED <<toSrvVars, client, server, env>>

WriteRecord ==
  /\ spc = "writing" /\ wpc_srv = "idle" /\ unsent > 0
  /\ ToCli!Send(Message("record", req[2], MSG))
  /\ unsent' = unsent - 1
  /\ UNCHANGED <<toSrvVars, client, spc, req, env>>

(* The loop of listen_child_channels, and _shm_close, which unlinks none of *)
(* the semaphores.                                                          *)
Replied ==
  /\ spc = "writing" /\ wpc_srv = "idle" /\ unsent = 0
  /\ spc' = IF req[1] = "leave" THEN "closed" ELSE "recv"
  /\ UNCHANGED <<toSrvVars, toCliVars, client, req, unsent, env>>

(* srv_sigint_handler exits, whatever the process was about to do. *)
KillServer ==
  /\ ~Gone(spc) /\ faults < MaxFaults
  /\ faults' = faults + 1
  /\ IF rpc_cli = "idle" THEN UNCHANGED toSrvVars ELSE ToSrv!CutRecv
  /\ IF wpc_srv = "idle" THEN UNCHANGED toCliVars ELSE ToCli!CutSend
  /\ spc' = "killed"
  /\ orderly' = (orderly /\ (cpc = "idle" \/ Gone(cpc)))
  /\ UNCHANGED <<client, req, unsent, session>>

-----------------------------------------------------------------------------
(* Another session on the same port *)

(* Mutant: a semaphore that is there is set to its first value, the other   *)
(* one is not.                                                              *)
RestartRefilled ==
  /\ Gone(cpc) /\ Gone(spc) /\ session < MaxSessions
  /\ session' = session + 1
  /\ wr_cli' = 0 /\ rd_cli' = 0 /\ wr_srv' = 0 /\ rd_srv' = 0
  /\ free_cli' = ZONE_SIZE /\ free_srv' = ZONE_SIZE
  /\ drift_cli' = 0 /\ drift_srv' = 0
  /\ cpc' = "idle" /\ leaving' = FALSE /\ records' = 0
  /\ spc' = "recv" /\ req' = Rest /\ unsent' = 0
  /\ UNCHANGED <<zone_cli, available_cli, wpc_cli, out_cli, rpc_cli, want_cli,
                 in_cli, zone_srv, available_srv, wpc_srv, out_srv, rpc_srv,
                 want_srv, in_srv, calls, res, faults, orderly>>

(* transport_accept and transport_connect set both indices of both ends to  *)
(* 0; sem_open(O_CREAT) leaves the value of a semaphore that is there.      *)
Restart ==
  /\ Gone(cpc) /\ Gone(spc) /\ session < MaxSessions
  /\ session' = session + 1
  /\ wr_cli' = 0 /\ rd_cli' = 0 /\ wr_srv' = 0 /\ rd_srv' = 0
  /\ drift_cli' = 0 /\ drift_srv' = 0
  /\ cpc' = "idle" /\ leaving' = FALSE /\ records' = 0
  /\ spc' = "recv" /\ req' = Rest /\ unsent' = 0
  /\ UNCHANGED <<zone_cli, available_cli, free_cli, wpc_cli, out_cli, rpc_cli,
                 want_cli, in_cli, zone_srv, available_srv, free_srv, wpc_srv,
                 out_srv, rpc_srv, want_srv, in_srv, calls, res, faults,
                 orderly>>

-----------------------------------------------------------------------------

Client ==
  SayGoodBye \/ SendStep \/ AwaitHeader \/ RecvStep \/ TakeHeader \/ TakeRecord
Server == AwaitRequest \/ ReadStep \/ Handle \/ WriteStep \/ WriteRecord \/ Replied

Next ==
  \/ \E kind \in Requests : Call(kind)
  \/ Client \/ Interrupt \/ Resize \/ KillClient
  \/ Server \/ KillServer \/ Restart

Spec == Init /\ [][Next]_vars

(* Neither end stops between two semaphore operations that it can make. *)
FairSpec == Spec /\ WF_vars(Client) /\ WF_vars(Server)

-----------------------------------------------------------------------------
(* Properties *)

(* The semaphores never count more bytes than the ring has, whatever was    *)
(* cut short and however often the server was started again (shmem.c:181,   *)
(* :212 and :119).                                                          *)
NoByteIsOverwritten == ToSrv!Credits /\ ToCli!Credits

(* The bytes of either direction come out as they went in: in the first     *)
(* session whatever is cut short, and as long as every call is finished in  *)
(* a session that finds the semaphores of an earlier one as well.           *)
Within(step) == (session' = session /\ (session = 1 \/ orderly')) => step
BytesComeInOrder ==
  /\ [][Within(ToSrv!P!Next)]_(ToSrv!P!vars)
  /\ [][Within(ToCli!P!Next)]_(ToCli!P!vars)

(* Between two calls neither ring holds a byte nor lacks a credit: nothing  *)
(* leaks from a call into a later one, or into a later session.             *)
NothingIsLeftBehind ==
  (orderly /\ cpc = "idle") =>
    /\ available_cli = 0 /\ available_srv = 0
    /\ free_cli = ZONE_SIZE /\ free_srv = ZONE_SIZE

(* As long as every call is finished, a call reads the answer that the      *)
(* server gave to this call, and the server has carried out no other since. *)
OwnAnswer ==
  (orderly /\ cpc = "idle" /\ req # Rest) => (res = calls /\ req[2] = calls)

(* A message does not fit the ring, and yet it gets through: every call,    *)
(* and the good-bye, ends, unless the server is killed.                     *)
CallsEnd ==
  (orderly /\ cpc \in {"send", "header", "records", "handler"}) ~>
    (cpc \in {"idle", "left", "killed"} \/ spc = "killed" \/ ~orderly)

(* "We're cheating here by using a msg-sized buffer" (shmem.c:16): with     *)
(* room for a whole message the good-bye would always find a place.  The    *)
(* two ends never wait for each other to read.                              *)
NeverBothStuck ==
  ~(wpc_cli = "wait" /\ free_cli = 0 /\ wpc_srv = "wait" /\ free_srv = 0)

=============================================================================
