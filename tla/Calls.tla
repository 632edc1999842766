-------------------------------- MODULE Calls --------------------------------
(***************************************************************************)
(* What the proxies of cli.c promise: a call of a client is a call of the  *)
(* function of ATCD.  Each call is carried out once, in the order of the   *)
(* calls, and returns what that function returned for this very call.  A   *)
(* client that is interrupted leaves, whatever it was waiting for; what it *)
(* had asked for may still be carried out.                                 *)
(***************************************************************************)
EXTENDS Requests

CONSTANTS
  None,      \* no value yet
  MaxCalls   \* bound: how many calls the client makes

VARIABLES
  caller,   \* the client: "idle", "waiting" or "gone"
  calls,    \* how many calls it has made
  jobs,     \* the calls not carried out yet
  value,    \* what the call it waits for returned, or None
  answer    \* what its last finished call returned

vars == <<caller, calls, jobs, value, answer>>

Init ==
  /\ caller = "idle"
  /\ calls = 0
  /\ jobs = << >>
  /\ value = None
  /\ answer = Code(0, 0)

Call(op) ==
  /\ caller = "idle" /\ calls < MaxCalls
  /\ caller' = "waiting"
  /\ calls' = calls + 1
  /\ jobs' = Append(jobs, [op |-> op, id |-> calls'])
  /\ UNCHANGED <<value, answer>>

(* A command that is none is refused by the proxy itself. *)
Refuse ==
  /\ caller = "idle"
  /\ answer' = Code(calls, -1)
  /\ UNCHANGED <<caller, calls, jobs, value>>

Execute ==
  /\ jobs # << >>
  /\ jobs' = Tail(jobs)
  /\ \E v \in Outcome(Head(jobs)) :
       value' = IF caller = "waiting" /\ v.of = calls THEN v ELSE value
  /\ UNCHANGED <<caller, calls, answer>>

Return ==
  /\ caller = "waiting" /\ value # None
  /\ caller' = "idle"
  /\ answer' = value
  /\ value' = None
  /\ UNCHANGED <<calls, jobs>>

Leave ==
  /\ caller # "gone"
  /\ caller' = "gone"
  /\ calls' = calls + 1
  /\ jobs' = Append(jobs, [op |-> "leave", id |-> calls'])
  /\ value' = None
  /\ UNCHANGED answer

Next == (\E op \in Op : Call(op)) \/ Refuse \/ Execute \/ Return \/ Leave

Spec == Init /\ [][Next]_vars

=============================================================================
