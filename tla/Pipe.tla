-------------------------------- MODULE Pipe --------------------------------
(***************************************************************************)
(* What one direction of a connection promises: the bytes come out in the  *)
(* order in which they were put in, none is lost, repeated or made up, and *)
(* no more than ZONE_SIZE are on their way.  A call that is cut short      *)
(* leaves what it has put, or taken, as it is.                             *)
(***************************************************************************)
EXTENDS Zone

VARIABLES
  queue,   \* the bytes on their way
  out,     \* what the writer has still to put
  in       \* what the reader has taken in its last call

vars == <<queue, out, in>>

Init == queue = << >> /\ out = << >> /\ in = << >>

Send ==
  /\ out = << >>
  /\ out' \in Seq(Byte)
  /\ UNCHANGED <<queue, in>>

Recv ==
  /\ in' = << >>
  /\ UNCHANGED <<queue, out>>

Put ==
  /\ out # << >> /\ Len(queue) < ZONE_SIZE
  /\ queue' = Append(queue, Head(out))
  /\ out' = Tail(out)
  /\ UNCHANGED in

Get ==
  /\ queue # << >>
  /\ in' = Append(in, Head(queue))
  /\ queue' = Tail(queue)
  /\ UNCHANGED out

GiveUp ==
  /\ out' = << >>
  /\ UNCHANGED <<queue, in>>

Next == Send \/ Recv \/ Put \/ Get \/ GiveUp

Spec == Init /\ [][Next]_vars

=============================================================================
