------------------------------ MODULE ItchStream ------------------------------
(***************************************************************************)
(* What the producer of itch_replay makes of a file, without buffers: the  *)
(* decoder is given all that is left of the file, again and again, and     *)
(* each event it completes is delivered, until it completes none.  Only a  *)
(* file that ends right behind a message has ended well.                   *)
(***************************************************************************)
EXTENDS ItchDecoder

VARIABLES
  file,     \* the bytes that can be read
  ending,   \* what comes after them
  taken,    \* the number of bytes delivered as events
  events,   \* the events delivered
  outcome   \* "reading", "end of file" or "failed"

vars == <<file, ending, taken, events, outcome>>

Init ==
  /\ file \in Seq(Byte) /\ ending \in {"end of file", "read error", "truncated gzip"}
  /\ taken = 0 /\ events = <<>> /\ outcome = "reading"

Rest == SubSeq(file, taken + 1, Len(file))

Deliver ==
  /\ outcome = "reading"
  /\ LET result == decode_next(Rest)
     IN /\ result.status = "Complete"
        /\ events' = Append(events, result.event)
        /\ taken' = taken + result.bytes_consumed
  /\ UNCHANGED <<file, ending, outcome>>

EndsWell == Rest = <<>> /\ ending # "read error"

Stop ==
  /\ outcome = "reading"
  /\ decode_next(Rest).status # "Complete"
  /\ outcome' = IF EndsWell THEN "end of file" ELSE "failed"
  /\ UNCHANGED <<file, ending, taken, events>>

Next == Deliver \/ Stop

Spec == Init /\ [][Next]_vars
=============================================================================
