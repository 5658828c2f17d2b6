-------------------------- MODULE SequentialReplay --------------------------
(***************************************************************************)
(* What itch_replay promises, without threads: the messages of the file up *)
(* to the first frame that cannot be read or decoded are applied to the    *)
(* engine one by one, each once and in the order of the file, and then the *)
(* program exits with the status that the file and the rejections call     *)
(* for.                                                                    *)
(***************************************************************************)
EXTENDS Naturals, Sequences

CONSTANT FailOnReject

VARIABLES
  file,      \* what becomes of each frame: "message", or how it is broken
  applied,   \* the positions of the frames applied
  rejected,  \* some were rejected
  status     \* the exit status, "aborted", or "running"

vars == <<file, applied, rejected, status>>

Init ==
  /\ file \in Seq({"message", "undecodable", "torn"})
  /\ applied = <<>> /\ rejected = FALSE /\ status = "running"

Position == Len(applied) + 1

HasNext == Position \in DOMAIN file /\ file[Position] = "message"

Apply ==
  /\ status = "running" /\ HasNext
  /\ applied' = Append(applied, Position)
  /\ rejected' \in {rejected, TRUE}
  /\ UNCHANGED <<file, status>>

Succeeds == Position > Len(file) /\ ~(FailOnReject /\ rejected)

Exit ==
  /\ status = "running" /\ ~HasNext
  /\ status' = IF Succeeds THEN "success" ELSE "failure"
  /\ UNCHANGED <<file, applied, rejected>>

\* The process may die at any time before it exits.
Abort ==
  /\ status = "running"
  /\ status' = "aborted"
  /\ UNCHANGED <<file, applied, rejected>>

Next == Apply \/ Exit \/ Abort

Spec == Init /\ [][Next]_vars
=============================================================================
