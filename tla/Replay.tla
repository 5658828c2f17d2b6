------------------------------- MODULE Replay -------------------------------
(***************************************************************************)
(* The two threads of itch_replay (src/app/itch_replay.cpp:289-402).  The  *)
(* producer reads frames, decodes them and pushes the events to the ring;  *)
(* main() pops them and applies them to the engine until the producer is   *)
(* done and the ring is empty.                                             *)
(*                                                                         *)
(* SpscRing.tla shows what one call on the ring does to its slots.  Here a *)
(* call is one step, and what is kept of the ring is what the two threads  *)
(* can see of each other: a load of an index, or of producer_done, may     *)
(* return a store older than the last one, but none older than those the   *)
(* thread has seen or was brought by an acquire load.  An item is the      *)
(* position of its frame in the file.                                      *)
(***************************************************************************)
EXTENDS Integers, Sequences

CONSTANTS
  Capacity,       \* --ring-capacity
  FailOnReject,   \* --fail-on-reject
  MaxFrames       \* bound on the length of the file

ASSUME ReplayAssumption ==
  Capacity \in Nat \ {0} /\ FailOnReject \in BOOLEAN /\ MaxFrames \in Nat

VARIABLES
  file,             \* what next_frame and decode_next make of each frame
  pushed, popped,   \* the items ever pushed; how many of them were popped
  producer,         \* its pc, next frame, local queued, and popped as it saw it
  producer_done, producer_failed,
  consumer,         \* main(): pc, queued, the number pushed and done as it saw them
  applied,          \* the items applied, in order
  rejected,         \* stats.rejected # 0
  status            \* the exit status, "aborted", or "running"

vars == <<file, pushed, popped, producer, producer_done, producer_failed,
          consumer, applied, rejected, status>>

Frame == {"message", "undecodable", "torn"}

\* An event whose contents have been moved away.
Moved == 0

Init ==
  /\ file \in UNION {[1..n -> Frame] : n \in 0..MaxFrames}
  /\ pushed = <<>> /\ popped = 0
  /\ producer = [pc |-> "read", next |-> 1, queued |-> Moved, seen |-> 0]
  /\ producer_done = FALSE /\ producer_failed = FALSE
  /\ consumer = [pc |-> "test done", queued |-> Moved, seen |-> 0, knows_done |-> FALSE]
  /\ applied = <<>> /\ rejected = FALSE /\ status = "running"

-----------------------------------------------------------------------------
(* The producer thread.                                                    *)

\* next_frame and decode_next; the first failure ends the thread.
ReadFrame ==
  /\ producer.pc = "read"
  /\ \/ /\ producer.next > Len(file)
        /\ producer' = [producer EXCEPT !.pc = "finish"]
        /\ UNCHANGED producer_failed
     \/ /\ producer.next <= Len(file) /\ file[producer.next] # "message"
        /\ producer' = [producer EXCEPT !.pc = "finish"]
        /\ producer_failed' = TRUE
     \/ /\ producer.next <= Len(file) /\ file[producer.next] = "message"
        /\ producer' = [producer EXCEPT !.pc = "push", !.queued = producer.next]
        /\ UNCHANGED producer_failed
  /\ UNCHANGED <<file, pushed, popped, producer_done, consumer, applied, rejected, status>>

\* One slot too many.
Full_late(read) == Len(pushed) - read > Capacity

Full(read) == Len(pushed) - read = Capacity

\* A refused push that has moved the event out of the producer's local.
Refused_moves(p) == [p EXCEPT !.queued = Moved]

\* A refused push leaves the event where it was, for the retry.
Refused(p) == p

\* One try_push; a refused one is retried after a yield.
TryPush ==
  /\ producer.pc = "push"
  /\ \E read \in producer.seen..popped :
       \/ /\ Full(read)
          /\ producer' = [Refused(producer) EXCEPT !.seen = read]
          /\ UNCHANGED pushed
       \/ /\ ~Full(read)
          /\ pushed' = Append(pushed, producer.queued)
          /\ producer' = [producer EXCEPT !.pc = "read", !.next = @ + 1,
                                          !.queued = Moved, !.seen = read]
  /\ UNCHANGED <<file, popped, producer_done, producer_failed, consumer, applied,
                 rejected, status>>

\* A thread that leaves without a word after a failure.
StoreDone_unless_failed ==
  /\ producer.pc = "finish"
  /\ producer' = [producer EXCEPT !.pc = "finished"]
  /\ producer_done' = ~producer_failed
  /\ UNCHANGED <<file, pushed, popped, producer_failed, consumer, applied, rejected, status>>

StoreDone ==
  /\ producer.pc = "finish"
  /\ producer' = [producer EXCEPT !.pc = "finished"]
  /\ producer_done' = TRUE
  /\ UNCHANGED <<file, pushed, popped, producer_failed, consumer, applied, rejected, status>>

-----------------------------------------------------------------------------
(* The loop of main().                                                     *)

\* A flag that is loaded relaxed brings nothing along.
AcquireDone_relaxed(c) == c

\* The pushes come along with the flag that was stored after them.
AcquireDone(c) == [c EXCEPT !.seen = Len(pushed)]

\* !producer_done.load(): a thread that has seen the flag set keeps seeing it.
TestDone ==
  /\ consumer.pc = "test done"
  /\ \/ /\ ~consumer.knows_done
        /\ consumer' = [consumer EXCEPT !.pc = "pop"]
     \/ /\ producer_done
        /\ consumer' = [AcquireDone(consumer) EXCEPT !.pc = "test empty", !.knows_done = TRUE]
  /\ UNCHANGED <<file, pushed, popped, producer, producer_done, producer_failed,
                 applied, rejected, status>>

\* !queue.empty(), looked at only once the flag is set.
TestEmpty ==
  /\ consumer.pc = "test empty"
  /\ \E write \in consumer.seen..Len(pushed) :
       consumer' = [consumer EXCEPT !.seen = write,
                                    !.pc = IF write = popped THEN "join" ELSE "pop"]
  /\ UNCHANGED <<file, pushed, popped, producer, producer_done, producer_failed,
                 applied, rejected, status>>

TryPop ==
  /\ consumer.pc = "pop"
  /\ \E write \in consumer.seen..Len(pushed) :
       \/ /\ write = popped
          /\ consumer' = [consumer EXCEPT !.seen = write, !.pc = "test done"]
          /\ UNCHANGED popped
       \/ /\ write # popped
          /\ popped' = popped + 1
          /\ consumer' = [consumer EXCEPT !.seen = write, !.pc = "apply",
                                          !.queued = pushed[popped']]
  /\ UNCHANGED <<file, pushed, producer, producer_done, producer_failed, applied,
                 rejected, status>>

\* engine.apply(), and what is recorded of its latency.
Apply ==
  /\ consumer.pc = "apply"
  /\ applied' = Append(applied, consumer.queued)
  /\ rejected' \in {rejected, TRUE}
  /\ consumer' = [consumer EXCEPT !.pc = "test done"]
  /\ UNCHANGED <<file, pushed, popped, producer, producer_done, producer_failed, status>>

\* producer.join() and the exit status.
JoinAndExit ==
  /\ consumer.pc = "join" /\ producer.pc = "finished"
  /\ consumer' = [consumer EXCEPT !.pc = "exited"]
  /\ status' = IF producer_failed \/ (FailOnReject /\ rejected) THEN "failure" ELSE "success"
  /\ UNCHANGED <<file, pushed, popped, producer, producer_done, producer_failed,
                 applied, rejected>>

-----------------------------------------------------------------------------

\* An exception that leaves the producer's function (the buffer of a frame
\* cannot be had), or leaves main() while it applies a message and the producer
\* is joinable: std::terminate ends the process where it stands.
Terminate ==
  /\ status = "running"
  /\ producer.pc = "read" \/ consumer.pc = "apply"
  /\ status' = "aborted"
  /\ UNCHANGED <<file, pushed, popped, producer, producer_done, producer_failed, consumer,
                 applied, rejected>>

Alive == status # "aborted"

ProducerStep == Alive /\ (ReadFrame \/ TryPush \/ StoreDone)
ConsumerStep == Alive /\ (TestDone \/ TestEmpty \/ TryPop \/ Apply \/ JoinAndExit)

Next == ProducerStep \/ ConsumerStep \/ Terminate

\* Both threads are scheduled, and a store becomes visible in finite time
\* ([atomics.order]): main() does not read an old producer_done, or an old
\* write index, for ever.
Fairness ==
  /\ WF_vars(ProducerStep) /\ WF_vars(ConsumerStep)
  /\ SF_vars(Alive /\ TestDone /\ consumer'.knows_done)
  /\ SF_vars(Alive /\ TryPop /\ popped' # popped)

Spec == Init /\ [][Next]_vars

FairSpec == Spec /\ Fairness

-----------------------------------------------------------------------------
(* Properties.                                                             *)

\* Neither thread ever believes the other to be ahead of where it is.
TypeOK ==
  /\ file \in Seq(Frame)
  /\ pushed \in Seq(1..MaxFrames) /\ popped \in 0..Len(pushed)
  /\ producer \in [pc : {"read", "push", "finish", "finished"}, next : 1..MaxFrames+1,
                   queued : 0..MaxFrames, seen : 0..popped]
  /\ producer_done \in BOOLEAN /\ producer_failed \in BOOLEAN
  /\ consumer \in [pc : {"test done", "test empty", "pop", "apply", "join", "exited"},
                   queued : 0..MaxFrames, seen : popped..Len(pushed), knows_done : BOOLEAN]
  /\ applied \in Seq(1..MaxFrames) /\ rejected \in BOOLEAN
  /\ status \in {"running", "success", "failure", "aborted"}

\* However old the read index the producer looks at, the ring never holds
\* more than its capacity.
RingBounded == Len(pushed) - popped <= Capacity

Sequential == INSTANCE SequentialReplay

\* The pipeline applies what a single thread would have applied: every message
\* before the first broken frame, once, in the order of the file, the ones
\* still in the ring when the producer stops included; only then does it exit,
\* and with the right status.  A process that is aborted has applied a prefix
\* of that, and has not reported success.
ImplementsSequentialReplay == Sequential!Spec

\* The program exits, whether the file ends well or badly: neither thread is
\* left waiting for the other.
Exits == <>(status # "running")
=============================================================================
