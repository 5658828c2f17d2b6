---------------------------- MODULE ReplayProofs ----------------------------
(***************************************************************************)
(* The pipeline implements the sequential replay, for every file, every    *)
(* capacity of the ring and whatever old values the threads read.          *)
(***************************************************************************)
EXTENDS Replay, TLAPS

-----------------------------------------------------------------------------
(* The inductive invariant.                                                *)

ProducerStates ==
  [pc : {"read", "push", "finish", "finished"}, next : Nat, queued : 0..MaxFrames, seen : Nat]

ConsumerStates ==
  [pc : {"test done", "test empty", "pop", "apply", "join", "exited"},
   queued : 0..MaxFrames, seen : Nat, knows_done : BOOLEAN]

Types ==
  /\ file \in Seq(Frame) /\ Len(file) <= MaxFrames
  /\ pushed \in Seq(1..MaxFrames) /\ popped \in Nat
  /\ producer \in ProducerStates /\ producer_done \in BOOLEAN /\ producer_failed \in BOOLEAN
  /\ consumer \in ConsumerStates
  /\ applied \in Seq(1..MaxFrames) /\ rejected \in BOOLEAN
  /\ status \in {"running", "success", "failure", "aborted"}

\* What is pushed is the file so far, frame by frame.
Pushes ==
  /\ Len(pushed) + 1 = producer.next /\ Len(pushed) <= Len(file)
  /\ \A i \in 1..Len(pushed) : pushed[i] = i /\ file[i] = "message"

AtMessage == producer.next <= Len(file) /\ file[producer.next] = "message"

AtEnd == producer.next > Len(file)

\* Where the producer stands in the file, and why it stopped.
Produces ==
  /\ producer.pc \in {"read", "push"} => ~producer_failed
  /\ producer.pc = "push" => AtMessage /\ producer.queued = producer.next
  /\ producer.pc \in {"finish", "finished"} => ~AtMessage /\ (producer_failed <=> ~AtEnd)
  /\ producer_done => producer.pc = "finished"

\* Nobody sees more than there is, and the ring is not over-full even as the
\* producer sees it.
Views ==
  /\ producer.seen <= popped /\ popped <= consumer.seen /\ consumer.seen <= Len(pushed)
  /\ Len(pushed) <= producer.seen + Capacity

\* Once main() has seen the flag it sees everything that was pushed.
Knows == consumer.knows_done => producer_done /\ consumer.seen = Len(pushed)

\* What main() has applied is what it has popped, but for the event in hand.
Consumes ==
  /\ consumer.pc = "apply" => consumer.queued = popped /\ Len(applied) + 1 = popped
  /\ consumer.pc # "apply" => Len(applied) = popped

\* main() leaves the loop only when it knows that nothing is left.
Leaves ==
  /\ consumer.pc \in {"test empty", "join", "exited"} => consumer.knows_done
  /\ consumer.pc \in {"join", "exited"} => popped = Len(pushed)
  /\ status = "running" => consumer.pc # "exited"
  /\ status \in {"success", "failure"} => consumer.pc = "exited"

Inv == Types /\ Pushes /\ Produces /\ Views /\ Knows /\ Consumes /\ Leaves

-----------------------------------------------------------------------------
(* What the invariant says, fact by fact.                                  *)

LEMMA Lengths ==
  ASSUME NEW S, NEW q \in Seq(S)
  PROVE  Len(q) \in Nat
OBVIOUS

LEMMA Members ==
  ASSUME NEW S, NEW q \in Seq(S), NEW i \in 1..Len(q)
  PROVE  q[i] \in S
OBVIOUS

LEMMA Numbers ==
  ASSUME Types
  PROVE  /\ Len(file) \in Nat /\ Len(pushed) \in Nat /\ Len(applied) \in Nat /\ popped \in Nat
         /\ producer.next \in Nat /\ producer.seen \in Nat /\ consumer.seen \in Nat
         /\ MaxFrames \in Nat /\ Capacity \in Nat
<1>1. /\ file \in Seq(Frame) /\ pushed \in Seq(1..MaxFrames) /\ applied \in Seq(1..MaxFrames)
      /\ popped \in Nat
  BY DEF Types
<1>2. producer.next \in Nat /\ producer.seen \in Nat /\ consumer.seen \in Nat
  BY DEF Types, ProducerStates, ConsumerStates
<1>3. MaxFrames \in Nat /\ Capacity \in Nat
  BY ReplayAssumption
<1> QED
  BY <1>1, <1>2, <1>3, Lengths

\* Pushes, Produces and the producer's view only look at the file, the ring
\* and the producer.
LEMMA ProducerUntouched ==
  ASSUME Pushes, Produces, UNCHANGED <<file, pushed, producer, producer_done, producer_failed>>
  PROVE  Pushes' /\ Produces'
BY DEF Pushes, Produces, AtMessage, AtEnd

LEMMA ConsumerUntouched ==
  ASSUME Consumes, UNCHANGED <<popped, consumer, applied>>
  PROVE  Consumes'
BY DEF Consumes

-----------------------------------------------------------------------------
(* Every step preserves the invariant.                                     *)

LEMMA InitInv == Init => Inv
<1> SUFFICES ASSUME Init PROVE Inv
  OBVIOUS
<1>1. PICK n \in 0..MaxFrames : file \in [1..n -> Frame]
  BY DEF Init
<1>2. n \in Nat /\ n <= MaxFrames /\ MaxFrames \in Nat /\ Capacity \in Nat
  BY ReplayAssumption
<1>3. file \in Seq(Frame) /\ Len(file) = n
  BY <1>1, <1>2
<1>4. pushed = <<>> /\ applied = <<>> /\ popped = 0
  BY DEF Init
<1>5. producer = [pc |-> "read", next |-> 1, queued |-> 0, seen |-> 0]
      /\ consumer = [pc |-> "test done", queued |-> 0, seen |-> 0, knows_done |-> FALSE]
  BY DEF Init, Moved
<1>6. producer \in ProducerStates /\ consumer \in ConsumerStates
  <2>1. 0 \in 0..MaxFrames
    BY <1>2
  <2>2. producer \in ProducerStates
    BY <1>5, <2>1 DEF ProducerStates
  <2>3. consumer \in ConsumerStates
    BY <1>5, <2>1 DEF ConsumerStates
  <2> QED
    BY <2>2, <2>3
<1>7. Types
  <2>1. Len(file) <= MaxFrames
    BY <1>2, <1>3
  <2>2. pushed \in Seq(1..MaxFrames) /\ applied \in Seq(1..MaxFrames) /\ popped \in Nat
    BY <1>4
  <2>3. /\ producer_done \in BOOLEAN /\ producer_failed \in BOOLEAN /\ rejected \in BOOLEAN
        /\ status = "running"
    BY DEF Init
  <2> QED
    BY <1>3, <1>6, <2>1, <2>2, <2>3 DEF Types
<1>8. Pushes /\ Views
  <2>1. producer.next = 1 /\ producer.seen = 0 /\ consumer.seen = 0 /\ Len(pushed) = 0
    BY <1>4, <1>5
  <2>2. Pushes
    BY <1>2, <1>3, <2>1 DEF Pushes
  <2>3. Views
    BY <1>2, <1>4, <2>1 DEF Views
  <2> QED
    BY <2>2, <2>3
<1>9. producer.pc = "read" /\ consumer.pc = "test done" /\ consumer.knows_done = FALSE
  BY <1>5
<1>10. Produces /\ Knows
  BY <1>9 DEF Init, Produces, Knows
<1>11. Consumes /\ Leaves
  BY <1>4, <1>9 DEF Init, Consumes, Leaves
<1> QED
  BY <1>7, <1>8, <1>10, <1>11 DEF Inv

LEMMA ReadFrameInv == ASSUME Inv, ReadFrame PROVE Inv'
<1>1. Types /\ Pushes /\ Produces /\ Views /\ Knows /\ Consumes /\ Leaves
  BY DEF Inv
<1>2. UNCHANGED <<file, pushed, popped, producer_done, consumer, applied, rejected, status>>
      /\ producer.pc = "read"
  BY DEF ReadFrame
<1>3. producer' \in ProducerStates
  <2>1. CASE producer' = [producer EXCEPT !.pc = "finish"]
    BY <1>1, <2>1 DEF Types, ProducerStates
  <2>2. CASE producer' = [producer EXCEPT !.pc = "push", !.queued = producer.next]
             /\ producer.next <= Len(file)
    <3>1. Len(file) <= MaxFrames
      BY <1>1 DEF Types
    <3>2. producer.next \in 0..MaxFrames
      BY <1>1, <2>2, <3>1, Numbers
    <3> QED
      BY <1>1, <2>2, <3>2 DEF Types, ProducerStates
  <2> QED
    BY <2>1, <2>2 DEF ReadFrame
<1>4. Types'
  <2>1. producer_failed' \in BOOLEAN
    BY <1>1 DEF ReadFrame, Types
  <2> QED
    BY <1>1, <1>2, <1>3, <2>1 DEF Types
<1>5. producer'.next = producer.next /\ producer'.seen = producer.seen
  BY <1>1 DEF ReadFrame, Types, ProducerStates
<1>6. Pushes' /\ Views'
  BY <1>1, <1>2, <1>5 DEF Pushes, Views
<1>7. ~producer_done /\ ~producer_done'
  BY <1>1, <1>2 DEF Produces
<1>8. Knows' /\ Consumes' /\ Leaves'
  BY <1>1, <1>2 DEF Knows, Consumes, Leaves
<1>9. /\ AtMessage' <=> AtMessage
      /\ AtEnd' <=> AtEnd
  BY <1>2, <1>5 DEF AtMessage, AtEnd
<1>10. Produces'
  <2>1. ~producer_failed
    BY <1>1, <1>2 DEF Produces
  <2>2. CASE /\ producer.next > Len(file) /\ producer' = [producer EXCEPT !.pc = "finish"]
             /\ producer_failed' = producer_failed
    <3>1. ~AtMessage /\ AtEnd
      BY <1>1, <2>2, Numbers DEF AtMessage, AtEnd
    <3>2. producer'.pc = "finish"
      BY <1>1, <2>2 DEF Types, ProducerStates
    <3> QED
      BY <1>7, <1>9, <2>1, <2>2, <3>1, <3>2 DEF Produces
  <2>3. CASE /\ producer.next <= Len(file) /\ file[producer.next] # "message"
             /\ producer' = [producer EXCEPT !.pc = "finish"] /\ producer_failed' = TRUE
    <3>1. ~AtMessage /\ ~AtEnd
      BY <1>1, <2>3, Numbers DEF AtMessage, AtEnd
    <3>2. producer'.pc = "finish"
      BY <1>1, <2>3 DEF Types, ProducerStates
    <3> QED
      BY <1>7, <1>9, <2>3, <3>1, <3>2 DEF Produces
  <2>4. CASE /\ producer.next <= Len(file) /\ file[producer.next] = "message"
             /\ producer' = [producer EXCEPT !.pc = "push", !.queued = producer.next]
             /\ producer_failed' = producer_failed
    <3>1. AtMessage
      BY <2>4 DEF AtMessage
    <3>2. producer'.pc = "push" /\ producer'.queued = producer.next
      BY <1>1, <2>4 DEF Types, ProducerStates
    <3> QED
      BY <1>5, <1>7, <1>9, <2>1, <2>4, <3>1, <3>2 DEF Produces
  <2> QED
    BY <2>2, <2>3, <2>4 DEF ReadFrame
<1> QED
  BY <1>4, <1>6, <1>8, <1>10 DEF Inv

LEMMA TryPushInv == ASSUME Inv, TryPush PROVE Inv'
<1>1. Types /\ Pushes /\ Produces /\ Views /\ Knows /\ Consumes /\ Leaves
  BY DEF Inv
<1>2. UNCHANGED <<file, popped, producer_done, producer_failed, consumer, applied, rejected,
                  status>>
      /\ producer.pc = "push"
  BY DEF TryPush
<1>3. /\ AtMessage /\ producer.queued = producer.next /\ ~producer_failed /\ ~producer_done
      /\ ~consumer.knows_done
  BY <1>1, <1>2 DEF Produces, Knows
<1>4. Knows'
  BY <1>2, <1>3 DEF Knows
<1>5. PICK read \in producer.seen..popped :
        \/ /\ Full(read)
           /\ producer' = [producer EXCEPT !.seen = read]
           /\ UNCHANGED pushed
        \/ /\ ~Full(read)
           /\ pushed' = Append(pushed, producer.queued)
           /\ producer' = [producer EXCEPT !.pc = "read", !.next = @ + 1,
                                           !.queued = Moved, !.seen = read]
  BY DEF TryPush, Refused
<1>6. read \in Nat /\ producer.seen <= read /\ read <= popped
  BY <1>1, <1>5, Numbers
<1>7. Consumes'
  BY <1>1, <1>2, ConsumerUntouched
<1>8. CASE Full(read) /\ producer' = [producer EXCEPT !.seen = read] /\ UNCHANGED pushed
  <2>1. /\ producer' \in ProducerStates /\ producer'.pc = "push"
        /\ producer'.next = producer.next /\ producer'.queued = producer.queued
        /\ producer'.seen = read
    BY <1>1, <1>2, <1>6, <1>8 DEF Types, ProducerStates
  <2>2. Types'
    BY <1>1, <1>2, <1>8, <2>1 DEF Types
  <2>3. AtMessage' <=> AtMessage
    BY <1>2, <2>1 DEF AtMessage
  <2>4. Pushes' /\ Produces'
    BY <1>1, <1>2, <1>3, <1>8, <2>1, <2>3 DEF Pushes, Produces
  <2>5. Views'
    <3>1. Len(pushed) <= read + Capacity
      BY <1>1, <1>6, Numbers DEF Views
    <3> QED
      BY <1>1, <1>2, <1>6, <1>8, <2>1, <3>1, Numbers DEF Views
  <2>6. Leaves'
    BY <1>1, <1>2, <1>8 DEF Leaves
  <2> QED
    BY <1>4, <1>7, <2>2, <2>4, <2>5, <2>6 DEF Inv
<1>9. CASE /\ ~Full(read) /\ pushed' = Append(pushed, producer.queued)
           /\ producer' = [producer EXCEPT !.pc = "read", !.next = @ + 1,
                                           !.queued = Moved, !.seen = read]
  <2>1. /\ producer' \in ProducerStates /\ producer'.pc = "read"
        /\ producer'.next = producer.next + 1 /\ producer'.seen = read
    <3>1. Moved \in 0..MaxFrames
      BY ReplayAssumption DEF Moved
    <3>2. producer.next + 1 \in Nat
      BY <1>1, Numbers
    <3>3. producer' = [producer EXCEPT !.pc = "read", !.next = producer.next + 1,
                                       !.queued = Moved, !.seen = read]
      BY <1>9
    <3> QED
      BY <1>1, <1>6, <3>1, <3>2, <3>3 DEF Types, ProducerStates
  <2>2. producer.next \in 1..MaxFrames /\ producer.next <= Len(file)
    <3>1. Len(file) <= MaxFrames
      BY <1>1 DEF Types
    <3>2. producer.next <= Len(file) /\ Len(pushed) + 1 = producer.next
      BY <1>1, <1>3 DEF AtMessage, Pushes
    <3> QED
      BY <1>1, <3>1, <3>2, Numbers
  <2>3. /\ pushed' \in Seq(1..MaxFrames) /\ Len(pushed') = Len(pushed) + 1
        /\ pushed'[Len(pushed) + 1] = producer.next
        /\ \A i \in 1..Len(pushed) : pushed'[i] = pushed[i]
    <3>1. pushed \in Seq(1..MaxFrames)
      BY <1>1 DEF Types
    <3> QED
      BY <1>3, <1>9, <2>2, <3>1
  <2>4. Types'
    BY <1>1, <1>2, <2>1, <2>3 DEF Types
  <2>5. Pushes'
    <3>1. Len(pushed') + 1 = producer'.next /\ Len(pushed') <= Len(file')
      BY <1>1, <1>2, <2>1, <2>2, <2>3, Numbers DEF Pushes
    <3>2. ASSUME NEW i \in 1..Len(pushed') PROVE pushed'[i] = i /\ file'[i] = "message"
      <4>1. CASE i = Len(pushed) + 1
        BY <1>1, <1>2, <1>3, <2>3, <4>1 DEF Pushes, AtMessage
      <4>2. CASE i \in 1..Len(pushed)
        BY <1>1, <1>2, <2>3, <4>2 DEF Pushes
      <4> QED
        BY <1>1, <2>3, <3>2, <4>1, <4>2, Numbers
    <3> QED
      BY <3>1, <3>2 DEF Pushes
  <2>6. Produces'
    BY <1>2, <1>3, <2>1 DEF Produces
  <2>7. Views'
    <3>1. Len(pushed) <= producer.seen + Capacity /\ Len(pushed) # read + Capacity
      BY <1>1, <1>6, <1>9, Numbers DEF Views, Full
    <3>2. popped <= consumer.seen /\ consumer.seen <= Len(pushed)
      BY <1>1 DEF Views
    <3>3. Len(pushed') <= read + Capacity /\ consumer.seen <= Len(pushed')
      <4>1. Len(pushed') = Len(pushed) + 1
        BY <2>3
      <4>2. Len(pushed) + 1 <= read + Capacity /\ consumer.seen <= Len(pushed) + 1
        BY <1>1, <1>6, <3>1, <3>2, Numbers
      <4> QED
        BY <4>1, <4>2
    <3> QED
      BY <1>2, <1>6, <2>1, <3>2, <3>3 DEF Views
  <2>8. Leaves'
    <3>1. ~(consumer.pc \in {"test empty", "join", "exited"})
      BY <1>1, <1>3 DEF Leaves
    <3> QED
      BY <1>1, <1>2, <3>1 DEF Leaves
  <2> QED
    BY <1>4, <1>7, <2>4, <2>5, <2>6, <2>7, <2>8 DEF Inv
<1> QED
  BY <1>5, <1>8, <1>9

LEMMA StoreDoneInv == ASSUME Inv, StoreDone PROVE Inv'
<1>1. Types /\ Pushes /\ Produces /\ Views /\ Knows /\ Consumes /\ Leaves
  BY DEF Inv
<1>2. UNCHANGED <<file, pushed, popped, producer_failed, consumer, applied, rejected, status>>
      /\ producer.pc = "finish" /\ producer_done' = TRUE
  BY DEF StoreDone
<1>3. /\ producer' \in ProducerStates /\ producer'.pc = "finished"
      /\ producer'.next = producer.next /\ producer'.seen = producer.seen
  BY <1>1 DEF StoreDone, Types, ProducerStates
<1>4. Types'
  BY <1>1, <1>2, <1>3 DEF Types
<1>5. Pushes' /\ Views'
  BY <1>1, <1>2, <1>3 DEF Pushes, Views
<1>6. /\ AtMessage' <=> AtMessage
      /\ AtEnd' <=> AtEnd
  BY <1>2, <1>3 DEF AtMessage, AtEnd
<1>7. Produces'
  BY <1>1, <1>2, <1>3, <1>6 DEF Produces
<1>8. Knows' /\ Consumes' /\ Leaves'
  BY <1>1, <1>2 DEF Knows, Consumes, Leaves
<1> QED
  BY <1>4, <1>5, <1>7, <1>8 DEF Inv

LEMMA TestDoneInv == ASSUME Inv, TestDone PROVE Inv'
<1>1. Types /\ Pushes /\ Produces /\ Views /\ Knows /\ Consumes /\ Leaves
  BY DEF Inv
<1>2. UNCHANGED <<file, pushed, popped, producer, producer_done, producer_failed, applied,
                  rejected, status>>
      /\ consumer.pc = "test done"
  BY DEF TestDone
<1>3. Pushes' /\ Produces'
  BY <1>1, <1>2, ProducerUntouched
<1>4. CASE ~consumer.knows_done /\ consumer' = [consumer EXCEPT !.pc = "pop"]
  <2>1. /\ consumer' \in ConsumerStates /\ consumer'.pc = "pop"
        /\ consumer'.seen = consumer.seen /\ consumer'.queued = consumer.queued
        /\ consumer'.knows_done = consumer.knows_done
    BY <1>1, <1>4 DEF Types, ConsumerStates
  <2>2. Types'
    BY <1>1, <1>2, <2>1 DEF Types
  <2>3. Views'
    BY <1>1, <1>2, <2>1 DEF Views
  <2>4. Knows' /\ Consumes' /\ Leaves'
    BY <1>1, <1>2, <1>4, <2>1 DEF Knows, Consumes, Leaves
  <2> QED
    BY <1>3, <2>2, <2>3, <2>4 DEF Inv
<1>5. CASE /\ producer_done
           /\ consumer' = [AcquireDone(consumer) EXCEPT !.pc = "test empty", !.knows_done = TRUE]
  <2>1. /\ consumer' \in ConsumerStates /\ consumer'.pc = "test empty"
        /\ consumer'.seen = Len(pushed) /\ consumer'.knows_done = TRUE
    <3>1. Len(pushed) \in Nat
      BY <1>1, Numbers
    <3> QED
      BY <1>1, <1>5, <3>1 DEF Types, ConsumerStates, AcquireDone
  <2>2. Types'
    BY <1>1, <1>2, <2>1 DEF Types
  <2>3. Views'
    <3>1. popped <= Len(pushed) /\ Len(pushed) <= Len(pushed)
      BY <1>1, Numbers DEF Views
    <3> QED
      BY <1>1, <1>2, <2>1, <3>1 DEF Views
  <2>4. Knows' /\ Leaves'
    BY <1>1, <1>2, <1>5, <2>1 DEF Knows, Leaves
  <2>5. Consumes'
    BY <1>1, <1>2, <2>1 DEF Consumes
  <2> QED
    BY <1>3, <2>2, <2>3, <2>4, <2>5 DEF Inv
<1> QED
  BY <1>4, <1>5 DEF TestDone

LEMMA TestEmptyInv == ASSUME Inv, TestEmpty PROVE Inv'
<1>1. Types /\ Pushes /\ Produces /\ Views /\ Knows /\ Consumes /\ Leaves
  BY DEF Inv
<1>2. UNCHANGED <<file, pushed, popped, producer, producer_done, producer_failed, applied,
                  rejected, status>>
      /\ consumer.pc = "test empty"
  BY DEF TestEmpty
<1>3. Pushes' /\ Produces'
  BY <1>1, <1>2, ProducerUntouched
<1>4. PICK write \in consumer.seen..Len(pushed) :
        consumer' = [consumer EXCEPT !.seen = write,
                                     !.pc = IF write = popped THEN "join" ELSE "pop"]
  BY DEF TestEmpty
<1>5. consumer.knows_done /\ producer_done /\ consumer.seen = Len(pushed)
  BY <1>1, <1>2 DEF Knows, Leaves
<1>6. write = Len(pushed) /\ write \in Nat
  BY <1>1, <1>4, <1>5, Numbers
<1>7. /\ consumer' \in ConsumerStates
      /\ consumer'.pc = IF write = popped THEN "join" ELSE "pop"
      /\ consumer'.seen = write /\ consumer'.knows_done = consumer.knows_done
  BY <1>1, <1>4, <1>6 DEF Types, ConsumerStates
<1>8. Types'
  BY <1>1, <1>2, <1>7 DEF Types
<1>9. Views'
  BY <1>1, <1>2, <1>5, <1>6, <1>7 DEF Views
<1>10. Knows' /\ Leaves'
  BY <1>1, <1>2, <1>5, <1>6, <1>7 DEF Knows, Leaves
<1>11. Consumes'
  BY <1>1, <1>2, <1>7 DEF Consumes
<1> QED
  BY <1>3, <1>8, <1>9, <1>10, <1>11 DEF Inv

LEMMA TryPopInv == ASSUME Inv, TryPop PROVE Inv'
<1>1. Types /\ Pushes /\ Produces /\ Views /\ Knows /\ Consumes /\ Leaves
  BY DEF Inv
<1>2. UNCHANGED <<file, pushed, producer, producer_done, producer_failed, applied, rejected,
                  status>>
      /\ consumer.pc = "pop"
  BY DEF TryPop
<1>3. Pushes' /\ Produces'
  BY <1>1, <1>2, ProducerUntouched
<1>4. PICK write \in consumer.seen..Len(pushed) :
        \/ /\ write = popped
           /\ consumer' = [consumer EXCEPT !.seen = write, !.pc = "test done"]
           /\ UNCHANGED popped
        \/ /\ write # popped
           /\ popped' = popped + 1
           /\ consumer' = [consumer EXCEPT !.seen = write, !.pc = "apply",
                                           !.queued = pushed[popped']]
  BY DEF TryPop
<1>5. write \in Nat /\ consumer.seen <= write /\ write <= Len(pushed)
  BY <1>1, <1>4, Numbers
<1>6. consumer.knows_done => producer_done /\ write = Len(pushed)
  <2>1. consumer.seen = Len(pushed) => write = Len(pushed)
    BY <1>1, <1>5, Numbers
  <2> QED
    BY <1>1, <2>1 DEF Knows
<1>7. Len(applied) = popped
  BY <1>1, <1>2 DEF Consumes
<1>8. CASE /\ write = popped /\ UNCHANGED popped
           /\ consumer' = [consumer EXCEPT !.seen = write, !.pc = "test done"]
  <2>1. /\ consumer' \in ConsumerStates /\ consumer'.pc = "test done"
        /\ consumer'.seen = write /\ consumer'.knows_done = consumer.knows_done
    BY <1>1, <1>5, <1>8 DEF Types, ConsumerStates
  <2>2. Types'
    BY <1>1, <1>2, <1>8, <2>1 DEF Types
  <2>3. Views'
    BY <1>1, <1>2, <1>5, <1>8, <2>1 DEF Views
  <2>4. Knows' /\ Leaves'
    BY <1>1, <1>2, <1>6, <2>1 DEF Knows, Leaves
  <2>5. Consumes'
    BY <1>2, <1>7, <1>8, <2>1 DEF Consumes
  <2> QED
    BY <1>3, <2>2, <2>3, <2>4, <2>5 DEF Inv
<1>9. CASE /\ write # popped /\ popped' = popped + 1
           /\ consumer' = [consumer EXCEPT !.seen = write, !.pc = "apply",
                                           !.queued = pushed[popped']]
  <2>1. popped' \in 1..Len(pushed) /\ popped' \in Nat /\ popped' <= write
    <3>1. popped <= consumer.seen
      BY <1>1 DEF Views
    <3> QED
      BY <1>1, <1>5, <1>9, <3>1, Numbers
  <2>2. pushed[popped'] = popped' /\ pushed[popped'] \in 0..MaxFrames
    <3>1. pushed \in Seq(1..MaxFrames)
      BY <1>1 DEF Types
    <3>2. pushed[popped'] \in 1..MaxFrames
      BY <2>1, <3>1, Members
    <3> QED
      BY <1>1, <2>1, <3>2, ReplayAssumption DEF Pushes
  <2>3. /\ consumer' \in ConsumerStates /\ consumer'.pc = "apply"
        /\ consumer'.queued = popped'
        /\ consumer'.seen = write /\ consumer'.knows_done = consumer.knows_done
    BY <1>1, <1>5, <1>9, <2>2 DEF Types, ConsumerStates
  <2>4. Types'
    BY <1>1, <1>2, <2>1, <2>3 DEF Types
  <2>5. Views'
    BY <1>1, <1>2, <1>5, <1>9, <2>1, <2>3, Numbers DEF Views
  <2>6. Knows' /\ Leaves'
    BY <1>1, <1>2, <1>6, <2>3 DEF Knows, Leaves
  <2>7. Consumes'
    BY <1>2, <1>7, <1>9, <2>3 DEF Consumes
  <2> QED
    BY <1>3, <2>4, <2>5, <2>6, <2>7 DEF Inv
<1> QED
  BY <1>4, <1>8, <1>9

LEMMA ApplyInv == ASSUME Inv, Apply PROVE Inv'
<1>1. Types /\ Pushes /\ Produces /\ Views /\ Knows /\ Consumes /\ Leaves
  BY DEF Inv
<1>2. UNCHANGED <<file, pushed, popped, producer, producer_done, producer_failed, status>>
      /\ consumer.pc = "apply" /\ applied' = Append(applied, consumer.queued)
  BY DEF Apply
<1>3. Pushes' /\ Produces'
  BY <1>1, <1>2, ProducerUntouched
<1>4. /\ consumer' \in ConsumerStates /\ consumer'.pc = "test done"
      /\ consumer'.seen = consumer.seen /\ consumer'.knows_done = consumer.knows_done
  BY <1>1 DEF Apply, Types, ConsumerStates
<1>5. consumer.queued = popped /\ Len(applied) + 1 = popped
  BY <1>1, <1>2 DEF Consumes
<1>6. applied' \in Seq(1..MaxFrames) /\ Len(applied') = Len(applied) + 1
  <2>1. consumer.queued \in 0..MaxFrames /\ applied \in Seq(1..MaxFrames)
    BY <1>1 DEF Types, ConsumerStates
  <2>2. consumer.queued \in 1..MaxFrames
    BY <1>1, <1>5, <2>1, Numbers
  <2> QED
    BY <1>2, <2>1, <2>2
<1>7. Types'
  <2>1. rejected' \in BOOLEAN
    BY <1>1 DEF Apply, Types
  <2> QED
    BY <1>1, <1>2, <1>4, <1>6, <2>1 DEF Types
<1>8. Views'
  BY <1>1, <1>2, <1>4 DEF Views
<1>9. Knows' /\ Leaves'
  BY <1>1, <1>2, <1>4 DEF Knows, Leaves
<1>10. Consumes'
  BY <1>2, <1>4, <1>5, <1>6 DEF Consumes
<1> QED
  BY <1>3, <1>7, <1>8, <1>9, <1>10 DEF Inv

LEMMA JoinAndExitInv == ASSUME Inv, JoinAndExit PROVE Inv'
<1>1. Types /\ Pushes /\ Produces /\ Views /\ Knows /\ Consumes /\ Leaves
  BY DEF Inv
<1>2. UNCHANGED <<file, pushed, popped, producer, producer_done, producer_failed, applied,
                  rejected>>
      /\ consumer.pc = "join"
  BY DEF JoinAndExit
<1>3. Pushes' /\ Produces'
  BY <1>1, <1>2, ProducerUntouched
<1>4. /\ consumer' \in ConsumerStates /\ consumer'.pc = "exited"
      /\ consumer'.seen = consumer.seen /\ consumer'.knows_done = consumer.knows_done
  BY <1>1 DEF JoinAndExit, Types, ConsumerStates
<1>5. status' \in {"failure", "success"}
  BY DEF JoinAndExit
<1>6. Types'
  BY <1>1, <1>2, <1>4, <1>5 DEF Types
<1>7. Views'
  BY <1>1, <1>2, <1>4 DEF Views
<1>8. Knows' /\ Leaves'
  BY <1>1, <1>2, <1>4, <1>5 DEF Knows, Leaves
<1>9. Consumes'
  BY <1>1, <1>2, <1>4 DEF Consumes
<1> QED
  BY <1>3, <1>6, <1>7, <1>8, <1>9 DEF Inv

LEMMA TerminateInv == ASSUME Inv, Terminate PROVE Inv'
<1>1. Types /\ Pushes /\ Produces /\ Views /\ Knows /\ Consumes /\ Leaves
  BY DEF Inv
<1>2. /\ UNCHANGED <<file, pushed, popped, producer, producer_done, producer_failed, consumer,
                     applied, rejected>>
      /\ status' = "aborted"
  BY DEF Terminate
<1>3. Types' /\ Views' /\ Knows' /\ Leaves'
  BY <1>1, <1>2 DEF Types, Views, Knows, Leaves
<1>4. Pushes' /\ Produces' /\ Consumes'
  BY <1>1, <1>2, ProducerUntouched, ConsumerUntouched
<1> QED
  BY <1>3, <1>4 DEF Inv

LEMMA StutterInv == ASSUME Inv, UNCHANGED vars PROVE Inv'
<1>1. Types /\ Pushes /\ Produces /\ Views /\ Knows /\ Consumes /\ Leaves
  BY DEF Inv
<1>2. Types' /\ Views' /\ Knows' /\ Leaves'
  BY <1>1 DEF vars, Types, Views, Knows, Leaves
<1>3. Pushes' /\ Produces' /\ Consumes'
  BY <1>1, ProducerUntouched, ConsumerUntouched DEF vars
<1> QED
  BY <1>2, <1>3 DEF Inv

LEMMA Invariance == Spec => []Inv
<1>1. Inv /\ [Next]_vars => Inv'
  BY ReadFrameInv, TryPushInv, StoreDoneInv, TestDoneInv, TestEmptyInv, TryPopInv,
     ApplyInv, JoinAndExitInv, TerminateInv, StutterInv
  DEF Next, ProducerStep, ConsumerStep
<1> QED
  BY <1>1, InitInv, PTL DEF Spec

-----------------------------------------------------------------------------
(* The theorems.                                                           *)

\* Neither thread ever believes the other to be ahead of where it is.
THEOREM Typing == Spec => []TypeOK
<1>1. ASSUME Inv PROVE TypeOK
  <2>1. Types /\ Pushes /\ Views
    BY <1>1 DEF Inv
  <2>2. Len(file) <= MaxFrames
    BY <2>1 DEF Types
  <2>3. producer.next \in 1..MaxFrames+1 /\ producer.seen \in 0..popped
    BY <2>1, <2>2, Numbers DEF Pushes, Views
  <2>4. popped \in 0..Len(pushed) /\ consumer.seen \in popped..Len(pushed)
    BY <2>1, Numbers DEF Views
  <2>5. producer \in [pc : {"read", "push", "finish", "finished"}, next : 1..MaxFrames+1,
                      queued : 0..MaxFrames, seen : 0..popped]
    BY <2>1, <2>3 DEF Types, ProducerStates
  <2>6. consumer \in [pc : {"test done", "test empty", "pop", "apply", "join", "exited"},
                      queued : 0..MaxFrames, seen : popped..Len(pushed), knows_done : BOOLEAN]
    BY <2>1, <2>4 DEF Types, ConsumerStates
  <2> QED
    BY <2>1, <2>4, <2>5, <2>6 DEF Types, TypeOK
<1> QED
  BY <1>1, Invariance, PTL

\* The ring never holds more than its capacity, however old the read index
\* that try_push compares with.
THEOREM Bounded == Spec => []RingBounded
<1>1. ASSUME Inv PROVE RingBounded
  <2>1. Types /\ Views
    BY <1>1 DEF Inv
  <2> QED
    BY <2>1, Numbers DEF Views, RingBounded
<1> QED
  BY <1>1, Invariance, PTL

LEMMA ApplyImplements == ASSUME Inv, Alive, Apply PROVE Sequential!Apply
<1>1. Types /\ Pushes /\ Views /\ Consumes /\ Leaves
  BY DEF Inv
<1>2. consumer.pc = "apply" /\ consumer.queued = popped /\ Len(applied) + 1 = popped
  BY <1>1 DEF Apply, Consumes
<1>3. popped \in 1..Len(pushed) /\ popped \in 1..Len(file)
  BY <1>1, <1>2, Numbers DEF Views, Pushes
<1>4. popped \in DOMAIN file /\ file[popped] = "message"
  <2>1. file \in Seq(Frame)
    BY <1>1 DEF Types
  <2> QED
    BY <1>1, <1>3, <2>1 DEF Pushes
<1>5. Sequential!HasNext /\ Sequential!Position = popped
  BY <1>2, <1>4 DEF Sequential!HasNext, Sequential!Position
<1>6. status = "running"
  BY <1>1, <1>2 DEF Types, Leaves, Alive
<1> QED
  BY <1>2, <1>5, <1>6 DEF Apply, Sequential!Apply

LEMMA ExitImplements == ASSUME Inv, Alive, JoinAndExit PROVE Sequential!Exit
<1>1. Types /\ Pushes /\ Produces /\ Consumes /\ Leaves
  BY DEF Inv
<1>2. /\ consumer.pc = "join" /\ producer.pc = "finished" /\ status = "running"
      /\ Len(applied) = popped /\ popped = Len(pushed)
  BY <1>1 DEF JoinAndExit, Types, Consumes, Leaves, Alive
<1>3. Sequential!Position = producer.next
  BY <1>1, <1>2 DEF Pushes, Sequential!Position
<1>4. ~AtMessage /\ (producer_failed <=> ~AtEnd)
  BY <1>1, <1>2 DEF Produces
<1>5. ~Sequential!HasNext
  <2>1. file \in Seq(Frame)
    BY <1>1 DEF Types
  <2>2. producer.next \in DOMAIN file => producer.next <= Len(file)
    BY <2>1
  <2> QED
    BY <1>3, <1>4, <2>2 DEF AtMessage, Sequential!HasNext
<1>6. Sequential!Position > Len(file) <=> AtEnd
  BY <1>3 DEF AtEnd
<1>7. Sequential!Succeeds <=> ~(producer_failed \/ (FailOnReject /\ rejected))
  BY <1>4, <1>6 DEF Sequential!Succeeds
<1>8. status' = IF Sequential!Succeeds THEN "success" ELSE "failure"
  BY <1>7 DEF JoinAndExit
<1> QED
  BY <1>2, <1>5, <1>8 DEF JoinAndExit, Sequential!Exit

\* Every step of the two threads is a step of the sequential replay or none:
\* no event is lost, repeated or reordered, and the exit status is right.
THEOREM Refinement == Spec => ImplementsSequentialReplay
<1>1. Init => Sequential!Init
  <2> SUFFICES ASSUME Init PROVE Sequential!Init
    OBVIOUS
  <2>1. file \in Seq(Frame)
    BY InitInv DEF Inv, Types
  <2> QED
    BY <2>1 DEF Init, Sequential!Init, Frame
<1>2. Inv /\ [Next]_vars => [Sequential!Next]_(Sequential!vars)
  <2> SUFFICES ASSUME Inv, [Next]_vars PROVE [Sequential!Next]_(Sequential!vars)
    OBVIOUS
  <2>1. CASE Alive /\ Apply
    BY <2>1, ApplyImplements DEF Sequential!Next
  <2>2. CASE Alive /\ JoinAndExit
    BY <2>2, ExitImplements DEF Sequential!Next
  <2>3. CASE ReadFrame \/ TryPush \/ StoreDone \/ TestDone \/ TestEmpty \/ TryPop
    BY <2>3 DEF ReadFrame, TryPush, StoreDone, TestDone, TestEmpty, TryPop, Sequential!vars
  <2>4. CASE UNCHANGED vars
    BY <2>4 DEF vars, Sequential!vars
  <2>5. CASE Terminate
    BY <2>5 DEF Terminate, Sequential!Abort, Sequential!Next
  <2> QED
    BY <2>1, <2>2, <2>3, <2>4, <2>5 DEF Next, ProducerStep, ConsumerStep
<1> QED
  BY <1>1, <1>2, Invariance, PTL DEF Spec, ImplementsSequentialReplay, Sequential!Spec
=============================================================================
