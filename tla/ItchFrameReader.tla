--------------------------- MODULE ItchFrameReader ---------------------------
(***************************************************************************)
(* The producer's side of itch_replay up to the ring (src/app/             *)
(* itch_replay.cpp:64-176, 313-328): ItchFrameReader cuts the stream into  *)
(* frames, in as many reads as the stream needs, and ItchDecoder decodes   *)
(* each frame.  The vector `frame' is the producer's and is used again for *)
(* every frame.                                                            *)
(*                                                                         *)
(* The streams are external: ifstream::read and gzread deliver the bytes   *)
(* that can be read, any number of the ones asked for at a time, and then  *)
(* 0 or an error.  gzread also returns 0 at the end of a gzip file that is *)
(* cut short; only gzerror then tells (Z_BUF_ERROR).                       *)
(***************************************************************************)
EXTENDS ItchDecoder, SequencesExt

CONSTANTS
  Files,     \* the byte sequences that a file may hold
  Endings,   \* what may follow them
  Reads      \* how many bytes a read may deliver, if as many are asked for and are left

ASSUME ReaderAssumption ==
  /\ Files \subseteq Seq(Byte)
  /\ Endings \subseteq {"end of file", "read error", "truncated gzip"}
  /\ Reads \subseteq Nat \ {0} /\ Reads # {}

VARIABLES
  file, ending,  \* the stream
  position,      \* how many of its bytes have been read
  reader,        \* next_frame: its stage, its prefix and the bytes it has of this stage
  frame,         \* the buffer
  events,        \* what the decoder has made of the frames so far
  outcome        \* how the loop of the producer ended, or "reading"

vars == <<file, ending, position, reader, frame, events, outcome>>

\* next_frame is called: std::array<std::uint8_t, 2> prefix{}.
Start == [stage |-> "prefix", prefix |-> <<0, 0>>, got |-> 0]

Init ==
  /\ file \in Files /\ ending \in Endings /\ position = 0
  /\ reader = Start /\ frame = <<>> /\ events = <<>> /\ outcome = "reading"

-----------------------------------------------------------------------------

\* The values that read_at_most may return.
read_at_most(capacity) ==
  CASE position < Len(file) -> {Min({n, capacity, Len(file) - position}) : n \in Reads}
    [] position = Len(file) /\ ending = "read error" -> {-1}
    [] OTHER -> {0}

\* The n bytes that it then leaves behind the first `got' of a buffer.
Store(buffer, got, n) ==
  [i \in DOMAIN buffer |-> IF i \in got+1..got+n THEN file[position + i - got] ELSE buffer[i]]

\* A buffer that only ever grows.
resize_growing(v, n) == IF n <= Len(v) THEN v ELSE v \o [i \in 1..n-Len(v) |-> 0]

\* What std::vector::resize does: the bytes that were there stay.
resize(v, n) == [i \in 1..n |-> IF i <= Len(v) THEN v[i] ELSE 0]

\* The prefix, and room for the payload.
MakeRoom(prefix) ==
  [resize(frame, kFramePrefixBytes + Length(prefix)) EXCEPT ![1] = prefix[1], ![2] = prefix[2]]

NextStage(prefix) == IF Length(prefix) = 0 THEN "whole" ELSE "payload"

Stops(as) ==
  /\ outcome' = as
  /\ UNCHANGED <<file, ending, position, reader, frame, events>>

\* Takes a stream that ends between the two bytes of a prefix for one that ends before it.
AtEnd_lenient == TRUE

\* End of file is one only where a frame would begin.
AtEnd == reader.got = 0

ReadPrefix ==
  /\ outcome = "reading" /\ reader.stage = "prefix"
  /\ \E n \in read_at_most(kFramePrefixBytes - reader.got) :
       \/ n < 0 /\ Stops("failed")
       \/ n = 0 /\ AtEnd /\ Stops("end of file")
       \/ n = 0 /\ ~AtEnd /\ Stops("failed")
       \/ /\ n > 0
          /\ LET prefix == Store(reader.prefix, reader.got, n)
                 complete_prefix == reader.got + n = kFramePrefixBytes
             IN /\ position' = position + n
                /\ reader' = IF complete_prefix
                               THEN [stage |-> NextStage(prefix), prefix |-> prefix, got |-> 0]
                               ELSE [reader EXCEPT !.prefix = prefix, !.got = @ + n]
                /\ frame' = IF complete_prefix THEN MakeRoom(prefix) ELSE frame
          /\ UNCHANGED <<file, ending, events, outcome>>

\* Fills the payload from its beginning with every read.
Fill_restarting(n) ==
  [i \in DOMAIN frame |-> IF i \in 3..2+n THEN file[position + i - 2] ELSE frame[i]]

Fill(n) == Store(frame, kFramePrefixBytes + reader.got, n)

ReadPayload ==
  /\ outcome = "reading" /\ reader.stage = "payload"
  /\ \E n \in read_at_most(Length(reader.prefix) - reader.got) :
       \/ n <= 0 /\ Stops("failed")
       \/ /\ n > 0
          /\ position' = position + n
          /\ frame' = Fill(n)
          /\ reader' = [reader EXCEPT !.got = @ + n,
                                      !.stage = IF reader.got + n = Length(reader.prefix)
                                                  THEN "whole" ELSE "payload"]
          /\ UNCHANGED <<file, ending, events, outcome>>

\* The event goes to the ring, and next_frame is called again.
Decode ==
  /\ outcome = "reading" /\ reader.stage = "whole"
  /\ LET result == decode_next(frame)
     IN \/ result.status # "Complete" /\ Stops("failed")
        \/ /\ result.status = "Complete"
           /\ events' = Append(events, result.event)
           /\ reader' = Start
           /\ UNCHANGED <<file, ending, position, frame, outcome>>

Next == ReadPrefix \/ ReadPayload \/ Decode

Spec == Init /\ [][Next]_vars

-----------------------------------------------------------------------------
(* Properties.                                                             *)

Stage == {"prefix", "payload", "whole"}

\* The buffer of a frame being read has exactly the room that its prefix asks for.
TypeOK ==
  /\ file \in Seq(Byte) /\ ending \in Endings /\ position \in 0..Len(file)
  /\ reader \in [stage : Stage, prefix : Byte \X Byte, got : Nat]
  /\ frame \in Seq(Byte)
  /\ reader.stage # "prefix" => Len(frame) = kFramePrefixBytes + Length(reader.prefix)
  /\ outcome \in {"reading", "end of file", "failed"}

\* How many of the bytes read belong to a frame that is not decoded yet.
Pending ==
  CASE reader.stage = "prefix" -> reader.got
    [] reader.stage = "payload" -> kFramePrefixBytes + reader.got
    [] reader.stage = "whole" -> Len(frame)

Stream == INSTANCE ItchStream WITH taken <- position - Pending

\* However the stream is cut into reads, and whatever the buffer held before,
\* the events are those of a decoder that is handed the rest of the file at
\* once, and the loop ends as that one does: no frame runs into the next, no
\* byte of an older frame shows, and a file that stops inside a frame, its
\* prefix included, has failed.
ImplementsItchStream == Stream!Spec

\* A decoder that is fed a frame byte by byte asks for more until it can answer
\* for good: its answer to a part is never that of another message
\* (itch.hpp:210-212).  The reader hands it whole frames, never one that it
\* asks more for, and it consumes them whole.
AnswersAreFinal ==
  reader.stage = "whole" =>
    LET result == decode_next(frame)
    IN /\ result # need_more_data
       /\ \A n \in 0..Len(frame) : decode_next(SubSeq(frame, 1, n)) \in {need_more_data, result}
       /\ result.status = "Complete" => result.bytes_consumed = Len(frame)

\* The bytes of an event, in the order in which its members are declared.
Bytes(event) ==
  <<event.type>> \o FlattenSeq(SetToSeq({FlattenSeq(h) : h \in event.header})) \o FlattenSeq(event.body)

\* Every byte of a message the decoder knows ends up in exactly one member of
\* its event, and the members follow each other as in the message; of a message
\* it skips, the type and the header.
EventsCarryTheirMessage ==
  (reader = Start /\ events # <<>>) =>
    LET event == Last(events)
        message == SubSeq(frame, kFramePrefixBytes + 1, Len(frame))
    IN /\ frame = SubSeq(file, position - Len(frame) + 1, position)
       /\ IF Known(event.type) THEN Bytes(event) = message ELSE IsPrefix(Bytes(event), message)

\* A gzip file that was cut short is not taken for one that ended: "Positive
\* values are bytes read, zero is EOF, and -1 represents a read failure"
\* (itch_replay.cpp:146).
OnlyEndOfFileEndsTheFile == outcome = "end of file" => ending = "end of file"
=============================================================================
