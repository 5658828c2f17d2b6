----------------------------- MODULE MCItchInput -----------------------------
(***************************************************************************)
(* Files of up to two frames, cut anywhere.  The bytes of a message are    *)
(* its positions, so that a byte in the wrong place shows; the second      *)
(* frame counts from 128.                                                  *)
(***************************************************************************)
EXTENDS ItchFrameReader

Framed(message) == <<Len(message) \div 256, Len(message) % 256>> \o message

\* A message with the given first byte and the given byte where a side would be.
Message(type, size, side, origin) ==
  [i \in 1..size |-> CASE i = 1 -> type [] i = 20 -> side [] OTHER -> (origin + i) % 256]

Types == DOMAIN Code

OfKnownSize(origin) ==
  {Message(Code[t], Size[t], side, origin) : t \in Types, side \in {Buy, Sell}}

OfWrongSize(origin) == {Message(Code[t], Size[t] - 1, Buy, origin) : t \in {"S", "A", "B"}}

WithoutSide(origin) == {Message(Code[t], Size[t], 0, origin) : t \in {"A", "F", "P"}}

\* Administrative messages with and without room for a header, one with a
\* length of two digits, and a frame without a message.
Other(origin) == {Message(84, n, 0, origin) : n \in {1, 5, 10, 11, 12, 257}} \cup {<<>>}

First == OfKnownSize(0) \cup OfWrongSize(0) \cup WithoutSide(0) \cup Other(0)

Second == {Message(Code["D"], Size["D"], 0, 128), Message(Code["S"], Size["S"], 0, 128),
           Message(84, 3, 0, 128), <<>>}

MCFiles ==
  LET whole == {Framed(m) \o Framed(n) : m \in First, n \in Second}
  IN UNION {{SubSeq(w, 1, n) : n \in 0..Len(w)} : w \in whole}

MCEndings == {"end of file", "read error", "truncated gzip"}
=============================================================================
