------------------------ MODULE ItchFrameReaderProofs ------------------------
(***************************************************************************)
(* The reader hands the decoder the frames of the file, for every file,    *)
(* every way of cutting it into reads and every ending.                    *)
(***************************************************************************)
EXTENDS ItchFrameReader, SequenceTheorems, FiniteSetTheorems, WellFoundedInduction, TLAPS

-----------------------------------------------------------------------------
(* The decoder's answers.                                                  *)

\* A message is answered for good, and consumed whole.
LEMMA MessageAnswers ==
  ASSUME NEW message, NEW n
  PROVE  /\ decode_message(message, n).status \in {"Complete", "Error"}
         /\ decode_message(message, n).status = "Complete" =>
              decode_message(message, n).bytes_consumed = n
<1>1. ASSUME NEW e
      PROVE  complete(e, n).status = "Complete" /\ complete(e, n).bytes_consumed = n
  BY DEF complete
<1>2. ASSUME NEW c, NEW o PROVE error(c, o).status = "Error"
  BY DEF error
<1>3. ASSUME NEW t
      PROVE  \/ \E e : decode_known(message, t, n) = complete(e, n)
             \/ \E c, o : decode_known(message, t, n) = error(c, o)
  <2> DEFINE layout == Layout(t)
             side == HasSide(layout) /\ ~valid_side(message[20])
  <2>1. CASE Len(message) # Size[t]
    BY <2>1 DEF decode_known
  <2>2. CASE Len(message) = Size[t] /\ side
    BY <2>2 DEF decode_known
  <2>3. CASE Len(message) = Size[t] /\ ~side
    BY <2>3 DEF decode_known
  <2> QED
    BY <2>1, <2>2, <2>3
<1>4. \/ \E e : decode_message(message, n) = complete(e, n)
      \/ \E c, o : decode_message(message, n) = error(c, o)
  BY <1>3 DEF decode_message
<1> QED
  BY <1>1, <1>2, <1>4

LEMMA ByteIsNat == Byte \subseteq Nat
BY DEF Byte

LEMMA ByteSeq ==
  ASSUME NEW s \in Seq(Byte)
  PROVE  /\ Len(s) \in Nat /\ DOMAIN s = 1..Len(s)
         /\ \A i \in 1..Len(s) : s[i] \in Nat
         /\ Len(s) >= 2 => Length(s) \in Nat
<1>1. \A i \in 1..Len(s) : s[i] \in Nat
  <2>1. \A i \in 1..Len(s) : s[i] \in Byte
    BY ElementOfSeq
  <2> QED
    BY <2>1, ByteIsNat
<1>2. Len(s) >= 2 => s[1] \in Nat /\ s[2] \in Nat
  BY <1>1
<1> QED
  BY <1>1, <1>2 DEF Length

\* What decode_next does with the bytes there are.
LEMMA Decides ==
  ASSUME NEW s \in Seq(Byte)
  PROVE  /\ Len(s) < 2 => decode_next(s) = need_more_data
         /\ Len(s) >= 2 /\ Length(s) = 0 => decode_next(s) = error("InvalidFrameLength", 0)
         /\ Len(s) >= 2 /\ Length(s) # 0 /\ Len(s) < 2 + Length(s) => decode_next(s) = need_more_data
         /\ Len(s) >= 2 /\ Length(s) # 0 /\ Len(s) >= 2 + Length(s) =>
              decode_next(s) = decode_message(SubSeq(s, 3, 2 + Length(s)), 2 + Length(s))
<1> DEFINE total == total_length(Length(s))
<1>1. Len(s) \in Nat /\ (Len(s) >= 2 => Length(s) \in Nat /\ total = 2 + Length(s))
  BY ByteSeq DEF total_length, kFramePrefixBytes
<1>2. CASE Len(s) < 2
  BY <1>1, <1>2 DEF decode_next, kFramePrefixBytes
<1>3. CASE Len(s) >= 2 /\ Length(s) = 0
  BY <1>1, <1>3 DEF decode_next, kFramePrefixBytes
<1>4. CASE Len(s) >= 2 /\ Length(s) # 0 /\ Len(s) < 2 + Length(s)
  BY <1>1, <1>4 DEF decode_next, kFramePrefixBytes
<1>5. CASE Len(s) >= 2 /\ Length(s) # 0 /\ Len(s) >= 2 + Length(s)
  BY <1>1, <1>5 DEF decode_next, kFramePrefixBytes
<1> QED
  BY <1>1, <1>2, <1>3, <1>4, <1>5

\* f is a frame: a length, and as many bytes.
IsFrame(f) == f \in Seq(Byte) /\ Len(f) >= 2 /\ Len(f) = 2 + Length(f)

\* The answer to a frame: never to ask for more; and it consumes the frame.
LEMMA FrameAnswer ==
  ASSUME NEW f, IsFrame(f)
  PROVE  /\ decode_next(f).status \in {"Complete", "Error"}
         /\ decode_next(f).status = "Complete" =>
              /\ decode_next(f).bytes_consumed = Len(f) /\ Length(f) # 0
              /\ decode_next(f) = decode_message(SubSeq(f, 3, Len(f)), Len(f))
<1>1. CASE Length(f) = 0
  BY <1>1, Decides DEF IsFrame, error
<1>2. CASE Length(f) # 0
  <2>1. Len(f) \in Nat /\ Len(f) >= 2 + Length(f)
    BY ByteSeq DEF IsFrame
  <2>2. decode_next(f) = decode_message(SubSeq(f, 3, Len(f)), Len(f))
    BY <1>2, <2>1, Decides DEF IsFrame
  <2> QED
    BY <1>2, <2>2, MessageAnswers
<1> QED
  BY <1>1, <1>2

\* What follows a frame changes nothing in the answer.
LEMMA AnswerOfFrame ==
  ASSUME NEW f, IsFrame(f), NEW s \in Seq(Byte), Len(f) <= Len(s),
         \A i \in 1..Len(f) : s[i] = f[i]
  PROVE  decode_next(s) = decode_next(f)
<1>1. /\ f \in Seq(Byte) /\ Len(f) \in Nat /\ Len(s) \in Nat /\ Length(f) \in Nat
      /\ Len(f) >= 2 /\ Len(s) >= 2 /\ Len(f) = 2 + Length(f)
  BY ByteSeq DEF IsFrame
<1>2. Length(s) = Length(f)
  BY <1>1 DEF Length
<1>3. CASE Length(f) = 0
  BY <1>1, <1>2, <1>3, Decides
<1>4. CASE Length(f) # 0
  <2>1. SubSeq(s, 3, Len(f)) = SubSeq(f, 3, Len(f))
    <3>1. \A i \in 3..Len(f) : s[i] \in Byte /\ f[i] \in Byte /\ s[i] = f[i]
      BY <1>1, ElementOfSeq
    <3>2. /\ SubSeq(s, 3, Len(f)) \in Seq(Byte) /\ SubSeq(f, 3, Len(f)) \in Seq(Byte)
          /\ Len(SubSeq(s, 3, Len(f))) = Len(SubSeq(f, 3, Len(f)))
          /\ \A i \in 1..Len(SubSeq(s, 3, Len(f))) :
               SubSeq(s, 3, Len(f))[i] = SubSeq(f, 3, Len(f))[i]
      BY <1>1, <3>1
    <3> QED
      BY <3>2, SeqEqual
  <2>2. decode_next(f) = decode_message(SubSeq(f, 3, Len(f)), Len(f))
    BY <1>1, <1>4, Decides
  <2>3. decode_next(s) = decode_message(SubSeq(s, 3, Len(f)), Len(f))
    BY <1>1, <1>2, <1>4, Decides
  <2> QED
    BY <2>1, <2>2, <2>3
<1> QED
  BY <1>3, <1>4

-----------------------------------------------------------------------------
(* The layouts of the messages.                                            *)

LEMMA FieldIs ==
  \A n, o, w : Field(n, o, w).offset = o /\ Field(n, o, w).width = w
BY DEF Field

\* A sequence, of whatever.
IsSeq(l) == \E S : l \in Seq(S)

\* The fields of l cover the bytes from a up to b, each once and in order.
Tiles(l, a, b) ==
  /\ IsSeq(l) /\ Len(l) # 0
  /\ \A i \in 1..Len(l) : /\ l[i].offset \in Nat /\ l[i].width \in Nat \ {0}
                          /\ a <= l[i].offset /\ l[i].offset + l[i].width <= b
  /\ l[1].offset = a /\ l[Len(l)].offset + l[Len(l)].width = b
  /\ \A i \in 1..Len(l)-1 : l[i].offset + l[i].width = l[i+1].offset

LEMMA IsSeqIs ==
  ASSUME NEW l, IsSeq(l)
  PROVE  Len(l) \in Nat /\ DOMAIN l = 1..Len(l)
BY LenProperties DEF IsSeq

LEMMA ConcatIs ==
  ASSUME NEW l, NEW m, IsSeq(l), IsSeq(m)
  PROVE  /\ IsSeq(l \o m) /\ Len(l \o m) = Len(l) + Len(m)
         /\ \A i \in 1..Len(l) : (l \o m)[i] = l[i]
         /\ \A i \in 1..Len(m) : (l \o m)[Len(l) + i] = m[i]
<1>1. PICK S : l \in Seq(S)
  BY DEF IsSeq
<1>2. PICK T : m \in Seq(T)
  BY DEF IsSeq
<1> DEFINE R == S \cup T
<1>3. l \in Seq(R) /\ m \in Seq(R)
  BY <1>1, <1>2, SeqMonotonic
<1> HIDE DEF R
<1>4. Len(l) \in Nat /\ Len(m) \in Nat
  BY <1>3
<1>5. /\ l \o m \in Seq(R) /\ Len(l \o m) = Len(l) + Len(m)
      /\ \A i \in 1..Len(l) + Len(m) :
           (l \o m)[i] = IF i <= Len(l) THEN l[i] ELSE m[i - Len(l)]
  BY <1>3, ConcatProperties
<1>6. \A i \in 1..Len(l) : (l \o m)[i] = l[i]
  BY <1>4, <1>5
<1>7. \A i \in 1..Len(m) : (l \o m)[Len(l) + i] = m[i]
  BY <1>4, <1>5
<1> QED
  BY <1>5, <1>6, <1>7 DEF IsSeq

\* What the fields of one part of a layout leave off, those of the next take up.
LEMMA ConcatTiles ==
  ASSUME NEW a \in Nat, NEW b \in Nat, NEW c \in Nat, NEW l, NEW m,
         Tiles(l, a, b), Tiles(m, b, c)
  PROVE  Tiles(l \o m, a, c)
<1> DEFINE s == l \o m
<1>1. /\ IsSeq(l) /\ Len(l) \in Nat \ {0}
      /\ \A i \in 1..Len(l) : /\ l[i].offset \in Nat /\ l[i].width \in Nat \ {0}
                              /\ a <= l[i].offset /\ l[i].offset + l[i].width <= b
      /\ l[1].offset = a /\ l[Len(l)].offset + l[Len(l)].width = b
      /\ \A i \in 1..Len(l)-1 : l[i].offset + l[i].width = l[i+1].offset
  BY IsSeqIs DEF Tiles
<1>2. /\ IsSeq(m) /\ Len(m) \in Nat \ {0}
      /\ \A i \in 1..Len(m) : /\ m[i].offset \in Nat /\ m[i].width \in Nat \ {0}
                              /\ b <= m[i].offset /\ m[i].offset + m[i].width <= c
      /\ m[1].offset = b /\ m[Len(m)].offset + m[Len(m)].width = c
      /\ \A i \in 1..Len(m)-1 : m[i].offset + m[i].width = m[i+1].offset
  BY IsSeqIs DEF Tiles
<1>3. /\ IsSeq(s) /\ Len(s) = Len(l) + Len(m)
      /\ \A i \in 1..Len(l) : s[i] = l[i]
      /\ \A i \in 1..Len(m) : s[Len(l) + i] = m[i]
  BY <1>1, <1>2, ConcatIs
<1> HIDE DEF s
<1>4. a <= b /\ b <= c
  BY <1>1, <1>2
<1>5. ASSUME NEW i \in 1..Len(s)
      PROVE  \/ i \in 1..Len(l) /\ s[i] = l[i]
             \/ i - Len(l) \in 1..Len(m) /\ s[i] = m[i - Len(l)]
  <2>1. CASE i <= Len(l)
    BY <1>1, <1>3, <2>1
  <2>2. CASE i > Len(l)
    <3>1. i - Len(l) \in 1..Len(m) /\ Len(l) + (i - Len(l)) = i
      BY <1>1, <1>2, <1>3, <2>2
    <3> QED
      BY <1>3, <3>1
  <2> QED
    BY <1>1, <1>2, <1>3, <2>1, <2>2
<1>6. ASSUME NEW i \in 1..Len(s)
      PROVE  /\ s[i].offset \in Nat /\ s[i].width \in Nat \ {0}
             /\ a <= s[i].offset /\ s[i].offset + s[i].width <= c
  <2>1. CASE i \in 1..Len(l) /\ s[i] = l[i]
    BY <1>1, <1>4, <2>1
  <2>2. CASE i - Len(l) \in 1..Len(m) /\ s[i] = m[i - Len(l)]
    <3> DEFINE k == i - Len(l)
    <3>1. k \in 1..Len(m) /\ s[i] = m[k]
      BY <2>2
    <3> HIDE DEF k
    <3> QED
      BY <1>2, <1>4, <3>1
  <2> QED
    BY <1>5, <2>1, <2>2
<1>7. ASSUME NEW i \in 1..Len(s)-1 PROVE s[i].offset + s[i].width = s[i+1].offset
  <2>1. CASE i < Len(l)
    <3>1. i \in 1..Len(l)-1 /\ i \in 1..Len(l) /\ i+1 \in 1..Len(l)
      BY <1>1, <2>1
    <3> QED
      BY <1>1, <1>3, <3>1
  <2>2. CASE i = Len(l)
    <3>1. i \in 1..Len(l) /\ 1 \in 1..Len(m)
      BY <1>1, <1>2, <2>2
    <3> QED
      BY <1>1, <1>2, <1>3, <2>2, <3>1
  <2>3. CASE i > Len(l)
    <3> DEFINE k == i - Len(l)
    <3>1. k \in 1..Len(m)-1 /\ k \in 1..Len(m) /\ k+1 \in 1..Len(m)
          /\ Len(l) + k = i /\ Len(l) + (k + 1) = i + 1
      BY <1>1, <1>2, <1>3, <2>3
    <3> HIDE DEF k
    <3>2. s[i] = m[k] /\ s[i+1] = m[k+1]
      BY <1>3, <3>1
    <3> QED
      BY <1>2, <3>1, <3>2
  <2> QED
    BY <1>1, <1>2, <1>3, <2>1, <2>2, <2>3
<1>8. s[1].offset = a
  BY <1>1, <1>3
<1>9. s[Len(s)].offset + s[Len(s)].width = c /\ Len(s) # 0
  <2>1. Len(m) \in 1..Len(m) /\ Len(s) = Len(l) + Len(m)
    BY <1>2, <1>3
  <2>2. s[Len(s)] = m[Len(m)]
    BY <1>3, <2>1
  <2> QED
    BY <1>1, <1>2, <2>1, <2>2
<1> QED
  BY <1>3, <1>6, <1>7, <1>8, <1>9 DEF Tiles, s

LEMMA TuplesAre ==
  /\ \A a : IsSeq(<<a>>) /\ Len(<<a>>) = 1
  /\ \A a, b : IsSeq(<<a, b>>) /\ Len(<<a, b>>) = 2
  /\ \A a, b, c : IsSeq(<<a, b, c>>) /\ Len(<<a, b, c>>) = 3
  /\ \A a, b, c, d : IsSeq(<<a, b, c, d>>) /\ Len(<<a, b, c, d>>) = 4
  /\ \A a, b, c, d, e : IsSeq(<<a, b, c, d, e>>) /\ Len(<<a, b, c, d, e>>) = 5
  /\ \A a, b, c, d, e, f, g, h, i : IsSeq(<<a, b, c, d, e, f, g, h, i>>) /\ Len(<<a, b, c, d, e, f, g, h, i>>) = 9
  /\ \A a, b, c, d, e, f, g, h, i, j, k, l, m, n : IsSeq(<<a, b, c, d, e, f, g, h, i, j, k, l, m, n>>) /\ Len(<<a, b, c, d, e, f, g, h, i, j, k, l, m, n>>) = 14
<1>1. ASSUME NEW a
      PROVE  IsSeq(<<a>>) /\ Len(<<a>>) = 1
  <2>1. <<a>> \in Seq({a})
    OBVIOUS
  <2> QED
    BY <2>1 DEF IsSeq
<1>2. ASSUME NEW a, NEW b
      PROVE  IsSeq(<<a, b>>) /\ Len(<<a, b>>) = 2
  <2>1. <<a, b>> \in Seq({a, b})
    OBVIOUS
  <2> QED
    BY <2>1 DEF IsSeq
<1>3. ASSUME NEW a, NEW b, NEW c
      PROVE  IsSeq(<<a, b, c>>) /\ Len(<<a, b, c>>) = 3
  <2>1. <<a, b, c>> \in Seq({a, b, c})
    OBVIOUS
  <2> QED
    BY <2>1 DEF IsSeq
<1>4. ASSUME NEW a, NEW b, NEW c, NEW d
      PROVE  IsSeq(<<a, b, c, d>>) /\ Len(<<a, b, c, d>>) = 4
  <2>1. <<a, b, c, d>> \in Seq({a, b, c, d})
    OBVIOUS
  <2> QED
    BY <2>1 DEF IsSeq
<1>5. ASSUME NEW a, NEW b, NEW c, NEW d, NEW e
      PROVE  IsSeq(<<a, b, c, d, e>>) /\ Len(<<a, b, c, d, e>>) = 5
  <2>1. <<a, b, c, d, e>> \in Seq({a, b, c, d, e})
    OBVIOUS
  <2> QED
    BY <2>1 DEF IsSeq
<1>6. ASSUME NEW a, NEW b, NEW c, NEW d, NEW e, NEW f, NEW g, NEW h, NEW i
      PROVE  IsSeq(<<a, b, c, d, e, f, g, h, i>>) /\ Len(<<a, b, c, d, e, f, g, h, i>>) = 9
  <2>1. <<a, b, c, d, e, f, g, h, i>> \in Seq({a, b, c, d, e, f, g, h, i})
    OBVIOUS
  <2> QED
    BY <2>1 DEF IsSeq
<1>7. ASSUME NEW a, NEW b, NEW c, NEW d, NEW e, NEW f, NEW g, NEW h, NEW i, NEW j, NEW k, NEW l, NEW m, NEW n
      PROVE  IsSeq(<<a, b, c, d, e, f, g, h, i, j, k, l, m, n>>) /\ Len(<<a, b, c, d, e, f, g, h, i, j, k, l, m, n>>) = 14
  <2>1. <<a, b, c, d, e, f, g, h, i, j, k, l, m, n>> \in Seq({a, b, c, d, e, f, g, h, i, j, k, l, m, n})
    OBVIOUS
  <2> QED
    BY <2>1 DEF IsSeq
<1> QED
  BY <1>1, <1>2, <1>3, <1>4, <1>5, <1>6, <1>7

LEMMA HeaderLayoutTiles == Tiles(HeaderLayout, 1, 11)
<1> DEFINE l == HeaderLayout
<1>1. IsSeq(l) /\ Len(l) = 3
  BY TuplesAre DEF HeaderLayout
<1>2. /\ l[1].offset = 1 /\ l[1].width = 2
      /\ l[2].offset = 3 /\ l[2].width = 2
      /\ l[3].offset = 5 /\ l[3].width = 6
  BY FieldIs DEF HeaderLayout
<1> HIDE DEF l
<1> QED
  BY <1>1, <1>2 DEF Tiles, l

LEMMA ReferenceAt11Tiles == Tiles(ReferenceAt11, 11, 19)
<1> DEFINE l == ReferenceAt11
<1>1. IsSeq(l) /\ Len(l) = 1
  BY TuplesAre DEF ReferenceAt11
<1>2. /\ l[1].offset = 11 /\ l[1].width = 8
  BY FieldIs DEF ReferenceAt11
<1> HIDE DEF l
<1> QED
  BY <1>1, <1>2 DEF Tiles, l

LEMMA SideToPriceTiles == Tiles(SideToPrice, 19, 36)
<1> DEFINE l == SideToPrice
<1>1. IsSeq(l) /\ Len(l) = 4
  BY TuplesAre DEF SideToPrice
<1>2. /\ l[1].offset = 19 /\ l[1].width = 1
      /\ l[2].offset = 20 /\ l[2].width = 4
      /\ l[3].offset = 24 /\ l[3].width = 8
      /\ l[4].offset = 32 /\ l[4].width = 4
  BY FieldIs DEF SideToPrice
<1> HIDE DEF l
<1> QED
  BY <1>1, <1>2 DEF Tiles, l

LEMMA ExecutionTiles == Tiles(Execution, 19, 31)
<1> DEFINE l == Execution
<1>1. IsSeq(l) /\ Len(l) = 2
  BY TuplesAre DEF Execution
<1>2. /\ l[1].offset = 19 /\ l[1].width = 4
      /\ l[2].offset = 23 /\ l[2].width = 8
  BY FieldIs DEF Execution
<1> HIDE DEF l
<1> QED
  BY <1>1, <1>2 DEF Tiles, l

LEMMA AdministrativeLayout_STiles == Tiles(AdministrativeLayout.S, 11, 12)
<1> DEFINE l == AdministrativeLayout.S
<1>1. IsSeq(l) /\ Len(l) = 1
  BY TuplesAre DEF AdministrativeLayout
<1>2. /\ l[1].offset = 11 /\ l[1].width = 1
  BY FieldIs DEF AdministrativeLayout
<1> HIDE DEF l
<1> QED
  BY <1>1, <1>2 DEF Tiles, l

LEMMA AdministrativeLayout_RTiles == Tiles(AdministrativeLayout.R, 11, 39)
<1> DEFINE l == AdministrativeLayout.R
<1>1. IsSeq(l) /\ Len(l) = 14
  BY TuplesAre DEF AdministrativeLayout
<1>2. /\ l[1].offset = 11 /\ l[1].width = 8
      /\ l[2].offset = 19 /\ l[2].width = 1
      /\ l[3].offset = 20 /\ l[3].width = 1
      /\ l[4].offset = 21 /\ l[4].width = 4
      /\ l[5].offset = 25 /\ l[5].width = 1
      /\ l[6].offset = 26 /\ l[6].width = 1
      /\ l[7].offset = 27 /\ l[7].width = 2
      /\ l[8].offset = 29 /\ l[8].width = 1
      /\ l[9].offset = 30 /\ l[9].width = 1
      /\ l[10].offset = 31 /\ l[10].width = 1
      /\ l[11].offset = 32 /\ l[11].width = 1
      /\ l[12].offset = 33 /\ l[12].width = 1
      /\ l[13].offset = 34 /\ l[13].width = 4
      /\ l[14].offset = 38 /\ l[14].width = 1
  BY FieldIs DEF AdministrativeLayout
<1> HIDE DEF l
<1> QED
  BY <1>1, <1>2 DEF Tiles, l

LEMMA AdministrativeLayout_HTiles == Tiles(AdministrativeLayout.H, 11, 25)
<1> DEFINE l == AdministrativeLayout.H
<1>1. IsSeq(l) /\ Len(l) = 4
  BY TuplesAre DEF AdministrativeLayout
<1>2. /\ l[1].offset = 11 /\ l[1].width = 8
      /\ l[2].offset = 19 /\ l[2].width = 1
      /\ l[3].offset = 20 /\ l[3].width = 1
      /\ l[4].offset = 21 /\ l[4].width = 4
  BY FieldIs DEF AdministrativeLayout
<1> HIDE DEF l
<1> QED
  BY <1>1, <1>2 DEF Tiles, l

LEMMA OrderLayout_UTiles == Tiles(OrderLayout.U, 11, 35)
<1> DEFINE l == OrderLayout.U
<1>1. IsSeq(l) /\ Len(l) = 4
  BY TuplesAre DEF OrderLayout
<1>2. /\ l[1].offset = 11 /\ l[1].width = 8
      /\ l[2].offset = 19 /\ l[2].width = 8
      /\ l[3].offset = 27 /\ l[3].width = 4
      /\ l[4].offset = 31 /\ l[4].width = 4
  BY FieldIs DEF OrderLayout
<1> HIDE DEF l
<1> QED
  BY <1>1, <1>2 DEF Tiles, l

LEMMA TradeLayout_QTiles == Tiles(TradeLayout.Q, 11, 40)
<1> DEFINE l == TradeLayout.Q
<1>1. IsSeq(l) /\ Len(l) = 5
  BY TuplesAre DEF TradeLayout
<1>2. /\ l[1].offset = 11 /\ l[1].width = 8
      /\ l[2].offset = 19 /\ l[2].width = 8
      /\ l[3].offset = 27 /\ l[3].width = 4
      /\ l[4].offset = 31 /\ l[4].width = 8
      /\ l[5].offset = 39 /\ l[5].width = 1
  BY FieldIs DEF TradeLayout
<1> HIDE DEF l
<1> QED
  BY <1>1, <1>2 DEF Tiles, l

LEMMA TradeLayout_BTiles == Tiles(TradeLayout.B, 11, 19)
<1> DEFINE l == TradeLayout.B
<1>1. IsSeq(l) /\ Len(l) = 1
  BY TuplesAre DEF TradeLayout
<1>2. /\ l[1].offset = 11 /\ l[1].width = 8
  BY FieldIs DEF TradeLayout
<1> HIDE DEF l
<1> QED
  BY <1>1, <1>2 DEF Tiles, l

LEMMA TradeLayout_ITiles == Tiles(TradeLayout.I, 11, 50)
<1> DEFINE l == TradeLayout.I
<1>1. IsSeq(l) /\ Len(l) = 9
  BY TuplesAre DEF TradeLayout
<1>2. /\ l[1].offset = 11 /\ l[1].width = 8
      /\ l[2].offset = 19 /\ l[2].width = 8
      /\ l[3].offset = 27 /\ l[3].width = 1
      /\ l[4].offset = 28 /\ l[4].width = 8
      /\ l[5].offset = 36 /\ l[5].width = 4
      /\ l[6].offset = 40 /\ l[6].width = 4
      /\ l[7].offset = 44 /\ l[7].width = 4
      /\ l[8].offset = 48 /\ l[8].width = 1
      /\ l[9].offset = 49 /\ l[9].width = 1
  BY FieldIs DEF TradeLayout
<1> HIDE DEF l
<1> QED
  BY <1>1, <1>2 DEF Tiles, l

\* The fields of a known message follow each other from its header to its end.
LEMMA LayoutTiles == \A t \in DOMAIN Code : Tiles(Layout(t), 11, Size[t])
<1>1. DOMAIN Code = {"S", "R", "H"} \cup {"A", "F", "E", "C", "X", "D", "U"} \cup {"P", "Q", "B", "I"}
  BY DEF Code
<1>2. /\ DOMAIN AdministrativeLayout = {"S", "R", "H"}
      /\ DOMAIN OrderLayout = {"A", "F", "E", "C", "X", "D", "U"}
      /\ DOMAIN TradeLayout = {"P", "Q", "B", "I"}
  BY DEF AdministrativeLayout, OrderLayout, TradeLayout
<1>3. \A n, o, w, e : o \in Nat /\ w \in Nat \ {0} /\ e = o + w => Tiles(<<Field(n, o, w)>>, o, e)
  <2> SUFFICES ASSUME NEW n, NEW o \in Nat, NEW w \in Nat \ {0}, NEW e, e = o + w
               PROVE  Tiles(<<Field(n, o, w)>>, o, e)
    BY Zenon
  <2> DEFINE l == <<Field(n, o, w)>>
  <2>1. IsSeq(l) /\ Len(l) = 1 /\ l[1].offset = o /\ l[1].width = w
    BY TuplesAre, FieldIs
  <2> HIDE DEF l
  <2> QED
    BY <2>1 DEF Tiles, l
<1>4. ASSUME NEW l, NEW m, NEW b \in Nat, NEW c \in Nat, Tiles(l, 11, b), Tiles(m, b, c)
      PROVE  Tiles(l \o m, 11, c)
  BY <1>4, ConcatTiles
<1>5. Tiles(ReferenceAt11 \o SideToPrice, 11, 36) /\ Tiles(ReferenceAt11 \o Execution, 11, 31)
  BY <1>4, ReferenceAt11Tiles, SideToPriceTiles, ExecutionTiles
<1>6. /\ Tiles(OrderLayout.A, 11, 36) /\ Tiles(OrderLayout.E, 11, 31)
      /\ Tiles(OrderLayout.D, 11, 19)
  BY <1>5, ReferenceAt11Tiles DEF OrderLayout
<1>7. Tiles(OrderLayout.F, 11, 40)
  <2>1. Tiles(<<Field("attribution", 36, 4)>>, 36, 40)
    <3>1. 36 \in Nat /\ 4 \in Nat \ {0} /\ 40 = 36 + 4
      OBVIOUS
    <3> QED
      BY <1>3, <3>1, Zenon
  <2>2. OrderLayout.F = (ReferenceAt11 \o SideToPrice) \o <<Field("attribution", 36, 4)>>
    BY DEF OrderLayout
  <2> QED
    BY <1>4, <1>5, <2>1, <2>2
<1>8. Tiles(OrderLayout.X, 11, 23)
  <2>1. Tiles(<<Field("canceled_shares", 19, 4)>>, 19, 23)
    BY <1>3
  <2>2. OrderLayout.X = ReferenceAt11 \o <<Field("canceled_shares", 19, 4)>>
    BY DEF OrderLayout
  <2> QED
    BY <1>4, <2>1, <2>2, ReferenceAt11Tiles
<1>9. Tiles(OrderLayout.C, 11, 36)
  <2> DEFINE l == <<Field("printable", 31, 1), Field("execution_price", 32, 4)>>
  <2>1. IsSeq(l) /\ Len(l) = 2
    BY TuplesAre
  <2>2. l[1].offset = 31 /\ l[1].width = 1 /\ l[2].offset = 32 /\ l[2].width = 4
    BY FieldIs
  <2>3. OrderLayout.C = (ReferenceAt11 \o Execution) \o l
    BY DEF OrderLayout
  <2> HIDE DEF l
  <2>4. Tiles(l, 31, 36)
    BY <2>1, <2>2 DEF Tiles
  <2> QED
    BY <1>4, <1>5, <2>3, <2>4
<1>10. Tiles(TradeLayout.P, 11, 44)
  <2>1. Tiles(<<Field("match_number", 36, 8)>>, 36, 44)
    <3>1. 36 \in Nat /\ 8 \in Nat \ {0} /\ 44 = 36 + 8
      OBVIOUS
    <3> QED
      BY <1>3, <3>1, Zenon
  <2>2. TradeLayout.P = (ReferenceAt11 \o SideToPrice) \o <<Field("match_number", 36, 8)>>
    BY DEF TradeLayout
  <2> QED
    BY <1>4, <1>5, <2>1, <2>2
<1>11. /\ Size.S = 12 /\ Size.R = 39 /\ Size.H = 25 /\ Size.A = 36 /\ Size.F = 40 /\ Size.E = 31
       /\ Size.C = 36 /\ Size.X = 23 /\ Size.D = 19 /\ Size.U = 35 /\ Size.P = 44 /\ Size.Q = 40
       /\ Size.B = 19 /\ Size.I = 50
  BY DEF Size
<1>12. \A t \in {"S", "R", "H"} : Tiles(AdministrativeLayout[t], 11, Size[t])
  BY <1>11, AdministrativeLayout_STiles, AdministrativeLayout_RTiles, AdministrativeLayout_HTiles
<1>13. \A t \in {"A", "F", "E", "C", "X", "D", "U"} : Tiles(OrderLayout[t], 11, Size[t])
  BY <1>6, <1>7, <1>8, <1>9, <1>11, OrderLayout_UTiles
<1>14. \A t \in {"P", "Q", "B", "I"} : Tiles(TradeLayout[t], 11, Size[t])
  BY <1>10, <1>11, TradeLayout_QTiles, TradeLayout_BTiles, TradeLayout_ITiles
<1>15. /\ \A t \in {"S", "R", "H"} : Layout(t) = AdministrativeLayout[t]
       /\ \A t \in {"A", "F", "E", "C", "X", "D", "U"} : Layout(t) = OrderLayout[t]
       /\ \A t \in {"P", "Q", "B", "I"} : Layout(t) = TradeLayout[t]
  <2>1. ASSUME NEW t \in {"S", "R", "H"} PROVE Layout(t) = AdministrativeLayout[t]
    <3>1. t \notin DOMAIN OrderLayout /\ t \notin DOMAIN TradeLayout /\ t \in DOMAIN AdministrativeLayout
      BY <1>2
    <3> QED
      BY <3>1 DEF Layout
  <2>2. ASSUME NEW t \in {"A", "F", "E", "C", "X", "D", "U"} PROVE Layout(t) = OrderLayout[t]
    <3>1. t \in DOMAIN OrderLayout /\ t \notin DOMAIN TradeLayout /\ t \notin DOMAIN AdministrativeLayout
      BY <1>2
    <3> QED
      BY <3>1 DEF Layout
  <2>3. ASSUME NEW t \in {"P", "Q", "B", "I"} PROVE Layout(t) = TradeLayout[t]
    <3>1. t \notin DOMAIN OrderLayout /\ t \in DOMAIN TradeLayout /\ t \notin DOMAIN AdministrativeLayout
      BY <1>2
    <3> QED
      BY <3>1 DEF Layout
  <2> QED
    BY <2>1, <2>2, <2>3
<1> QED
  BY <1>1, <1>12, <1>13, <1>14, <1>15

-----------------------------------------------------------------------------
(* The bytes of an event.                                                  *)

LEMMA NatSet ==
  ASSUME NEW T \in SUBSET Nat, 0 \in T, \A n \in T : n + 1 \in T
  PROVE  T = Nat
<1> DEFINE R == OpToRel(<, Nat)
           U == Nat \ T
<1>1. CASE U = {}
  BY <1>1
<1>2. CASE U # {}
  <2>1. PICK x \in U : \A y \in U : <<y, x>> \notin R
    <3>1. IsWellFoundedOn(R, Nat) /\ U \subseteq Nat
      BY NatLessThanWellFounded
    <3> HIDE DEF R, U
    <3> QED
      BY <1>2, <3>1, WFMin
  <2>2. ASSUME NEW y \in Nat, y < x PROVE y \in T
    <3>1. <<y, x>> \in R
      BY <2>2 DEF OpToRel
    <3> HIDE DEF R
    <3> QED
      BY <2>1, <3>1
  <2> HIDE DEF R
  <2>3. x \in Nat /\ x # 0 /\ x \notin T
    OBVIOUS
  <2>4. x - 1 \in Nat /\ x - 1 < x /\ (x - 1) + 1 = x
    BY <2>3
  <2> QED
    BY <2>2, <2>3, <2>4
<1> QED
  BY <1>1, <1>2

\* g puts the parts s[1], ..., s[n] together, one after the other.
Joins(g, s, n) == g = [i \in 1..n |-> IF i = 1 THEN s[i] ELSE g[i-1] \o s[i]]

LEMMA JoinsAt ==
  ASSUME NEW g, NEW s, NEW n \in Nat, Joins(g, s, n)
  PROVE  /\ n >= 1 => g[1] = s[1]
         /\ \A k \in 1..n-1 : g[k+1] = g[k] \o s[k+1]
<1> DEFINE e(i) == IF i = 1 THEN s[i] ELSE g[i-1] \o s[i]
<1>1. \A i \in 1..n : g[i] = e(i)
  <2>1. g = [i \in 1..n |-> e(i)]
    BY DEF Joins
  <2> HIDE DEF e
  <2> QED
    BY <2>1
<1>2. n >= 1 => g[1] = s[1]
  BY <1>1
<1>3. ASSUME NEW k \in 1..n-1 PROVE g[k+1] = g[k] \o s[k+1]
  <2>1. k + 1 \in 1..n /\ k + 1 # 1 /\ (k + 1) - 1 = k
    OBVIOUS
  <2> QED
    BY <1>1, <2>1
<1> QED
  BY <1>2, <1>3

\* FlattenSeq joins the parts: the choice it makes is the only one.
LEMMA FlattenIs ==
  ASSUME NEW s, NEW n \in Nat \ {0}, Len(s) = n, NEW F, Joins(F, s, n)
  PROVE  FlattenSeq(s) = F[n]
<1> DEFINE g == CHOOSE f : f = [i \in 1..n |-> IF i = 1 THEN s[i] ELSE f[i-1] \o s[i]]
<1>1. FlattenSeq(s) = g[n]
  BY DEF FlattenSeq
<1>2. Joins(g, s, n)
  <2>1. \E f : f = [i \in 1..n |-> IF i = 1 THEN s[i] ELSE f[i-1] \o s[i]]
    BY Zenon DEF Joins
  <2>2. g = [i \in 1..n |-> IF i = 1 THEN s[i] ELSE g[i-1] \o s[i]]
    BY <2>1, Zenon
  <2> HIDE DEF g
  <2> QED
    BY <2>2, Zenon DEF Joins
<1> HIDE DEF g
<1> DEFINE T == {k \in Nat : \A i \in 1..n : i = k + 1 => g[i] = F[i]}
<1>3. 0 \in T
  <2>1. n \in Nat /\ n >= 1
    OBVIOUS
  <2>2. g[1] = s[1]
    BY <1>2, <2>1, JoinsAt
  <2>3. F[1] = s[1]
    BY <2>1, JoinsAt
  <2> QED
    BY <2>2, <2>3
<1>4. ASSUME NEW k \in T PROVE k + 1 \in T
  <2> SUFFICES ASSUME NEW i \in 1..n, i = (k + 1) + 1 PROVE g[i] = F[i]
    OBVIOUS
  <2> DEFINE j == k + 1
  <2>1. j \in 1..n-1 /\ j \in 1..n /\ i = j + 1
    OBVIOUS
  <2>2. g[j] = F[j]
    BY <1>4, <2>1
  <2> HIDE DEF j, T
  <2>3. g[j+1] = g[j] \o s[j+1] /\ F[j+1] = F[j] \o s[j+1]
    BY <1>2, <2>1, JoinsAt
  <2> QED
    BY <2>1, <2>2, <2>3
<1>5. T = Nat
  <2>1. T \in SUBSET Nat
    OBVIOUS
  <2> HIDE DEF T
  <2> QED
    BY <1>3, <1>4, <2>1, NatSet
<1>6. g[n] = F[n]
  <2>1. n - 1 \in Nat /\ (n - 1) + 1 = n /\ n \in 1..n
    OBVIOUS
  <2>2. n - 1 \in T
    BY <1>5, <2>1
  <2> QED
    BY <2>1, <2>2
<1> QED
  BY <1>1, <1>6

LEMMA FlattenOne ==
  ASSUME NEW x
  PROVE  FlattenSeq(<<x>>) = x
<1> DEFINE s == <<x>>
           F == [i \in 1..1 |-> x]
<1>1. Len(s) = 1 /\ s[1] = x /\ F[1] = x
  OBVIOUS
<1>2. [i \in 1..1 |-> IF i = 1 THEN s[i] ELSE F[i-1] \o s[i]] = F
  OBVIOUS
<1>3. Joins(F, s, 1)
  BY <1>2 DEF Joins
<1> HIDE DEF s, F
<1> QED
  BY <1>1, <1>3, FlattenIs DEF s

LEMMA FlattenNone == FlattenSeq(<<>>) = <<>>
BY DEF FlattenSeq

\* The fields of a layout, put together, are the part of the message that the
\* layout covers.
LEMMA FlattenTiled ==
  ASSUME NEW message \in Seq(Byte), NEW a \in Nat, NEW b \in Nat, NEW l,
         Tiles(l, a, b), b <= Len(message)
  PROVE  FlattenSeq(read_fields(message, l)) = SubSeq(message, a + 1, b)
<1> DEFINE n == Len(l)
           s == read_fields(message, l)
           upTo(i) == l[i].offset + l[i].width
           F == [i \in 1..n |-> SubSeq(message, a + 1, upTo(i))]
<1>1. /\ DOMAIN l = 1..n /\ n \in Nat \ {0}
      /\ \A i \in 1..n : /\ l[i].offset \in Nat /\ l[i].width \in Nat \ {0}
                         /\ a <= l[i].offset /\ upTo(i) <= b
      /\ l[1].offset = a /\ upTo(n) = b
      /\ \A i \in 1..n-1 : upTo(i) = l[i+1].offset
  BY IsSeqIs DEF Tiles
<1>2. s = [i \in 1..n |-> SubSeq(message, l[i].offset + 1, upTo(i))]
  BY <1>1 DEF read_fields, read
<1>3. Len(s) = n
  BY <1>1, <1>2
<1> HIDE DEF s, n
<1>4. ASSUME NEW i \in 1..n
      PROVE  F[i] = IF i = 1 THEN s[i] ELSE F[i-1] \o s[i]
  <2>1. CASE i = 1
    BY <1>1, <1>2, <2>1
  <2>2. CASE i # 1
    <3> DEFINE k == i - 1
    <3>1. k \in 1..n-1 /\ k \in 1..n /\ k + 1 = i
      BY <1>1, <2>2
    <3>2. F[k] = SubSeq(message, a + 1, l[i].offset) /\ upTo(k) = l[i].offset
      BY <1>1, <3>1
    <3>3. /\ a + 1 \in 1..Len(message)+1
          /\ l[i].offset \in (a+1)-1..Len(message)
          /\ upTo(i) \in l[i].offset..Len(message)
      <4>1. Len(message) \in Nat
        OBVIOUS
      <4>2. l[i].offset \in Nat /\ l[i].width \in Nat /\ a <= l[i].offset /\ upTo(i) <= b
        BY <1>1
      <4> QED
        BY <4>1, <4>2
    <3>4. SubSeq(message, a + 1, l[i].offset) \o SubSeq(message, l[i].offset + 1, upTo(i))
            = SubSeq(message, a + 1, upTo(i))
      <4> DEFINE o == l[i].offset
                 u == upTo(i)
      <4>1. a + 1 \in 1..Len(message)+1 /\ o \in (a+1)-1..Len(message) /\ u \in o..Len(message)
        BY <3>3
      <4> HIDE DEF o, u
      <4>2. SubSeq(message, a + 1, o) \o SubSeq(message, o + 1, u) = SubSeq(message, a + 1, u)
        BY <4>1, ConcatAdjacentSubSeq
      <4> QED
        BY <4>2 DEF o, u
    <3> QED
      BY <1>2, <2>2, <3>2, <3>4
  <2> QED
    BY <2>1, <2>2
<1>5. Joins(F, s, n)
  <2>1. F = [i \in 1..n |-> F[i]]
    OBVIOUS
  <2> HIDE DEF F
  <2>2. F = [i \in 1..n |-> IF i = 1 THEN s[i] ELSE F[i-1] \o s[i]]
    BY <1>4, <2>1
  <2> QED
    BY <2>2 DEF Joins
<1>6. FlattenSeq(s) = F[n]
  <2> HIDE DEF F
  <2> QED
    BY <1>1, <1>3, <1>5, FlattenIs
<1>7. F[n] = SubSeq(message, a + 1, b)
  BY <1>1
<1> QED
  BY <1>6, <1>7 DEF s

LEMMA OneToSeq ==
  ASSUME NEW x
  PROVE  SetToSeq({x}) = <<x>>
<1>1. Cardinality({x}) = 1
  BY FS_Singleton
<1>2. ASSUME NEW f \in [1..1 -> {x}] PROVE f = <<x>>
  OBVIOUS
<1>3. <<x>> \in [1..1 -> {x}] /\ IsInjective(<<x>>)
  BY DEF IsInjective
<1>4. (CHOOSE f \in [1..1 -> {x}] : IsInjective(f)) = <<x>>
  BY <1>2, <1>3
<1> QED
  BY <1>1, <1>4 DEF SetToSeq

LEMMA NoneToSeq == SetToSeq({}) = <<>>
<1>1. Cardinality({}) = 0
  BY FS_EmptySet
<1>2. ASSUME NEW f \in [1..0 -> {}] PROVE f = <<>>
  OBVIOUS
<1>3. <<>> \in [1..0 -> {}] /\ IsInjective(<<>>)
  BY DEF IsInjective
<1>4. (CHOOSE f \in [1..0 -> {}] : IsInjective(f)) = <<>>
  BY <1>2, <1>3
<1> QED
  BY <1>1, <1>4 DEF SetToSeq


LEMMA ThreeParts ==
  ASSUME NEW m \in Seq(Byte), Len(m) >= 11
  PROVE  <<m[1]>> \o SubSeq(m, 2, 11) \o SubSeq(m, 12, Len(m)) = m
<1>1. Len(m) \in Nat /\ m[1] \in Byte
  BY ElementOfSeq
<1>2. <<m[1]>> = SubSeq(m, 1, 1)
  BY <1>1
<1>3. SubSeq(m, 1, 1) \o SubSeq(m, 1 + 1, 11) = SubSeq(m, 1, 11)
  <2>1. 1 \in 1..Len(m)+1 /\ 1 \in 1-1..Len(m) /\ 11 \in 1..Len(m)
    BY <1>1
  <2> QED
    BY <2>1, ConcatAdjacentSubSeq
<1>4. SubSeq(m, 1, 11) \o SubSeq(m, 11 + 1, Len(m)) = SubSeq(m, 1, Len(m))
  <2>1. 1 \in 1..Len(m)+1 /\ 11 \in 1-1..Len(m) /\ Len(m) \in 11..Len(m)
    BY <1>1
  <2> QED
    BY <2>1, ConcatAdjacentSubSeq
<1>5. SubSeq(m, 1, Len(m)) = m
  BY SubSeqFull
<1>6. 1 + 1 = 2 /\ 11 + 1 = 12
  OBVIOUS
<1> QED
  BY <1>2, <1>3, <1>4, <1>5, <1>6

\* The header of a message, put together.
LEMMA HeaderBytes ==
  ASSUME NEW m \in Seq(Byte), Len(m) >= 11
  PROVE  FlattenSeq(SetToSeq({FlattenSeq(h) : h \in {read_header(m)}})) = SubSeq(m, 2, 11)
<1>1. FlattenSeq(read_header(m)) = SubSeq(m, 1 + 1, 11)
  BY HeaderLayoutTiles, FlattenTiled DEF read_header
<1>2. {FlattenSeq(h) : h \in {read_header(m)}} = {FlattenSeq(read_header(m))}
  OBVIOUS
<1> DEFINE b == FlattenSeq(read_header(m))
<1>3. SetToSeq({b}) = <<b>> /\ FlattenSeq(<<b>>) = b
  BY OneToSeq, FlattenOne
<1>4. 1 + 1 = 2
  OBVIOUS
<1> QED
  BY <1>1, <1>2, <1>3, <1>4

LEMMA EventBytes ==
  ASSUME NEW m \in Seq(Byte), NEW t \in DOMAIN Code, Len(m) = Size[t]
  PROVE  Bytes(Event(m, Layout(t))) = m
<1> DEFINE event == Event(m, Layout(t))
<1>1. Tiles(Layout(t), 11, Len(m)) /\ Len(m) \in Nat
  BY LayoutTiles
<1>2. Len(m) >= 11
  BY <1>1, IsSeqIs DEF Tiles
<1>3. FlattenSeq(read_fields(m, Layout(t))) = SubSeq(m, 11 + 1, Len(m))
  BY <1>1, FlattenTiled
<1>4. /\ event.type = m[1] /\ event.header = {read_header(m)}
      /\ event.body = read_fields(m, Layout(t))
  BY DEF Event
<1>5. 11 + 1 = 12
  OBVIOUS
<1> QED
  BY <1>2, <1>3, <1>4, <1>5, HeaderBytes, ThreeParts, Zenon DEF Bytes

LEMMA SkippedBytes ==
  ASSUME NEW m \in Seq(Byte), Len(m) # 0
  PROVE  IsPrefix(Bytes(Skipped(m)), m)
<1> DEFINE event == Skipped(m)
           header == FlattenSeq(SetToSeq({FlattenSeq(h) : h \in event.header}))
<1>1. Len(m) \in Nat \ {0} /\ m[1] \in Byte
  BY ElementOfSeq
<1>2. event.type = m[1] /\ event.body = <<>>
      /\ event.header = IF Len(m) >= 11 THEN {read_header(m)} ELSE {}
  BY DEF Skipped, kCommonHeaderBytes
<1>3. Bytes(event) = <<m[1]>> \o header \o <<>>
  BY <1>2, FlattenNone DEF Bytes
<1>4. CASE Len(m) >= 11
  <2>1. header = SubSeq(m, 2, 11)
    BY <1>2, <1>4, HeaderBytes
  <2>2. Bytes(event) = SubSeq(m, 1, 11)
    <3>1. \A i \in 1..Len(m) : m[i] \in Byte
      BY ElementOfSeq
    <3>2. <<m[1]>> = SubSeq(m, 1, 1) /\ SubSeq(m, 1, 11) \in Seq(Byte)
      BY <1>1, <1>4, <3>1
    <3>3. SubSeq(m, 1, 1) \o SubSeq(m, 1 + 1, 11) = SubSeq(m, 1, 11)
      <4>1. 1 \in 1..Len(m)+1 /\ 1 \in 1-1..Len(m) /\ 11 \in 1..Len(m)
        BY <1>1, <1>4
      <4> QED
        BY <4>1, ConcatAdjacentSubSeq
    <3>4. 1 + 1 = 2
      OBVIOUS
    <3> QED
      BY <1>3, <2>1, <3>2, <3>3, <3>4, ConcatEmptySeq
  <2>3. Len(SubSeq(m, 1, 11)) = 11 /\ SubSeq(SubSeq(m, 1, 11), 1, 11) = SubSeq(m, 1, 11)
    <3>1. \A i \in 1..11 : m[i] \in Byte
      BY <1>1, <1>4, ElementOfSeq
    <3>2. SubSeq(m, 1, 11) \in Seq(Byte) /\ Len(SubSeq(m, 1, 11)) = 11
      BY <3>1
    <3> QED
      BY <3>2, SubSeqFull
  <2> QED
    BY <1>1, <1>4, <2>2, <2>3 DEF IsPrefix
<1>5. CASE ~(Len(m) >= 11)
  <2>1. {FlattenSeq(h) : h \in event.header} = {}
    BY <1>2, <1>5
  <2>2. header = <<>>
    BY <2>1, NoneToSeq, FlattenNone
  <2>3. Bytes(event) = <<m[1]>>
    <3>1. <<m[1]>> \in Seq(Byte)
      BY <1>1
    <3>2. <<m[1]>> \o <<>> = <<m[1]>>
      BY <3>1, ConcatEmptySeq
    <3> HIDE DEF event, header
    <3> QED
      BY <1>3, <2>2, <3>2
  <2>4. Len(<<m[1]>>) = 1 /\ SubSeq(<<m[1]>>, 1, 1) = SubSeq(m, 1, 1)
    BY <1>1
  <2> QED
    BY <1>1, <2>3, <2>4 DEF IsPrefix
<1> QED
  BY <1>4, <1>5

\* What the decoder makes of a message that it does not refuse.
LEMMA MessageBytes ==
  ASSUME NEW m \in Seq(Byte), Len(m) # 0, NEW n, decode_message(m, n).status = "Complete"
  PROVE  LET event == decode_message(m, n).event
         IN IF Known(event.type) THEN Bytes(event) = m ELSE IsPrefix(Bytes(event), m)
<1>1. \A e : complete(e, n).event = e
  BY DEF complete
<1>2. CASE Known(m[1])
  <2> DEFINE t == CHOOSE t \in TypesOf(m[1]) : TRUE
             layout == Layout(t)
             side == HasSide(layout) /\ ~valid_side(m[20])
  <2>1. t \in TypesOf(m[1]) /\ t \in DOMAIN Code
    BY <1>2 DEF Known, TypesOf
  <2>2. decode_message(m, n) = decode_known(m, t, n)
    BY <1>2 DEF decode_message
  <2> HIDE DEF t
  <2>3. Len(m) = Size[t] /\ decode_message(m, n) = complete(Event(m, layout), n)
    <3>1. \A c, o : error(c, o).status # "Complete"
      BY DEF error
    <3>2. CASE Len(m) # Size[t]
      <4>1. \E c, o : decode_known(m, t, n) = error(c, o)
        BY <3>2 DEF decode_known
      <4> QED
        BY <2>2, <3>1, <4>1
    <3>3. CASE Len(m) = Size[t] /\ side
      <4>1. \E c, o : decode_known(m, t, n) = error(c, o)
        BY <3>3 DEF decode_known
      <4> QED
        BY <2>2, <3>1, <4>1
    <3>4. CASE Len(m) = Size[t] /\ ~side
      BY <2>2, <3>4 DEF decode_known
    <3> QED
      BY <3>2, <3>3, <3>4
  <2>4. decode_message(m, n).event = Event(m, layout) /\ Event(m, layout).type = m[1]
    BY <1>1, <2>3 DEF Event
  <2> QED
    BY <1>2, <2>1, <2>3, <2>4, EventBytes
<1>3. CASE ~Known(m[1])
  <2>1. decode_message(m, n).event = Skipped(m) /\ Skipped(m).type = m[1]
    BY <1>1, <1>3 DEF decode_message, Skipped
  <2> QED
    BY <1>3, <2>1, SkippedBytes
<1> QED
  BY <1>2, <1>3

-----------------------------------------------------------------------------
(* A read.                                                                 *)

LEMMA ReadsType == \A m \in Reads : m \in Nat \ {0}
BY ReaderAssumption

\* The least of three is one of them.
LEMMA MinOfThree ==
  ASSUME NEW a \in Nat \ {0}, NEW b \in Nat \ {0}, NEW c \in Nat \ {0}
  PROVE  /\ Min({a, b, c}) \in Nat \ {0}
         /\ Min({a, b, c}) <= b /\ Min({a, b, c}) <= c
<1> DEFINE S == {a, b, c}
<1>1. \E x \in S : \A y \in S : x <= y
  OBVIOUS
<1>2. Min(S) \in S /\ \A y \in S : Min(S) <= y
  BY <1>1 DEF Min
<1> QED
  BY <1>2

\* What a read may return: at least a byte where there is one, and at most what
\* was asked for.
LEMMA ReadsAtMost ==
  ASSUME NEW capacity \in Nat \ {0}, NEW n \in read_at_most(capacity),
         Len(file) \in Nat, position \in 0..Len(file)
  PROVE  \/ n \in 1..capacity /\ position + n \in 0..Len(file)
         \/ n = -1 /\ position = Len(file) /\ ending = "read error"
         \/ n = 0 /\ position = Len(file) /\ ending # "read error"
<1> DEFINE left == Len(file) - position
<1>2. CASE position < Len(file)
  <2>1. left \in Nat \ {0}
    BY <1>2
  <2>2. n \in {Min({m, capacity, left}) : m \in Reads}
    <3>1. position # Len(file)
      BY <1>2
    <3> QED
      BY <1>2, <3>1 DEF read_at_most
  <2>3. n \in Nat \ {0} /\ n <= capacity /\ n <= left
    BY <2>1, <2>2, ReadsType, MinOfThree
  <2>4. n \in 1..capacity /\ position + n \in 0..Len(file)
    BY <1>2, <2>3
  <2> QED
    BY <2>4
<1>3. CASE position = Len(file)
  <2>1. ~(position < Len(file))
    BY <1>3
  <2>2. ending = "read error" => n \in {-1}
    BY <1>3, <2>1, Zenon DEF read_at_most
  <2>3. ending # "read error" => n \in {0}
    BY <1>3, <2>1, Zenon DEF read_at_most
  <2> QED
    BY <1>3, <2>2, <2>3, Zenon
<1>4. position < Len(file) \/ position = Len(file)
  OBVIOUS
<1> QED
  BY <1>2, <1>3, <1>4

-----------------------------------------------------------------------------
(* The invariant: the buffers hold the bytes read since the last frame.    *)

EventType == {decode_next(f).event : f \in Seq(Byte)}

\* How far the frames before this one reach.
Begun == position - Pending

Types ==
  /\ file \in Seq(Byte) /\ ending \in Endings /\ position \in 0..Len(file) /\ Begun \in Nat
  /\ reader \in [stage : Stage, prefix : Byte \X Byte, got : Nat]
  /\ frame \in Seq(Byte) /\ events \in Seq(EventType)
  /\ outcome \in {"reading", "end of file", "failed"}

\* Of a prefix only begun, its first byte.
PrefixHeld ==
  reader.stage = "prefix" =>
    reader.got \in 0..1 /\ \A i \in 1..reader.got : reader.prefix[i] = file[Begun + i]

\* The buffer has exactly the room of the frame, and the prefix is its own.
FrameFits ==
  reader.stage # "prefix" =>
    /\ Len(frame) = 2 + Length(reader.prefix)
    /\ frame[1] = reader.prefix[1] /\ frame[2] = reader.prefix[2]

\* No byte of an older frame is among the bytes of this one.
BytesHeld ==
  reader.stage # "prefix" =>
    \A i \in 1..Pending : frame[i] = file[Begun + i]

\* The payload that is being read has bytes left to read.
PartMissing ==
  reader.stage = "payload" => reader.got < Length(reader.prefix)

Held == PrefixHeld /\ FrameFits /\ BytesHeld /\ PartMissing

\* Between two frames the last event is what the decoder made of the buffer,
\* and the buffer holds the bytes behind which the next frame begins.
LastDecoded ==
  (reader = Start /\ events # <<>>) =>
    /\ IsFrame(frame) /\ Len(frame) <= position
    /\ \A i \in 1..Len(frame) : frame[i] = file[position - Len(frame) + i]
    /\ decode_next(frame).status = "Complete" /\ Last(events) = decode_next(frame).event

Inv == Types /\ Held /\ LastDecoded

LEMMA PrefixLength ==
  ASSUME NEW prefix \in Byte \X Byte
  PROVE  Length(prefix) \in Nat /\ prefix[1] \in Byte /\ prefix[2] \in Byte
<1>1. prefix[1] \in Nat /\ prefix[2] \in Nat /\ prefix[1] \in Byte /\ prefix[2] \in Byte
  BY ByteIsNat
<1> QED
  BY <1>1 DEF Length

LEMMA PendingIs ==
  /\ reader.stage = "prefix" => Pending = reader.got
  /\ reader.stage = "payload" => Pending = 2 + reader.got
  /\ reader.stage = "whole" => Pending = Len(frame)
BY DEF Pending, kFramePrefixBytes

LEMMA PendingNext ==
  /\ reader'.stage = "prefix" => Pending' = reader'.got
  /\ reader'.stage = "payload" => Pending' = 2 + reader'.got
  /\ reader'.stage = "whole" => Pending' = Len(frame')
BY DEF Pending, kFramePrefixBytes

LEMMA InitInv == Init => Inv
<1> SUFFICES ASSUME Init PROVE Inv
  OBVIOUS
<1>1. /\ file \in Seq(Byte) /\ ending \in Endings
      /\ position = 0 /\ reader = Start /\ frame = <<>> /\ events = <<>> /\ outcome = "reading"
  BY ReaderAssumption DEF Init
<1>2. reader.stage = "prefix" /\ reader.got = 0 /\ reader.prefix = <<0, 0>>
  BY <1>1 DEF Start
<1>3. Pending = 0 /\ Begun = 0
  BY <1>1, <1>2, PendingIs DEF Begun
<1>4. reader \in [stage : Stage, prefix : Byte \X Byte, got : Nat]
  BY <1>1 DEF Start, Stage, Byte
<1>5. Types
  <2>1. Len(file) \in Nat
    BY <1>1
  <2> QED
    BY <1>1, <1>3, <1>4, <2>1 DEF Types
<1>6. Held
  BY <1>2 DEF Held, PrefixHeld, FrameFits, BytesHeld, PartMissing
<1>7. LastDecoded
  BY <1>1 DEF LastDecoded
<1> QED
  BY <1>5, <1>6, <1>7 DEF Inv

-----------------------------------------------------------------------------
(* A step of the reader that stores bytes, one that stops, one that        *)
(* decodes.                                                                *)

LEMMA FileType ==
  ASSUME Types
  PROVE  /\ file \in Seq(Byte) /\ Len(file) \in Nat
         /\ position \in Nat /\ position \in 0..Len(file)
         /\ \A k \in 1..Len(file) : file[k] \in Byte
<1>1. file \in Seq(Byte) /\ position \in 0..Len(file)
  BY Zenon DEF Types
<1> QED
  BY <1>1, ElementOfSeq, LenProperties

Stored(L, buffer, got, n) ==
  LET b == Store(buffer, got, n)
  IN /\ DOMAIN b = 1..L /\ \A i \in 1..L : b[i] \in Byte
     /\ \A i \in 1..got : b[i] = buffer[i]
     /\ \A i \in got+1..got+n : b[i] = file[position + i - got]
     /\ b = [i \in 1..L |-> b[i]]

\* The bytes that a read stores, whatever the buffer.
LEMMA StoreBytes ==
  ASSUME Types, NEW L \in Nat, NEW buffer, DOMAIN buffer = 1..L,
         \A i \in 1..L : buffer[i] \in Byte,
         NEW got \in 0..L, NEW n \in 1..L - got, position + n \in 0..Len(file)
  PROVE  Stored(L, buffer, got, n)
<1> DEFINE b == Store(buffer, got, n)
<1>1. position \in Nat /\ Len(file) \in Nat /\ \A k \in 1..Len(file) : file[k] \in Byte
  BY FileType
<1>2. b = [i \in 1..L |-> IF i \in got+1..got+n THEN file[position + i - got] ELSE buffer[i]]
  BY DEF Store
<1>3. \A i \in got+1..got+n : position + i - got \in 1..Len(file)
  BY <1>1
<1> HIDE DEF b
<1>4. \A i \in 1..L : b[i] \in Byte
  BY <1>1, <1>2, <1>3
<1>5. \A i \in 1..got : b[i] = buffer[i]
  BY <1>2
<1>6. \A i \in got+1..got+n : b[i] = file[position + i - got]
  BY <1>2
<1> QED
  BY <1>2, <1>4, <1>5, <1>6 DEF b, Stored

\* The shape of a step that reads n more bytes.
LEMMA BegunStays ==
  ASSUME Types, NEW n \in Nat, position' = position + n, Pending' = Pending + n, Pending \in Int
  PROVE  Begun' = Begun
<1>1. position \in Nat
  BY FileType
<1> QED
  BY <1>1 DEF Begun

LEMMA StopKeeps ==
  ASSUME Inv, NEW as \in {"end of file", "failed"}, Stops(as)
  PROVE  Inv'
<1>1. /\ UNCHANGED <<file, ending, position, reader, frame, events>>
      /\ outcome' \in {"reading", "end of file", "failed"}
  BY DEF Stops
<1>2. Pending' = Pending /\ Begun' = Begun
  BY <1>1 DEF Pending, Begun
<1>3. Types'
  BY <1>1, <1>2 DEF Inv, Types
<1>4. Held'
  BY <1>1, <1>2 DEF Inv, Held, PrefixHeld, FrameFits, BytesHeld, PartMissing
<1>5. LastDecoded'
  BY <1>1 DEF Inv, LastDecoded
<1> QED
  BY <1>3, <1>4, <1>5 DEF Inv

\* A read of n bytes of the prefix.
PrefixRead(n) ==
  /\ outcome = "reading" /\ reader.stage = "prefix"
  /\ n \in 1..2 - reader.got /\ position + n \in 0..Len(file)
  /\ LET prefix == Store(reader.prefix, reader.got, n)
         complete_prefix == reader.got + n = 2
     IN /\ position' = position + n
        /\ reader' = IF complete_prefix
                       THEN [stage |-> NextStage(prefix), prefix |-> prefix, got |-> 0]
                       ELSE [reader EXCEPT !.prefix = prefix, !.got = @ + n]
        /\ frame' = IF complete_prefix THEN MakeRoom(prefix) ELSE frame
  /\ UNCHANGED <<file, ending, events, outcome>>

AtEndOfData == position = Len(file)

LEMMA ReadPrefixSplits ==
  ASSUME Inv, ReadPrefix
  PROVE  /\ outcome = "reading" /\ reader.stage = "prefix" /\ reader.got \in 0..1
         /\ \/ \E n \in Nat : PrefixRead(n)
            \/ Stops("end of file") /\ AtEndOfData /\ ending # "read error" /\ reader.got = 0
            \/ /\ Stops("failed") /\ AtEndOfData
               /\ ending = "read error" \/ reader.got # 0
<1>1. /\ outcome = "reading" /\ reader.stage = "prefix" /\ reader.got \in 0..1
      /\ Len(file) \in Nat /\ position \in 0..Len(file)
  BY ByteSeq DEF Inv, Held, PrefixHeld, ReadPrefix, Types
<1>2. PICK n \in read_at_most(2 - reader.got) :
       \/ n < 0 /\ Stops("failed")
       \/ n = 0 /\ AtEnd /\ Stops("end of file")
       \/ n = 0 /\ ~AtEnd /\ Stops("failed")
       \/ /\ n > 0
          /\ LET prefix == Store(reader.prefix, reader.got, n)
                 complete_prefix == reader.got + n = 2
             IN /\ position' = position + n
                /\ reader' = IF complete_prefix
                               THEN [stage |-> NextStage(prefix), prefix |-> prefix, got |-> 0]
                               ELSE [reader EXCEPT !.prefix = prefix, !.got = @ + n]
                /\ frame' = IF complete_prefix THEN MakeRoom(prefix) ELSE frame
          /\ UNCHANGED <<file, ending, events, outcome>>
  BY Zenon DEF ReadPrefix, kFramePrefixBytes
<1>3. \/ n \in 1..2 - reader.got /\ position + n \in 0..Len(file)
      \/ n = -1 /\ position = Len(file) /\ ending = "read error"
      \/ n = 0 /\ position = Len(file) /\ ending # "read error"
  <2>1. 2 - reader.got \in Nat \ {0}
    BY <1>1
  <2> QED
    BY <1>1, <2>1, ReadsAtMost
<1>4. CASE n \in 1..2 - reader.got /\ position + n \in 0..Len(file)
  <2>1. n \in Nat /\ ~(n < 0) /\ n # 0
    BY <1>1, <1>4
  <2>2. PrefixRead(n)
    BY <1>1, <1>2, <1>4, <2>1, Zenon DEF PrefixRead
  <2> QED
    BY <1>1, <2>1, <2>2
<1>5. CASE n = -1 /\ position = Len(file) /\ ending = "read error"
  <2>1. ~(n > 0) /\ n # 0
    <3>1. n = -1
      BY <1>5, Zenon
    <3> QED
      BY <3>1
  <2>2. Stops("failed")
    BY <1>2, <2>1, Zenon
  <2> QED
    BY <1>1, <1>5, <2>2, Zenon DEF AtEndOfData
<1>6. CASE n = 0 /\ position = Len(file) /\ ending # "read error"
  <2>1. ~(n > 0) /\ ~(n < 0)
    <3>1. n = 0
      BY <1>6, Zenon
    <3> QED
      BY <3>1
  <2>2. (AtEnd /\ Stops("end of file")) \/ (~AtEnd /\ Stops("failed"))
    BY <1>2, <2>1, Zenon
  <2> QED
    BY <1>1, <1>6, <2>2, Zenon DEF AtEndOfData, AtEnd
<1> QED
  BY <1>3, <1>4, <1>5, <1>6, Zenon

LEMMA PairType ==
  ASSUME NEW b, DOMAIN b = 1..2, \A i \in 1..2 : b[i] \in Byte, b = [i \in 1..2 |-> b[i]]
  PROVE  b \in Byte \X Byte
<1>1. b = <<b[1], b[2]>>
  OBVIOUS
<1> QED
  BY <1>1

LEMMA PairDomain ==
  ASSUME NEW b \in Byte \X Byte
  PROVE  DOMAIN b = 1..2 /\ \A i \in 1..2 : b[i] \in Byte
OBVIOUS

\* The room made for a frame: its prefix, and the payload's bytes to come.
LEMMA RoomMade ==
  ASSUME Types, NEW prefix \in Byte \X Byte
  PROVE  /\ MakeRoom(prefix) \in Seq(Byte) /\ Len(MakeRoom(prefix)) = 2 + Length(prefix)
         /\ MakeRoom(prefix)[1] = prefix[1] /\ MakeRoom(prefix)[2] = prefix[2]
<1> DEFINE L == 2 + Length(prefix)
           r == resize(frame, L)
<1>1. L \in Nat /\ L >= 2 /\ prefix[1] \in Byte /\ prefix[2] \in Byte
  BY PrefixLength
<1>2. frame \in Seq(Byte) /\ Len(frame) \in Nat
  <2>1. frame \in Seq(Byte)
    BY Zenon DEF Types
  <2> QED
    BY <2>1
<1>3. r = [i \in 1..L |-> IF i <= Len(frame) THEN frame[i] ELSE 0]
  BY DEF resize
<1>4. \A i \in 1..L : (IF i <= Len(frame) THEN frame[i] ELSE 0) \in Byte
  BY <1>2, ElementOfSeq DEF Byte
<1>5. r \in [1..L -> Byte]
  BY <1>3, <1>4
<1>6. MakeRoom(prefix) = [[r EXCEPT ![1] = prefix[1]] EXCEPT ![2] = prefix[2]]
  BY DEF MakeRoom, kFramePrefixBytes
<1> HIDE DEF r, L
<1>7. /\ MakeRoom(prefix) \in [1..L -> Byte]
      /\ MakeRoom(prefix)[1] = prefix[1] /\ MakeRoom(prefix)[2] = prefix[2]
  BY <1>1, <1>5, <1>6
<1>8. MakeRoom(prefix) \in Seq(Byte) /\ Len(MakeRoom(prefix)) = L
  BY <1>1, <1>7
<1> QED
  BY <1>7, <1>8 DEF L

LEMMA PrefixReadKeeps ==
  ASSUME Inv, NEW n \in Nat, PrefixRead(n)
  PROVE  Inv' /\ Begun' = Begun
<1> DEFINE prefix == Store(reader.prefix, reader.got, n)
           got == reader.got
<1>1. /\ Types /\ got \in 0..1 /\ reader.stage = "prefix"
      /\ \A i \in 1..got : reader.prefix[i] = file[Begun + i]
  BY Zenon DEF Inv, Held, PrefixHeld, PrefixRead
<1>2. /\ n \in 1..2 - got /\ position + n \in 0..Len(file) /\ position' = position + n
      /\ UNCHANGED <<file, ending, events, outcome>>
  BY Zenon DEF PrefixRead
<1>3. /\ got + n = 2 => reader' = [stage |-> NextStage(prefix), prefix |-> prefix, got |-> 0]
                        /\ frame' = MakeRoom(prefix)
      /\ got + n # 2 => reader' = [reader EXCEPT !.prefix = prefix, !.got = @ + n] /\ frame' = frame
  BY Zenon DEF PrefixRead
<1>4. reader \in [stage : Stage, prefix : Byte \X Byte, got : Nat]
  BY <1>1, Zenon DEF Types
<1>5. DOMAIN reader.prefix = 1..2 /\ \A i \in 1..2 : reader.prefix[i] \in Byte
  <2>1. reader.prefix \in Byte \X Byte
    BY <1>4
  <2> QED
    BY <2>1, PairDomain
<1>6. /\ DOMAIN prefix = 1..2 /\ \A i \in 1..2 : prefix[i] \in Byte
      /\ \A i \in 1..got : prefix[i] = reader.prefix[i]
      /\ \A i \in got+1..got+n : prefix[i] = file[position + i - got]
      /\ prefix = [i \in 1..2 |-> prefix[i]]
  <2>1. /\ got \in 0..2 /\ 2 \in Nat /\ n \in 1..2 - got /\ position + n \in 0..Len(file) /\ Types
    BY <1>1, <1>2
  <2> HIDE DEF got
  <2>2. prefix = Store(reader.prefix, got, n)
    BY DEF got
  <2> HIDE DEF prefix
  <2> DEFINE pre == reader.prefix
  <2>3. DOMAIN pre = 1..2 /\ \A i \in 1..2 : pre[i] \in Byte
    BY <1>5
  <2> HIDE DEF pre
  <2>4. Stored(2, pre, got, n)
    BY <2>1, <2>3, StoreBytes
  <2> QED
    BY <2>2, <2>4 DEF Stored, pre
<1>7. prefix \in Byte \X Byte
  BY <1>6, PairType
<1>8. Length(prefix) \in Nat
  BY <1>7, PrefixLength
<1>9. Pending = got /\ Begun = position - got /\ position \in Nat /\ Begun \in Nat
  <2>1. Pending = got /\ position \in Nat
    BY <1>1, PendingIs, FileType
  <2>2. Begun \in Nat
    BY <1>1, Zenon DEF Types
  <2> QED
    BY <2>1, <2>2 DEF Begun
<1> HIDE DEF prefix, got
<1>10. \A i \in 1..got+n : prefix[i] = file[Begun + i]
  <2> TAKE i \in 1..got+n
  <2>1. CASE i <= got
    <3>1. i \in 1..got
      BY <2>1
    <3> QED
      BY <1>1, <1>6, <3>1 DEF got
  <2>2. CASE i > got
    <3>1. i \in got+1..got+n /\ position + i - got = Begun + i
      BY <1>1, <1>2, <1>9, <2>2
    <3> QED
      BY <1>6, <3>1
  <2> QED
    BY <1>1, <2>1, <2>2
<1>11. CASE got + n # 2
  <2>1. got = 0 /\ n = 1
    BY <1>1, <1>2, <1>11
  <2>2. /\ reader'.stage = "prefix" /\ reader'.prefix = prefix /\ reader'.got = 1
        /\ reader' \in [stage : Stage, prefix : Byte \X Byte, got : Nat]
        /\ frame' = frame
    <3>1. reader' = [reader EXCEPT !.prefix = prefix, !.got = @ + n] /\ frame' = frame
      BY <1>3, <1>11
    <3>2. reader.got + n = 1
      BY <2>1 DEF got
    <3>3. reader' = [reader EXCEPT !.prefix = prefix, !.got = 1]
      BY <3>1, <3>2
    <3>4. /\ reader'.stage = reader.stage /\ reader'.prefix = prefix /\ reader'.got = 1
          /\ reader' \in [stage : Stage, prefix : Byte \X Byte, got : Nat]
      BY <1>4, <1>7, <3>3
    <3> QED
      BY <1>1, <3>1, <3>4, Zenon
  <2>3. Pending' = 1
    BY <2>2, PendingNext
  <2>4. Begun' = Begun
    BY <1>2, <1>9, <2>1, <2>3 DEF Begun
  <2>5. Types'
    BY <1>1, <1>2, <2>2, <2>4, Zenon DEF Types
  <2>6. PrefixHeld'
    BY <1>2, <1>10, <2>1, <2>2, <2>4 DEF PrefixHeld
  <2>7. reader' # Start
    BY <2>2 DEF Start
  <2> QED
    BY <2>2, <2>4, <2>5, <2>6, <2>7, Zenon
       DEF Inv, Held, FrameFits, BytesHeld, PartMissing, LastDecoded
<1>12. CASE got + n = 2
  <2>1. /\ reader'.stage = NextStage(prefix) /\ reader'.prefix = prefix /\ reader'.got = 0
        /\ reader' \in [stage : Stage, prefix : Byte \X Byte, got : Nat]
        /\ reader'.stage # "prefix"
        /\ NextStage(prefix) \in {"whole", "payload"}
    BY <1>3, <1>7, <1>12 DEF NextStage, Stage
  <2>2. /\ frame' \in Seq(Byte) /\ Len(frame') = 2 + Length(prefix)
        /\ frame'[1] = prefix[1] /\ frame'[2] = prefix[2]
    BY <1>1, <1>3, <1>7, <1>12, RoomMade
  <2>3. Pending' = 2
    <3>1. CASE Length(prefix) = 0
      BY <2>1, <2>2, <3>1, PendingNext DEF NextStage
    <3>2. CASE Length(prefix) # 0
      BY <2>1, <3>2, PendingNext DEF NextStage
    <3> QED
      BY <3>1, <3>2
  <2>4. Begun' = Begun
    BY <1>1, <1>2, <1>9, <1>12, <2>3 DEF Begun
  <2>5. Types'
    BY <1>1, <1>2, <2>1, <2>2, <2>4, Zenon DEF Types
  <2>6. PrefixHeld' /\ FrameFits'
    BY <2>1, <2>2 DEF PrefixHeld, FrameFits
  <2>7. BytesHeld'
    <3>1. \A i \in 1..2 : frame'[i] = file'[Begun' + i]
      BY <1>2, <1>10, <1>12, <2>2, <2>4
    <3> QED
      BY <2>3, <3>1, Zenon DEF BytesHeld
  <2>8. PartMissing'
    <3>1. reader'.stage = "payload" => Length(prefix) # 0
      BY <2>1 DEF NextStage
    <3>2. reader'.stage = "payload" => 0 < Length(prefix)
      BY <1>8, <3>1
    <3> QED
      BY <2>1, <3>2 DEF PartMissing
  <2>9. reader' # Start
    BY <2>1 DEF Start
  <2> QED
    BY <2>4, <2>5, <2>6, <2>7, <2>8, <2>9 DEF Inv, Held, LastDecoded
<1> QED
  BY <1>11, <1>12

\* A read of n bytes of the payload.
PayloadRead(n) ==
  /\ outcome = "reading" /\ reader.stage = "payload"
  /\ n \in 1..Length(reader.prefix) - reader.got /\ position + n \in 0..Len(file)
  /\ position' = position + n
  /\ frame' = Fill(n)
  /\ reader' = [reader EXCEPT !.got = @ + n,
                              !.stage = IF reader.got + n = Length(reader.prefix)
                                          THEN "whole" ELSE "payload"]
  /\ UNCHANGED <<file, ending, events, outcome>>

LEMMA ReadPayloadSplits ==
  ASSUME Inv, ReadPayload
  PROVE  /\ outcome = "reading" /\ reader.stage = "payload"
         /\ \/ \E n \in Nat : PayloadRead(n)
            \/ Stops("failed") /\ AtEndOfData
<1> DEFINE missing == Length(reader.prefix) - reader.got
<1>1. /\ outcome = "reading" /\ reader.stage = "payload" /\ missing \in Nat \ {0}
      /\ Len(file) \in Nat /\ position \in 0..Len(file)
  <2>1. outcome = "reading" /\ reader.stage = "payload" /\ Types /\ reader.got < Length(reader.prefix)
    BY Zenon DEF ReadPayload, Inv, Held, PartMissing
  <2>2. reader \in [stage : Stage, prefix : Byte \X Byte, got : Nat]
    BY <2>1, Zenon DEF Types
  <2>3. reader.got \in Nat /\ Length(reader.prefix) \in Nat
    BY <2>2, PrefixLength
  <2> QED
    BY <2>1, <2>3, FileType
<1>2. PICK n \in read_at_most(missing) :
       \/ n <= 0 /\ Stops("failed")
       \/ /\ n > 0
          /\ position' = position + n
          /\ frame' = Fill(n)
          /\ reader' = [reader EXCEPT !.got = @ + n,
                                      !.stage = IF reader.got + n = Length(reader.prefix)
                                                  THEN "whole" ELSE "payload"]
          /\ UNCHANGED <<file, ending, events, outcome>>
  BY Zenon DEF ReadPayload
<1>3. \/ n \in 1..missing /\ position + n \in 0..Len(file)
      \/ n = -1 /\ position = Len(file) /\ ending = "read error"
      \/ n = 0 /\ position = Len(file) /\ ending # "read error"
  <2> HIDE DEF missing
  <2> QED
    BY <1>1, ReadsAtMost
<1>4. CASE n \in 1..missing /\ position + n \in 0..Len(file)
  <2>1. n \in Nat /\ ~(n <= 0)
    BY <1>1, <1>4
  <2>2. PayloadRead(n)
    BY <1>1, <1>2, <1>4, <2>1, Zenon DEF PayloadRead
  <2> QED
    BY <1>1, <2>1, <2>2
<1>5. CASE (n = -1 \/ n = 0) /\ position = Len(file)
  <2>1. ~(n > 0)
    BY <1>5
  <2>2. Stops("failed")
    BY <1>2, <2>1, Zenon
  <2> QED
    BY <1>1, <1>5, <2>2, Zenon DEF AtEndOfData
<1> QED
  BY <1>3, <1>4, <1>5, Zenon

\* What the invariant says of a frame of which more than the prefix is known.
LEMMA FrameHeld ==
  ASSUME Inv, reader.stage # "prefix"
  PROVE  /\ Types /\ file \in Seq(Byte) /\ position \in 0..Len(file) /\ Len(file) \in Nat
         /\ reader \in [stage : Stage, prefix : Byte \X Byte, got : Nat]
         /\ Length(reader.prefix) \in Nat /\ reader.got \in Nat
         /\ frame \in Seq(Byte) /\ Len(frame) = 2 + Length(reader.prefix)
         /\ frame[1] = reader.prefix[1] /\ frame[2] = reader.prefix[2]
         /\ Pending \in Nat /\ Begun = position - Pending /\ Begun \in Nat
         /\ \A i \in 1..Pending : frame[i] = file[Begun + i]
         /\ IsFrame(frame)
<1>1. /\ Types /\ Len(frame) = 2 + Length(reader.prefix)
      /\ frame[1] = reader.prefix[1] /\ frame[2] = reader.prefix[2]
      /\ \A i \in 1..Pending : frame[i] = file[Begun + i]
  BY Zenon DEF Inv, Held, FrameFits, BytesHeld
<1>2. /\ reader \in [stage : Stage, prefix : Byte \X Byte, got : Nat]
      /\ frame \in Seq(Byte) /\ Begun \in Nat
  BY <1>1, Zenon DEF Types
<1>3. Length(reader.prefix) \in Nat /\ reader.got \in Nat
  BY <1>2, PrefixLength
<1>4. Pending \in Nat
  BY <1>1, <1>2, <1>3, PendingIs DEF Stage
<1>5. IsFrame(frame)
  <2>1. Length(frame) = Length(reader.prefix)
    BY <1>1 DEF Length
  <2> QED
    BY <1>1, <1>2, <1>3, <2>1 DEF IsFrame
<1> QED
  BY <1>1, <1>2, <1>3, <1>4, <1>5, FileType DEF Begun

LEMMA PayloadReadKeeps ==
  ASSUME Inv, NEW n \in Nat, PayloadRead(n)
  PROVE  Inv' /\ Begun' = Begun
<1> DEFINE got == reader.got
           L == Length(reader.prefix)
           total == Len(frame)
<1>1. /\ reader.stage = "payload" /\ reader.stage # "prefix"
      /\ n \in 1..L - got /\ position + n \in 0..Len(file) /\ position' = position + n
      /\ frame' = Fill(n)
      /\ UNCHANGED <<file, ending, events, outcome>>
  BY Zenon DEF PayloadRead
<1>2. reader' = [reader EXCEPT !.got = got + n,
                               !.stage = IF got + n = L THEN "whole" ELSE "payload"]
  BY Zenon DEF PayloadRead
<1>3. /\ Types /\ file \in Seq(Byte) /\ position \in 0..Len(file) /\ Len(file) \in Nat
      /\ L \in Nat /\ got \in Nat
      /\ frame \in Seq(Byte) /\ total = 2 + L
      /\ frame[1] = reader.prefix[1] /\ frame[2] = reader.prefix[2]
      /\ Begun = position - Pending /\ Begun \in Nat
      /\ \A i \in 1..Pending : frame[i] = file[Begun + i]
  BY <1>1, FrameHeld
<1>4. reader \in [stage : Stage, prefix : Byte \X Byte, got : Nat]
  BY <1>1, FrameHeld
<1>5. Pending = 2 + got
  BY <1>1, PendingIs
<1>6. /\ reader'.prefix = reader.prefix /\ reader'.got = got + n /\ reader'.stage # "prefix"
      /\ reader'.stage = IF got + n = L THEN "whole" ELSE "payload"
      /\ reader' \in [stage : Stage, prefix : Byte \X Byte, got : Nat]
  <2>1. got + n \in Nat
    BY <1>3
  <2> DEFINE g == got + n
             s == IF g = L THEN "whole" ELSE "payload"
  <2>2. reader' = [reader EXCEPT !.got = g, !.stage = s] /\ s \in Stage \ {"prefix"}
    BY <1>2 DEF Stage
  <2> HIDE DEF g, s
  <2>3. /\ reader'.prefix = reader.prefix /\ reader'.got = g /\ reader'.stage = s
        /\ reader' \in [stage : Stage, prefix : Byte \X Byte, got : Nat]
    BY <1>4, <2>1, <2>2 DEF g
  <2> QED
    BY <2>2, <2>3 DEF g, s
<1> HIDE DEF got, L, total
<1>7. Stored(total, frame, 2 + got, n)
  <2>1. /\ 2 + got \in 0..total /\ n \in 1..total - (2 + got) /\ total \in Nat
        /\ DOMAIN frame = 1..total /\ \A i \in 1..total : frame[i] \in Byte
    BY <1>1, <1>3, ElementOfSeq DEF total
  <2> QED
    BY <1>1, <1>3, <2>1, StoreBytes
<1>8. /\ DOMAIN frame' = 1..total /\ \A i \in 1..total : frame'[i] \in Byte
      /\ \A i \in 1..2+got : frame'[i] = frame[i]
      /\ \A i \in (2+got)+1..(2+got)+n : frame'[i] = file[position + i - (2 + got)]
      /\ frame' = [i \in 1..total |-> frame'[i]]
  BY <1>1, <1>7 DEF Stored, Fill, kFramePrefixBytes, got
<1>9. frame' \in Seq(Byte) /\ Len(frame') = total
  <2>1. total \in Nat
    BY <1>3
  <2> QED
    BY <1>8, <2>1
<1>10. Pending' = (2 + got) + n
  <2>1. CASE got + n = L
    BY <1>3, <1>6, <1>9, <2>1, PendingNext
  <2>2. CASE got + n # L
    BY <1>1, <1>3, <1>6, <2>2, PendingNext
  <2> QED
    BY <2>1, <2>2
<1>11. Begun' = Begun
  BY <1>1, <1>3, <1>5, <1>10 DEF Begun
<1>12. Types'
  BY <1>1, <1>3, <1>6, <1>9, <1>11, Zenon DEF Types
<1>13. FrameFits' /\ PrefixHeld'
  <2>1. frame'[1] = frame[1] /\ frame'[2] = frame[2]
    <3>1. 1 \in 1..2+got /\ 2 \in 1..2+got
      BY <1>3
    <3> QED
      BY <1>8, <3>1
  <2> QED
    BY <1>3, <1>6, <1>9, <2>1, Zenon DEF FrameFits, PrefixHeld, L
<1>14. ASSUME NEW i \in 1..(2 + got) + n PROVE frame'[i] = file[Begun + i]
  <2>1. CASE i \in 1..2+got
    BY <1>3, <1>5, <1>8, <2>1
  <2>2. CASE i \in (2+got)+1..(2+got)+n
    <3>1. position + i - (2 + got) = Begun + i
      BY <1>3, <1>5, <2>2
    <3> QED
      BY <1>8, <2>2, <3>1
  <2> QED
    BY <1>1, <1>3, <2>1, <2>2
<1>15. BytesHeld'
  BY <1>1, <1>10, <1>11, <1>14 DEF BytesHeld
<1>16. PartMissing'
  <2>1. reader'.stage = "payload" => got + n # L
    BY <1>6
  <2>2. got + n # L => got + n < L
    <3>1. n \in 1..L - got /\ L \in Nat /\ got \in Nat
      BY <1>1, <1>3, Zenon DEF got, L
    <3> QED
      BY <3>1
  <2> QED
    BY <1>6, <2>1, <2>2, Zenon DEF PartMissing, L
<1>17. LastDecoded'
  BY <1>6 DEF Start, LastDecoded
<1> QED
  BY <1>11, <1>12, <1>13, <1>15, <1>16, <1>17 DEF Inv, Held

LEMMA DecodeKeeps ==
  ASSUME Inv, Decode
  PROVE  Inv'
<1>1. CASE Stops("failed")
  BY <1>1, StopKeeps
<1>2. CASE ~Stops("failed")
  <2>1. /\ reader.stage = "whole" /\ reader.stage # "prefix"
        /\ decode_next(frame).status = "Complete"
        /\ events' = Append(events, decode_next(frame).event)
        /\ reader' = Start /\ UNCHANGED <<file, ending, position, frame, outcome>>
    BY <1>2 DEF Decode
  <2>2. /\ Types /\ file \in Seq(Byte) /\ position \in 0..Len(file) /\ Len(file) \in Nat
        /\ frame \in Seq(Byte) /\ IsFrame(frame)
        /\ Begun = position - Pending /\ Begun \in Nat
        /\ \A i \in 1..Pending : frame[i] = file[Begun + i]
    BY <2>1, FrameHeld
  <2>3. Pending = Len(frame) /\ Len(frame) \in Nat
    BY <2>1, <2>2, PendingIs
  <2>4. reader'.stage = "prefix" /\ reader'.got = 0 /\ Pending' = 0
        /\ reader' \in [stage : Stage, prefix : Byte \X Byte, got : Nat]
    BY <2>1, PendingNext DEF Start, Stage, Byte
  <2>5. Begun' = position
    BY <2>1, <2>2, <2>4 DEF Begun
  <2>6. /\ events' \in Seq(EventType) /\ Len(events') = Len(events) + 1 /\ Len(events) \in Nat
        /\ events'[Len(events) + 1] = decode_next(frame).event
    <3>1. events \in Seq(EventType)
      BY <2>2, Zenon DEF Types
    <3>2. decode_next(frame).event \in EventType
      BY <2>2 DEF EventType
    <3> QED
      BY <2>1, <3>1, <3>2, AppendProperties, LenProperties
  <2>7. Begun' \in Nat /\ position' \in 0..Len(file')
    BY <2>1, <2>2, <2>5
  <2>8. Types'
    BY <2>1, <2>2, <2>4, <2>6, <2>7, Zenon DEF Types
  <2>9. Held'
    BY <2>4 DEF Held, PrefixHeld, FrameFits, BytesHeld, PartMissing
  <2>10. LastDecoded'
    <3>1. Len(frame) <= position
          /\ \A i \in 1..Len(frame) : frame[i] = file[position - Len(frame) + i]
      BY <2>2, <2>3
    <3>2. Last(events') = decode_next(frame).event
      BY <2>6 DEF Last
    <3> QED
      BY <2>1, <2>2, <3>1, <3>2 DEF LastDecoded
  <2> QED
    BY <2>8, <2>9, <2>10 DEF Inv
<1> QED
  BY <1>1, <1>2

LEMMA Invariance == Spec => []Inv
<1>1. Inv /\ [Next]_vars => Inv'
  <2> SUFFICES ASSUME Inv, [Next]_vars PROVE Inv'
    OBVIOUS
  <2>1. CASE ReadPrefix
    BY <2>1, ReadPrefixSplits, PrefixReadKeeps, StopKeeps
  <2>2. CASE ReadPayload
    BY <2>2, ReadPayloadSplits, PayloadReadKeeps, StopKeeps
  <2>3. CASE Decode
    BY <2>3, DecodeKeeps
  <2>4. CASE UNCHANGED vars
    BY <2>4 DEF vars, Inv, Types, Held, PrefixHeld, FrameFits, BytesHeld, PartMissing,
                LastDecoded, Begun, Pending
  <2> QED
    BY <2>1, <2>2, <2>3, <2>4 DEF Next
<1> QED
  BY <1>1, InitInv, PTL DEF Spec

-----------------------------------------------------------------------------
(* What the producer may rely on.                                          *)

\* The buffers are well typed, and a frame that is being read has exactly the
\* room that its prefix asks for: no read of a payload writes past its end.
THEOREM Typing == Spec => []TypeOK
<1>1. Inv => TypeOK
  BY DEF Inv, Types, Held, FrameFits, TypeOK, kFramePrefixBytes
<1> QED
  BY <1>1, Invariance, PTL

\* The reader never hands the decoder less than a message, for any file and any
\* reads; the decoder's answers to the parts of a frame, shorter than the frame
\* by any number of bytes, are to ask for more or already its answer; and a
\* frame is consumed whole.
THEOREM Finality == Spec => []AnswersAreFinal
<1>1. Inv => AnswersAreFinal
  <2> SUFFICES ASSUME Inv, reader.stage = "whole"
               PROVE  LET result == decode_next(frame)
                      IN /\ result # need_more_data
                         /\ \A n \in 0..Len(frame) :
                              decode_next(SubSeq(frame, 1, n)) \in {need_more_data, result}
                         /\ result.status = "Complete" => result.bytes_consumed = Len(frame)
    BY DEF AnswersAreFinal
  <2>1. IsFrame(frame)
    BY FrameHeld
  <2>2. /\ decode_next(frame) # need_more_data
        /\ decode_next(frame).status = "Complete" => decode_next(frame).bytes_consumed = Len(frame)
    BY <2>1, FrameAnswer DEF need_more_data
  <2>3. ASSUME NEW n \in 0..Len(frame)
        PROVE  decode_next(SubSeq(frame, 1, n)) \in {need_more_data, decode_next(frame)}
    <3> DEFINE s == SubSeq(frame, 1, n)
    <3>1. /\ frame \in Seq(Byte) /\ Len(frame) \in Nat /\ Len(frame) = 2 + Length(frame)
          /\ Length(frame) \in Nat
      BY <2>1, ByteSeq DEF IsFrame
    <3>2. s \in Seq(Byte) /\ Len(s) = n /\ \A i \in 1..n : s[i] = frame[i]
      BY <2>3, <3>1
    <3> HIDE DEF s
    <3>3. CASE n < 2
      <4>1. decode_next(s) = need_more_data
        BY <3>2, <3>3, Decides
      <4> QED
        BY <4>1 DEF s
    <3>4. CASE n >= 2
      <4>1. Length(s) = Length(frame)
        BY <2>3, <3>2, <3>4 DEF Length
      <4>2. CASE Length(frame) = 0
        <5>1. decode_next(s) = error("InvalidFrameLength", 0)
          BY <3>2, <3>4, <4>1, <4>2, Decides
        <5>2. decode_next(frame) = error("InvalidFrameLength", 0)
          BY <3>1, <4>2, Decides
        <5> QED
          BY <5>1, <5>2 DEF s
      <4>3. CASE Length(frame) # 0 /\ n < 2 + Length(frame)
        <5>1. decode_next(s) = need_more_data
          BY <3>2, <3>4, <4>1, <4>3, Decides
        <5> QED
          BY <5>1 DEF s
      <4>4. CASE n = Len(frame)
        <5>1. s = frame
          BY <3>1, <3>2, <4>4, SeqEqual
        <5> QED
          BY <5>1 DEF s
      <4> QED
        BY <2>3, <3>1, <4>2, <4>3, <4>4 DEF s
    <3> QED
      BY <2>3, <3>1, <3>3, <3>4 DEF s
  <2> QED
    BY <2>2, <2>3
<1> QED
  BY <1>1, Invariance, PTL

\* Nothing of a message is lost or read twice: for every type that the decoder
\* knows the bytes of the event's members, in the order of declaration, are the
\* bytes of the message, which are those of the file behind the last frame.
THEOREM Fidelity == Spec => []EventsCarryTheirMessage
<1>1. Inv => EventsCarryTheirMessage
  <2> SUFFICES ASSUME Inv, reader = Start, events # <<>>
               PROVE  LET event == Last(events)
                          message == SubSeq(frame, 2 + 1, Len(frame))
                      IN /\ frame = SubSeq(file, position - Len(frame) + 1, position)
                         /\ IF Known(event.type) THEN Bytes(event) = message
                                                 ELSE IsPrefix(Bytes(event), message)
    BY DEF EventsCarryTheirMessage, kFramePrefixBytes
  <2> DEFINE m == SubSeq(frame, 3, Len(frame))
             L == Len(frame)
  <2>1. /\ IsFrame(frame) /\ L <= position
        /\ \A i \in 1..L : frame[i] = file[position - L + i]
        /\ decode_next(frame).status = "Complete" /\ Last(events) = decode_next(frame).event
    BY DEF Inv, LastDecoded
  <2>2. /\ file \in Seq(Byte) /\ Len(file) \in Nat /\ position \in 0..Len(file) /\ position \in Nat
        /\ \A k \in 1..Len(file) : file[k] \in Byte
    BY FileType DEF Inv
  <2>3. frame \in Seq(Byte) /\ L \in Nat /\ L >= 2 /\ L = 2 + Length(frame) /\ Length(frame) \in Nat
    BY <2>1, ByteSeq DEF IsFrame
  <2>4. frame = SubSeq(file, position - L + 1, position)
    <3> DEFINE from == position - L + 1
               s == SubSeq(file, from, position)
    <3>1. from \in Int /\ from >= 1 /\ from <= position /\ (position - from) + 1 = L
      BY <2>1, <2>2, <2>3
    <3>2. \A i \in 1..L : position - L + i = (from + i) - 1
      BY <2>1, <2>2, <2>3
    <3> HIDE DEF from
    <3>3. \A i \in from..position : file[i] \in Byte
      BY <2>2, <3>1
    <3>4. s \in Seq(Byte) /\ Len(s) = L /\ \A i \in 1..L : s[i] = file[(from + i) - 1]
      BY <2>2, <3>1, <3>3
    <3> HIDE DEF s
    <3>5. \A i \in 1..L : frame[i] = s[i]
      BY <2>1, <3>2, <3>4
    <3>6. frame = s
      BY <2>3, <3>4, <3>5, SeqEqual
    <3> QED
      BY <3>6 DEF s, from
  <2>5. /\ decode_next(frame) = decode_message(m, L) /\ Length(frame) # 0
    BY <2>1, FrameAnswer
  <2>6. m \in Seq(Byte) /\ Len(m) # 0
    <3>1. \A i \in 3..L : frame[i] \in Byte
      BY <2>3, ElementOfSeq
    <3> QED
      BY <2>3, <2>5, <3>1
  <2> HIDE DEF m
  <2>7. LET event == decode_message(m, L).event
        IN IF Known(event.type) THEN Bytes(event) = m ELSE IsPrefix(Bytes(event), m)
    BY <2>1, <2>5, <2>6, MessageBytes
  <2>8. m = SubSeq(frame, 2 + 1, L)
    BY DEF m
  <2> QED
    BY <2>1, <2>4, <2>5, <2>7, <2>8
<1> QED
  BY <1>1, Invariance, PTL

-----------------------------------------------------------------------------
(* The refinement of ItchStream.                                           *)

\* ItchStream's decoder is this one.
LEMMA SameDecoder ==
  Stream!Byte = Byte /\ \A s : Stream!decode_next(s) = decode_next(s)
<1>1. /\ Stream!Byte = Byte
      /\ Stream!kFramePrefixBytes = kFramePrefixBytes
      /\ Stream!kCommonHeaderBytes = kCommonHeaderBytes
      /\ Stream!Code = Code /\ Stream!Size = Size
  BY DEF Stream!Byte, Byte, Stream!kFramePrefixBytes, kFramePrefixBytes,
         Stream!kCommonHeaderBytes, kCommonHeaderBytes, Stream!Code, Code, Stream!Size, Size
<1>2. \A n, o, w : Stream!Field(n, o, w) = Field(n, o, w)
  BY DEF Stream!Field, Field
<1>3. /\ Stream!HeaderLayout = HeaderLayout
      /\ Stream!ReferenceAt11 = ReferenceAt11 /\ Stream!SideToPrice = SideToPrice
      /\ Stream!Execution = Execution
  BY <1>2, Zenon DEF Stream!HeaderLayout, HeaderLayout, Stream!ReferenceAt11, ReferenceAt11,
         Stream!SideToPrice, SideToPrice, Stream!Execution, Execution
<1>4. /\ Stream!AdministrativeLayout = AdministrativeLayout
      /\ Stream!OrderLayout = OrderLayout
      /\ Stream!TradeLayout = TradeLayout
  BY <1>2, <1>3, Zenon DEF Stream!AdministrativeLayout, AdministrativeLayout,
         Stream!OrderLayout, OrderLayout, Stream!TradeLayout, TradeLayout
<1>5. \A t : Stream!Layout(t) = Layout(t)
  BY <1>4, Zenon DEF Stream!Layout, Layout
<1>6. \A m, l : Stream!read_fields(m, l) = read_fields(m, l)
  BY Zenon DEF Stream!read_fields, read_fields, Stream!read, read
<1>7. \A m, l : Stream!Event(m, l) = Event(m, l) /\ Stream!Skipped(m) = Skipped(m)
  BY <1>1, <1>3, <1>6, Zenon DEF Stream!Event, Event, Stream!Skipped, Skipped, Stream!read_header, read_header
<1>8. \A m, t, n : Stream!decode_known(m, t, n) = decode_known(m, t, n)
  BY <1>1, <1>5, <1>7, Zenon DEF Stream!decode_known, decode_known, Stream!error, error,
     Stream!HasSide, HasSide, Stream!valid_side, valid_side, Stream!Buy, Buy, Stream!Sell, Sell,
     Stream!complete, complete
<1>9. \A m, n : Stream!decode_message(m, n) = decode_message(m, n)
  <2>1. \A b : Stream!TypesOf(b) = TypesOf(b)
    BY <1>1, Zenon DEF Stream!TypesOf, TypesOf
  <2>2. \A b : Stream!Known(b) <=> Known(b)
    BY <2>1, Zenon DEF Stream!Known, Known
  <2>3. \A e, n : Stream!complete(e, n) = complete(e, n)
    BY DEF Stream!complete, complete
  <2> QED
    <3> TAKE m, n
    <3>1. \A S, T : S = T => (CHOOSE t \in S : TRUE) = (CHOOSE t \in T : TRUE)
      BY Zenon
    <3>2. (CHOOSE t \in Stream!TypesOf(m[1]) : TRUE) = (CHOOSE t \in TypesOf(m[1]) : TRUE)
      BY <2>1, <3>1
    <3>3. CASE Known(m[1])
      <4> DEFINE t == CHOOSE t \in TypesOf(m[1]) : TRUE
      <4>1. Stream!decode_message(m, n) = Stream!decode_known(m, t, n)
        BY <2>2, <3>2, <3>3 DEF Stream!decode_message
      <4>2. decode_message(m, n) = decode_known(m, t, n)
        BY <3>3 DEF decode_message
      <4> QED
        BY <1>8, <4>1, <4>2
    <3>4. CASE ~Known(m[1])
      BY <1>7, <2>2, <2>3, <3>4 DEF Stream!decode_message, decode_message
    <3> QED
      BY <3>3, <3>4
<1>10. \A s : Stream!decode_next(s) = decode_next(s)
  BY <1>1, <1>9, Zenon DEF Stream!decode_next, decode_next, Stream!total_length, total_length,
     Stream!Length, Length, Stream!need_more_data, need_more_data, Stream!error, error
<1> QED
  BY <1>1, <1>10

\* What is left of the file, of which the buffers hold the first bytes.
LEMMA RestIs ==
  ASSUME Inv
  PROVE  /\ Stream!Rest = SubSeq(file, Begun + 1, Len(file))
         /\ Stream!Rest \in Seq(Byte)
         /\ Len(Stream!Rest) = Len(file) - Begun
         /\ Begun \in Nat /\ Len(file) \in Nat /\ position \in 0..Len(file)
         /\ Begun = position - Pending
         /\ \A i \in 1..Len(file) - Begun : Stream!Rest[i] = file[Begun + i]
<1>1. /\ file \in Seq(Byte) /\ Len(file) \in Nat /\ position \in 0..Len(file)
      /\ \A k \in 1..Len(file) : file[k] \in Byte
  BY FileType DEF Inv
<1>2. Begun \in Nat
  BY Zenon DEF Inv, Types
<1>3. Stream!Rest = SubSeq(file, Begun + 1, Len(file))
  BY DEF Stream!Rest, Begun
<1>4. Begun <= Len(file)
  <2>1. CASE reader.stage = "prefix"
    <3>1. reader.got \in Nat
      BY <2>1 DEF Inv, Held, PrefixHeld
    <3> QED
      BY <1>1, <2>1, <3>1, PendingIs DEF Begun
  <2>2. CASE reader.stage # "prefix"
    BY <1>1, <2>2, FrameHeld
  <2> QED
    BY <2>1, <2>2
<1>5. \A k \in Begun+1..Len(file) : file[k] \in Byte
  BY <1>1, <1>2
<1>6. /\ Stream!Rest \in Seq(Byte)
      /\ Len(Stream!Rest) = Len(file) - Begun
      /\ \A i \in 1..Len(file) - Begun : Stream!Rest[i] = file[Begun + i]
  BY <1>1, <1>2, <1>3, <1>4, <1>5
<1> QED
  BY <1>1, <1>2, <1>3, <1>6 DEF Begun

\* The loop stops where the data ends, inside a prefix or inside a payload:
\* there is no message in the rest.
LEMMA NoMessageLeft ==
  ASSUME Inv, AtEndOfData, reader.stage \in {"prefix", "payload"}
  PROVE  /\ decode_next(Stream!Rest).status # "Complete"
         /\ Stream!Rest = <<>> <=> reader.stage = "prefix" /\ reader.got = 0
<1>1. /\ Stream!Rest \in Seq(Byte) /\ Len(Stream!Rest) = Pending /\ Len(file) = position
      /\ \A i \in 1..Pending : Stream!Rest[i] = file[Begun + i]
  <2>1. Pending = Len(file) - Begun
    <3>1. Pending \in Nat
      <4>1. CASE reader.stage = "prefix"
        <5>1. reader.got \in Nat
          BY <4>1 DEF Inv, Held, PrefixHeld
        <5> QED
          BY <4>1, <5>1, PendingIs
      <4>2. CASE reader.stage # "prefix"
        BY <4>2, FrameHeld
      <4> QED
        BY <4>1, <4>2
    <3> QED
      BY <3>1, RestIs DEF AtEndOfData
  <2> QED
    BY <2>1, RestIs DEF AtEndOfData
<1>2. need_more_data.status # "Complete"
  BY DEF need_more_data
<1>3. CASE reader.stage = "prefix"
  <2>1. Pending \in 0..1 /\ Pending = reader.got
    BY <1>3, PendingIs DEF Inv, Held, PrefixHeld
  <2>2. decode_next(Stream!Rest) = need_more_data
    BY <1>1, <2>1, Decides
  <2>3. Stream!Rest = <<>> <=> Pending = 0
    BY <1>1, <2>1
  <2> QED
    BY <1>2, <1>3, <2>1, <2>2, <2>3
<1>4. CASE reader.stage = "payload"
  <2>1. /\ frame \in Seq(Byte) /\ Len(frame) = 2 + Length(reader.prefix)
        /\ frame[1] = reader.prefix[1] /\ frame[2] = reader.prefix[2]
        /\ \A i \in 1..Pending : frame[i] = file[Begun + i]
        /\ Length(reader.prefix) \in Nat /\ reader.got \in Nat
    BY <1>4, FrameHeld
  <2>2. Pending = 2 + reader.got /\ reader.got < Length(reader.prefix)
    BY <1>4, PendingIs DEF Inv, Held, PartMissing
  <2>3. Length(Stream!Rest) = Length(reader.prefix)
    <3>1. 1 \in 1..Pending /\ 2 \in 1..Pending
      BY <2>1, <2>2
    <3>2. Stream!Rest[1] = reader.prefix[1] /\ Stream!Rest[2] = reader.prefix[2]
      BY <1>1, <2>1, <3>1
    <3> QED
      BY <3>2 DEF Length
  <2>4. /\ Len(Stream!Rest) >= 2 /\ Length(Stream!Rest) # 0
        /\ Len(Stream!Rest) < 2 + Length(Stream!Rest)
    BY <1>1, <2>1, <2>2, <2>3
  <2>5. decode_next(Stream!Rest) = need_more_data
    BY <1>1, <2>4, Decides
  <2>6. Stream!Rest # <<>>
    BY <2>4
  <2> QED
    BY <1>2, <1>4, <2>5, <2>6
<1> QED
  BY <1>3, <1>4

\* The answer to the buffered frame is the one to the rest of the file.
LEMMA FrameOfRest ==
  ASSUME Inv, reader.stage = "whole"
  PROVE  decode_next(Stream!Rest) = decode_next(frame) /\ Stream!Rest # <<>>
<1>1. /\ IsFrame(frame) /\ Begun = position - Pending /\ Begun \in Nat
      /\ \A i \in 1..Pending : frame[i] = file[Begun + i]
  BY FrameHeld
<1>2. Pending = Len(frame) /\ Len(frame) \in Nat /\ Len(frame) >= 2
  BY <1>1, PendingIs, ByteSeq DEF IsFrame
<1>3. /\ Stream!Rest \in Seq(Byte) /\ Len(frame) <= Len(Stream!Rest)
      /\ \A i \in 1..Len(frame) : Stream!Rest[i] = frame[i]
  <2>1. Len(frame) <= Len(file) - Begun
    <3>1. position \in 0..Len(file) /\ Len(file) \in Nat /\ Begun \in Nat
          /\ Begun = position - Len(frame) /\ Len(frame) \in Nat
      BY <1>1, <1>2, RestIs, Zenon
    <3> QED
      BY <3>1
  <2>2. /\ Stream!Rest \in Seq(Byte) /\ Len(Stream!Rest) = Len(file) - Begun
        /\ \A i \in 1..Len(file) - Begun : Stream!Rest[i] = file[Begun + i]
        /\ Len(file) \in Nat /\ Begun \in Nat
    BY RestIs, Zenon
  <2>3. \A i \in 1..Len(frame) : i \in 1..Len(file) - Begun
    BY <1>2, <2>1, <2>2
  <2>4. \A i \in 1..Len(frame) : frame[i] = file[Begun + i]
    BY <1>1, <1>2
  <2> HIDE DEF Begun
  <2> QED
    BY <2>1, <2>2, <2>3, <2>4, Zenon
<1>4. decode_next(Stream!Rest) = decode_next(frame)
  BY <1>1, <1>3, AnswerOfFrame
<1>5. Stream!Rest # <<>>
  BY <1>2, <1>3
<1> QED
  BY <1>4, <1>5

LEMMA StreamStops ==
  ASSUME Inv, outcome = "reading", NEW as, Stops(as),
         decode_next(Stream!Rest).status # "Complete",
         as = IF Stream!EndsWell THEN "end of file" ELSE "failed"
  PROVE  Stream!Next
<1>1. /\ outcome' = as
      /\ UNCHANGED <<file, ending, position, reader, frame, events>>
  BY DEF Stops
<1>2. Pending' = Pending
  BY <1>1 DEF Pending
<1> QED
  BY <1>1, <1>2, SameDecoder DEF Stream!Next, Stream!Stop

LEMMA PrefixImplements ==
  ASSUME Inv, ReadPrefix
  PROVE  [Stream!Next]_(Stream!vars)
<1>1. ASSUME NEW n \in Nat, PrefixRead(n) PROVE UNCHANGED Stream!vars
  <2>1. Begun' = Begun /\ UNCHANGED <<file, ending, events, outcome>>
    BY <1>1, PrefixReadKeeps DEF PrefixRead
  <2> QED
    BY <2>1 DEF Stream!vars, Begun
<1>2. CASE Stops("end of file") /\ AtEndOfData /\ ending # "read error" /\ reader.got = 0
  BY <1>2, ReadPrefixSplits, NoMessageLeft, StreamStops DEF Stream!EndsWell
<1>3. CASE /\ Stops("failed") /\ AtEndOfData
           /\ ending = "read error" \/ reader.got # 0
  BY <1>3, ReadPrefixSplits, NoMessageLeft, StreamStops DEF Stream!EndsWell
<1> QED
  BY <1>1, <1>2, <1>3, ReadPrefixSplits

LEMMA PayloadImplements ==
  ASSUME Inv, ReadPayload
  PROVE  [Stream!Next]_(Stream!vars)
<1>1. ASSUME NEW n \in Nat, PayloadRead(n) PROVE UNCHANGED Stream!vars
  <2>1. Begun' = Begun /\ UNCHANGED <<file, ending, events, outcome>>
    BY <1>1, PayloadReadKeeps DEF PayloadRead
  <2> QED
    BY <2>1 DEF Stream!vars, Begun
<1>2. CASE Stops("failed") /\ AtEndOfData
  BY <1>2, ReadPayloadSplits, NoMessageLeft, StreamStops DEF Stream!EndsWell
<1> QED
  BY <1>1, <1>2, ReadPayloadSplits

LEMMA DecodeImplements ==
  ASSUME Inv, Decode
  PROVE  Stream!Next
<1>1. outcome = "reading" /\ reader.stage = "whole"
  BY DEF Decode
<1>2. CASE decode_next(frame).status # "Complete" /\ Stops("failed")
  BY <1>1, <1>2, FrameOfRest, StreamStops DEF Stream!EndsWell
<1>3. CASE /\ decode_next(frame).status = "Complete"
           /\ events' = Append(events, decode_next(frame).event)
           /\ reader' = Start
           /\ UNCHANGED <<file, ending, position, frame, outcome>>
  <2>1. /\ IsFrame(frame) /\ Begun = position - Pending /\ Begun \in Nat
        /\ position \in 0..Len(file) /\ Len(file) \in Nat /\ Len(frame) \in Nat
    BY <1>1, FrameHeld
  <2>2. Pending = Len(frame) /\ Pending' = 0
    BY <1>1, <1>3, PendingIs, PendingNext DEF Start
  <2>3. decode_next(frame).bytes_consumed = Len(frame)
    BY <1>3, <2>1, FrameAnswer
  <2>4. (position - Pending)' = position - Pending + decode_next(frame).bytes_consumed
    BY <1>3, <2>1, <2>2, <2>3
  <2> QED
    BY <1>1, <1>3, <2>4, FrameOfRest, SameDecoder DEF Stream!Next, Stream!Deliver
<1> QED
  BY <1>2, <1>3 DEF Decode

\* Frames do not run into each other and no byte of an older frame shows: the
\* reader implements the decoder that is handed the rest of the file at once,
\* for every file and every way of reading it.
THEOREM Refinement == Spec => ImplementsItchStream
<1>1. Init => Stream!Init
  <2> SUFFICES ASSUME Init PROVE Stream!Init
    OBVIOUS
  <2>1. /\ file \in Seq(Byte) /\ ending \in {"end of file", "read error", "truncated gzip"}
        /\ position = 0 /\ reader = Start /\ events = <<>> /\ outcome = "reading"
    BY ReaderAssumption DEF Init
  <2>2. Pending = 0
    BY <2>1, PendingIs DEF Start
  <2> QED
    <3>1. position - Pending = 0 /\ file \in Seq(Stream!Byte)
      <4>1. position = 0 /\ Pending = 0 /\ Stream!Byte = Byte /\ file \in Seq(Byte)
        BY <2>1, <2>2, SameDecoder, Zenon
      <4> QED
        BY <4>1
    <3> QED
      BY <2>1, <3>1, Zenon DEF Stream!Init
<1>2. Inv /\ [Next]_vars => [Stream!Next]_(Stream!vars)
  <2>1. ASSUME UNCHANGED vars PROVE UNCHANGED Stream!vars
    BY <2>1 DEF vars, Stream!vars, Pending
  <2> QED
    BY <2>1, PrefixImplements, PayloadImplements, DecodeImplements DEF Next
<1> QED
  BY <1>1, <1>2, Invariance, PTL DEF Spec, ImplementsItchStream, Stream!Spec

=============================================================================
