---------------------------- MODULE Framing_proofs ----------------------------
(* What Framing promises a handler, for every line length and octet set.   *)
EXTENDS Framing, SequenceTheorems, Induction_proofs, TLAPS

(* A stretch of a sequence holds elements of the sequence.                 *)
LEMMA SubSeqElements ==
    ASSUME NEW S, NEW s \in Seq(S), NEW m \in Nat, NEW n \in Nat, 1 <= m, n <= Len(s)
    PROVE  /\ SubSeq(s, m, n) \in Seq(S)
           /\ Len(SubSeq(s, m, n)) = IF m <= n THEN n - m + 1 ELSE 0
           /\ \A i \in 1 .. n - m + 1 : SubSeq(s, m, n)[i] = s[m + i - 1]
<1>1. \A i \in m .. n : s[i] \in S
  BY LenProperties
<1>2. QED
  BY <1>1, SubSeqProperties

(* What is taken of a line is a part of it and no longer than a line.      *)
LEMMA CutIsShort ==
    ASSUME NEW s \in Seq(Octet)
    PROVE  /\ Cut(s) \in Seq(Octet) /\ Len(Cut(s)) <= MaxLine
           /\ \A i \in DOMAIN Cut(s) : i \in DOMAIN s /\ Cut(s)[i] = s[i]
<1> DEFINE k == IF Len(s) < MaxLine THEN Len(s) ELSE MaxLine
<1>1. k \in Nat /\ k <= Len(s) /\ k <= MaxLine
  BY FramingAssumption, LenProperties
<1>2. /\ SubSeq(s, 1, k) \in Seq(Octet)
      /\ Len(SubSeq(s, 1, k)) = IF 1 <= k THEN k - 1 + 1 ELSE 0
      /\ \A i \in 1 .. k - 1 + 1 : SubSeq(s, 1, k)[i] = s[1 + i - 1]
  BY <1>1, SubSeqElements
<1>3. Len(SubSeq(s, 1, k)) = k
  BY <1>1, <1>2
<1>4. DOMAIN SubSeq(s, 1, k) = 1 .. k
  BY <1>2, <1>3, LenProperties
<1>5. \A i \in 1 .. k : SubSeq(s, 1, k)[i] = s[i]
  BY <1>1, <1>2
<1>6. \A i \in 1 .. k : i \in DOMAIN s
  BY <1>1, LenProperties
<1>7. Cut(s) = SubSeq(s, 1, k)
  BY DEF Cut
<1>8. QED
  BY <1>1, <1>2, <1>3, <1>4, <1>5, <1>6, <1>7

LEMMA Empty ==
    /\ \A S : <<>> \in Seq(S)
    /\ Len(<<>>) = 0 /\ DOMAIN <<>> = {}
  OBVIOUS

LEMMA InitIInv == Init => IInv
<1> SUFFICES ASSUME Init PROVE IInv
  OBVIOUS
<1> USE Empty, FramingAssumption DEF Init
<1>1. TypeOK
  BY DEF TypeOK
<1>2. BufferBounded
  BY DEF BufferBounded, NoLF
<1>3. HandledIsClean
  BY DEF HandledIsClean
<1>4. word \in Seq(Text) /\ Len(word) + Len(line) <= MaxLine
  OBVIOUS
<1>5. QED
  BY <1>1, <1>2, <1>3, <1>4 DEF IInv

(* Ending a word adds a clean message or none.                             *)
LEMMA FlushIsClean ==
    ASSUME IInv, Flush
    PROVE  /\ messages' \in Seq(Seq(Octet)) /\ word' = <<>>
           /\ \A i \in DOMAIN messages' : Clean(messages'[i])
<1> USE DEF IInv, TypeOK
<1>1. CASE word = <<>>
  BY <1>1 DEF Flush
<1>2. CASE word # <<>>
  <2>1. messages' = Append(messages, word) /\ word' = <<>>
    BY <1>2 DEF Flush
  <2>2. Clean(word)
    <3>1. Len(line) \in Nat /\ Len(word) \in Nat
      BY LenProperties
    <3>2. QED
      BY <1>2, <3>1, FramingAssumption DEF Clean
  <2>3. /\ messages' \in Seq(Seq(Octet)) /\ Len(messages') = Len(messages) + 1
        /\ \A i \in 1 .. Len(messages) : messages'[i] = messages[i]
        /\ messages'[Len(messages) + 1] = word
    BY <2>1, AppendProperties
  <2>4. DOMAIN messages' = 1 .. Len(messages) + 1 /\ DOMAIN messages = 1 .. Len(messages)
    BY <2>3, LenProperties
  <2>5. Len(messages) \in Nat
    BY LenProperties
  <2>6. ASSUME NEW i \in DOMAIN messages' PROVE Clean(messages'[i])
    <3>1. CASE i = Len(messages) + 1
      BY <3>1, <2>2, <2>3
    <3>2. CASE i # Len(messages) + 1
      <4>1. i \in DOMAIN messages /\ messages'[i] = messages[i]
        BY <3>2, <2>3, <2>4, <2>5, SMTT(30)
      <4>2. QED
        BY <4>1
    <3>3. QED
      BY <3>1, <3>2
  <2>7. QED
    BY <2>1, <2>3, <2>6
<1>3. QED
  BY <1>1, <1>2

(* Each action keeps the inductive invariant.                              *)

(* A read.                                                                 *)
LEMMA recvIInv ==
    ASSUME IInv, NEW data \in Chunk, recv(data)
    PROVE  IInv'
<1> USE FramingAssumption DEF IInv
<1>1. data \in Seq(Octet) /\ Len(data) <= MaxLine
  <2>1. PICK k \in 1 .. MaxLine : data \in [1 .. k -> Octet]
    BY DEF Chunk
  <2>2. QED
    BY <2>1
<1>2. /\ arrived \in Seq(Octet) /\ buf \in Seq(Octet)
  BY DEF TypeOK
<1>3. /\ arrived' \in Seq(Octet) /\ buf' \in Seq(Octet)
      /\ Len(buf') = Len(buf) + Len(data)
  BY <1>1, <1>2, ConcatProperties DEF recv
<1>4. Len(buf) <= MaxLine /\ Len(buf) \in Nat /\ Len(data) \in Nat
  BY <1>1, <1>2, LenProperties DEF BufferBounded, recv
<1>5. TypeOK'
  BY <1>3 DEF TypeOK, recv
<1>6. BufferBounded'
  BY <1>1, <1>3, <1>4 DEF BufferBounded, recv
<1>7. HandledIsClean'
  BY DEF HandledIsClean, recv, Clean
<1>8. QED
  BY <1>5, <1>6, <1>7 DEF recv, Clean

(* What stands behind a line's end is shorter than the buffer was.         *)
LEMMA RestOfBuffer ==
    ASSUME IInv, NEW p \in DOMAIN buf
    PROVE  /\ From(buf, p + 1) \in Seq(Octet)
           /\ Len(From(buf, p + 1)) <= Len(buf)
           /\ SubSeq(buf, 1, p - 1) \in Seq(Octet)
           /\ \A i \in DOMAIN SubSeq(buf, 1, p - 1) :
                   i \in 1 .. p - 1 /\ SubSeq(buf, 1, p - 1)[i] = buf[i]
<1>1. buf \in Seq(Octet) /\ Len(buf) \in Nat /\ p \in 1 .. Len(buf)
  BY LenProperties DEF IInv, TypeOK
<1>2. /\ SubSeq(buf, p + 1, Len(buf)) \in Seq(Octet)
      /\ Len(SubSeq(buf, p + 1, Len(buf)))
           = IF p + 1 <= Len(buf) THEN Len(buf) - (p + 1) + 1 ELSE 0
  BY <1>1, SubSeqElements
<1>3. /\ SubSeq(buf, 1, p - 1) \in Seq(Octet)
      /\ Len(SubSeq(buf, 1, p - 1)) = IF 1 <= p - 1 THEN (p - 1) - 1 + 1 ELSE 0
      /\ \A i \in 1 .. (p - 1) - 1 + 1 : SubSeq(buf, 1, p - 1)[i] = buf[1 + i - 1]
  BY <1>1, SubSeqElements
<1>4. DOMAIN SubSeq(buf, 1, p - 1) = 1 .. Len(SubSeq(buf, 1, p - 1))
  BY <1>3, LenProperties
<1>5. Len(SubSeq(buf, 1, p - 1)) = p - 1
  BY <1>1, <1>3
<1>6. Len(From(buf, p + 1)) <= Len(buf)
  BY <1>1, <1>2 DEF From
<1>7. \A i \in 1 .. p - 1 : SubSeq(buf, 1, p - 1)[i] = buf[i]
  BY <1>1, <1>3
<1>8. QED
  BY <1>2, <1>3, <1>4, <1>5, <1>6, <1>7 DEF From

(* The end of an overlong line.                                            *)
LEMMA SkipToLFIInv == IInv /\ SkipToLF => IInv'
<1> SUFFICES ASSUME IInv, SkipToLF PROVE IInv'
  OBVIOUS
<1> USE FramingAssumption DEF IInv
<1>1. PICK p \in DOMAIN buf : buf' = From(buf, p + 1)
  BY DEF SkipToLF
<1>2. buf' \in Seq(Octet) /\ Len(buf') <= Len(buf)
  BY <1>1, RestOfBuffer
<1>3. Len(buf) \in Nat /\ Len(buf') \in Nat
  BY <1>2, LenProperties DEF TypeOK
<1>4. TypeOK'
  BY <1>2 DEF TypeOK, SkipToLF
<1>5. BufferBounded'
  BY <1>2, <1>3 DEF BufferBounded, SkipToLF
<1>6. HandledIsClean'
  BY DEF HandledIsClean, SkipToLF, Clean
<1>7. QED
  BY <1>4, <1>5, <1>6 DEF SkipToLF, Clean

(* A line taken from the buffer: short, without an LF.                     *)
LEMMA LineTakenIInv ==
    ASSUME IInv, NEW s \in Seq(Octet), \A i \in DOMAIN s : s[i] # LF,
           pc = "extract", pc' = "scan", line' = Cut(s),
           buf' \in Seq(Octet), Len(buf') <= Len(buf), skipping' \in BOOLEAN,
           UNCHANGED <<arrived, word, messages, handled, connected>>
    PROVE  IInv'
<1> USE FramingAssumption DEF IInv
<1>1. line' \in Seq(Octet) /\ Len(line') <= MaxLine /\ \A i \in DOMAIN line' : line'[i] # LF
  BY CutIsShort
<1>2. Len(buf) \in Nat /\ Len(buf') \in Nat /\ Len(line') \in Nat
  BY <1>1, LenProperties DEF TypeOK
<1>3. word = <<>>
  OBVIOUS
<1>4. TypeOK'
  BY <1>1 DEF TypeOK
<1>5. BufferBounded'
  BY <1>2 DEF BufferBounded
<1>6. HandledIsClean'
  BY DEF HandledIsClean, Clean
<1>7. Len(word') + Len(line') <= MaxLine
  BY <1>1, <1>2, <1>3, Empty
<1>8. QED
  BY <1>1, <1>4, <1>5, <1>6, <1>7 DEF Clean

LEMMA nextLineIInv == IInv /\ nextLine => IInv'
<1> SUFFICES ASSUME IInv, nextLine PROVE IInv'
  OBVIOUS
<1>1. PICK p \in DOMAIN buf :
        IsFirst(p) /\ line' = Cut(SubSeq(buf, 1, p - 1)) /\ buf' = From(buf, p + 1)
  BY DEF nextLine
<1>2. SubSeq(buf, 1, p - 1) \in Seq(Octet) /\ buf' \in Seq(Octet) /\ Len(buf') <= Len(buf)
  BY <1>1, RestOfBuffer
<1>3. \A i \in DOMAIN SubSeq(buf, 1, p - 1) : SubSeq(buf, 1, p - 1)[i] # LF
  BY <1>1, RestOfBuffer DEF IsFirst
<1>4. /\ pc = "extract" /\ pc' = "scan" /\ skipping' \in BOOLEAN
      /\ UNCHANGED <<arrived, word, messages, handled, connected>>
  BY DEF nextLine, IInv, TypeOK
<1>5. QED
  BY <1>1, <1>2, <1>3, <1>4, LineTakenIInv

LEMMA ForceExtractIInv == IInv /\ ForceExtract => IInv'
<1> SUFFICES ASSUME IInv, ForceExtract PROVE IInv'
  OBVIOUS
<1>1. buf \in Seq(Octet) /\ (\A i \in DOMAIN buf : buf[i] # LF) /\ line' = Cut(buf)
  BY DEF IInv, TypeOK, ForceExtract, NoLF
<1>2. buf' \in Seq(Octet) /\ Len(buf') <= Len(buf)
  BY <1>1, Empty, LenProperties DEF ForceExtract
<1>3. /\ pc = "extract" /\ pc' = "scan" /\ skipping' \in BOOLEAN
      /\ UNCHANGED <<arrived, word, messages, handled, connected>>
  BY DEF ForceExtract
<1>4. QED
  BY <1>1, <1>2, <1>3, LineTakenIInv

LEMMA NoMoreLinesIInv == IInv /\ NoMoreLines => IInv'
<1> SUFFICES ASSUME IInv, NoMoreLines PROVE IInv'
  OBVIOUS
<1> USE FramingAssumption DEF IInv
<1>1. buf' \in Seq(Octet) /\ NoLF' /\ (skipping' => buf' = <<>>) /\ Len(buf') <= MaxLine
  BY Empty DEF TypeOK, NoMoreLines, NoLF
<1>2. Len(buf') \in Nat
  BY <1>1, LenProperties
<1>3. TypeOK'
  BY <1>1 DEF TypeOK, NoMoreLines
<1>4. BufferBounded'
  BY <1>1, <1>2 DEF BufferBounded
<1>5. HandledIsClean'
  BY DEF HandledIsClean, NoMoreLines, Clean
<1>6. QED
  BY <1>3, <1>4, <1>5 DEF NoMoreLines, Clean

(* An octet of the line.                                                   *)
LEMMA scanIInv == IInv /\ scan => IInv'
<1> SUFFICES ASSUME IInv, scan PROVE IInv'
  OBVIOUS
<1> USE FramingAssumption DEF IInv
<1>1. /\ line \in Seq(Octet) /\ line # <<>> /\ word \in Seq(Octet) /\ word \in Seq(Text)
      /\ line' = Tail(line)
  BY DEF TypeOK, scan
<1>2. /\ Head(line) \in Octet /\ line' \in Seq(Octet) /\ Len(line') = Len(line) - 1
      /\ \A i \in 1 .. Len(line') : line'[i] = line[i + 1]
  BY <1>1, HeadTailProperties
<1>3. /\ Len(line) \in Nat /\ DOMAIN line = 1 .. Len(line) /\ DOMAIN line' = 1 .. Len(line')
      /\ Len(word) \in Nat
  BY <1>1, <1>2, LenProperties
<1>4. \A q \in DOMAIN line' : line'[q] # LF
  <2>1. ASSUME NEW q \in 1 .. Len(line) - 1 PROVE line'[q] # LF
    <3>1. line'[q] = line[q + 1] /\ q + 1 \in DOMAIN line
      BY <1>2, <1>3
    <3>2. QED
      BY <3>1
  <2>2. QED
    BY <1>2, <1>3, <2>1
<1>5. Head(line) # LF
  BY <1>1, <1>3 DEF scan
<1>6. /\ word' \in Seq(Octet) /\ word' \in Seq(Text) /\ Len(word') + Len(line') <= MaxLine
      /\ messages' \in Seq(Seq(Octet)) /\ \A i \in DOMAIN messages' : Clean(messages'[i])
  <2>1. CASE Head(line) = NUL /\ UNCHANGED <<word, messages>>
    BY <1>1, <1>2, <1>3, <2>1 DEF TypeOK
  <2>2. CASE Flush
    <3>1. /\ messages' \in Seq(Seq(Octet)) /\ word' = <<>>
          /\ \A i \in DOMAIN messages' : Clean(messages'[i])
      BY <2>2, FlushIsClean
    <3>2. Len(word') + Len(line') <= MaxLine
      BY <1>2, <1>3, <3>1, Empty
    <3>3. QED
      BY <3>1, <3>2, Empty
  <2>3. CASE Head(line) \notin {NUL, CR} /\ word' = Append(word, Head(line)) /\ UNCHANGED messages
    <3>1. Head(line) \in Text
      BY <1>2, <1>5, <2>3 DEF Text
    <3>2. word' \in Seq(Text) /\ word' \in Seq(Octet) /\ Len(word') = Len(word) + 1
      BY <1>1, <1>2, <2>3, <3>1, AppendProperties
    <3>3. QED
      BY <1>2, <1>3, <2>3, <3>2 DEF TypeOK
  <2>4. QED
    BY <2>1, <2>2, <2>3 DEF scan
<1>7. TypeOK'
  BY <1>2, <1>6 DEF TypeOK, scan
<1>8. BufferBounded'
  BY DEF BufferBounded, scan, NoLF
<1>9. HandledIsClean'
  BY DEF HandledIsClean, scan, Clean
<1>10. pc' = "scan" /\ connected' = connected
  BY DEF scan
<1>11. connected'
  BY DEF scan
<1>12. QED
  BY <1>4, <1>6, <1>7, <1>8, <1>9, <1>10, <1>11 DEF Clean

LEMMA endOfLineIInv == IInv /\ endOfLine => IInv'
<1> SUFFICES ASSUME IInv, endOfLine PROVE IInv'
  OBVIOUS
<1> USE FramingAssumption DEF IInv
<1>1. /\ messages' \in Seq(Seq(Octet)) /\ word' = <<>>
      /\ \A i \in DOMAIN messages' : Clean(messages'[i])
  BY FlushIsClean DEF endOfLine
<1>2. TypeOK'
  BY <1>1, Empty DEF TypeOK, endOfLine
<1>3. BufferBounded'
  BY DEF BufferBounded, endOfLine, NoLF
<1>4. HandledIsClean'
  BY DEF HandledIsClean, endOfLine, Clean
<1>5. /\ line' = <<>> /\ word' \in Seq(Text) /\ Len(word') + Len(line') <= MaxLine
      /\ \A q \in DOMAIN line' : line'[q] # LF
  BY <1>1, Empty DEF endOfLine
<1>6. connected' /\ pc' = "extract"
  BY DEF endOfLine
<1>7. QED
  BY <1>1, <1>2, <1>3, <1>4, <1>5, <1>6 DEF Clean

(* A message is handed over.                                               *)
LEMMA handleNextIInv == IInv /\ handleNext => IInv'
<1> SUFFICES ASSUME IInv, handleNext PROVE IInv'
  OBVIOUS
<1> USE FramingAssumption DEF IInv
<1>1. /\ messages \in Seq(Seq(Octet)) /\ messages # <<>> /\ handled \in Seq(Seq(Octet))
      /\ handled' = Append(handled, Head(messages))
  BY DEF TypeOK, handleNext
<1>2. /\ Head(messages) \in Seq(Octet) /\ Tail(messages) \in Seq(Seq(Octet))
      /\ Len(Tail(messages)) = Len(messages) - 1
      /\ \A i \in 1 .. Len(Tail(messages)) : Tail(messages)[i] = messages[i + 1]
  BY <1>1, HeadTailProperties
<1>3. /\ Len(messages) \in Nat /\ DOMAIN messages = 1 .. Len(messages)
      /\ DOMAIN Tail(messages) = 1 .. Len(Tail(messages))
  BY <1>1, <1>2, LenProperties
<1>4. Clean(Head(messages))
  <2>1. Head(messages) = messages[1]
    BY <1>1
  <2>2. 1 \in DOMAIN messages
    BY <1>1, <1>3
  <2>3. QED
    BY <2>1, <2>2
<1>5. ASSUME NEW i \in DOMAIN Tail(messages) PROVE Clean(Tail(messages)[i])
  <2>1. Tail(messages)[i] = messages[i + 1] /\ i + 1 \in DOMAIN messages
    BY <1>2, <1>3
  <2>2. QED
    BY <2>1
<1>6. messages' \in Seq(Seq(Octet)) /\ \A i \in DOMAIN messages' : Clean(messages'[i])
  BY <1>2, <1>5, Empty DEF handleNext
<1>7. /\ handled' \in Seq(Seq(Octet)) /\ Len(handled') = Len(handled) + 1
      /\ \A i \in 1 .. Len(handled) : handled'[i] = handled[i]
      /\ handled'[Len(handled) + 1] = Head(messages)
  BY <1>1, <1>2, AppendProperties
<1>8. /\ Len(handled) \in Nat /\ DOMAIN handled = 1 .. Len(handled)
      /\ DOMAIN handled' = 1 .. Len(handled) + 1
  BY <1>1, <1>7, LenProperties
<1>9. ASSUME NEW i \in DOMAIN handled' PROVE Clean(handled'[i])
  <2>1. CASE i = Len(handled) + 1
    BY <2>1, <1>4, <1>7
  <2>2. CASE i # Len(handled) + 1
    <3>1. i \in DOMAIN handled /\ handled'[i] = handled[i]
      BY <2>2, <1>7, <1>8
    <3>2. QED
      BY <3>1 DEF HandledIsClean
  <2>3. QED
    BY <2>1, <2>2
<1>10. HandledIsClean'
  BY <1>9 DEF HandledIsClean, Clean
<1>11. TypeOK'
  BY <1>6, <1>7 DEF TypeOK, handleNext
<1>12. BufferBounded'
  BY DEF BufferBounded, handleNext, NoLF
<1>13. QED
  BY <1>6, <1>10, <1>11, <1>12 DEF handleNext, Clean

LEMMA NextIInv == IInv /\ [Next]_vars => IInv'
<1> SUFFICES ASSUME IInv, [Next]_vars PROVE IInv'
  OBVIOUS
<1> USE DEF IInv, TypeOK, BufferBounded, HandledIsClean, NoLF, Clean
<1>1. CASE ConnectionClosed
  BY <1>1 DEF ConnectionClosed
<1>2. CASE EndOfInput
  BY <1>2 DEF EndOfInput
<1>3. CASE UNCHANGED vars
  BY <1>3 DEF vars
<1>4. QED
  BY <1>1, <1>2, <1>3, recvIInv, SkipToLFIInv, nextLineIInv, ForceExtractIInv, NoMoreLinesIInv,
     scanIInv, endOfLineIInv, handleNextIInv DEF Next, Server

(* Whatever arrives and however it is cut, the inductive invariant holds.  *)
THEOREM Invariance == Spec => []IInv
  BY InitIInv, NextIInv, PTL DEF Spec

(* No handler is ever given an empty message, one longer than a line, or   *)
(* one with a CR, an LF or a NUL in it.                                    *)
THEOREM Cleanness == Spec => []HandledIsClean
<1>1. IInv => HandledIsClean
  BY DEF IInv
<1>2. QED
  BY <1>1, Invariance, PTL

(* The line buffer is bounded by a line and a read, and no complete line   *)
(* is left in it between two reads.                                        *)
THEOREM Boundedness == Spec => []BufferBounded
<1>1. IInv => BufferBounded
  BY DEF IInv
<1>2. QED
  BY <1>1, Invariance, PTL

-----------------------------------------------------------------------------
(* The refinement of LineStream.  First what its one pass over the octets  *)
(* computes: the state after an octet is Take of the state before it.      *)

LineState ==
    [len : 0 .. MaxLine + 1, word : Seq(Octet), cut : Seq(Seq(Octet)), msgs : Seq(Seq(Octet))]

IsPass(s, h) ==
    h = [n \in 0 .. Len(s) |->
            IF n = 0 THEN Stream!EmptyLine(<<>>, 0) ELSE Stream!Take(h[n - 1], s[n])]

LEMMA FlushedType ==
    ASSUME NEW ms \in Seq(Seq(Octet)), NEW w \in Seq(Octet)
    PROVE  Stream!Flushed(ms, w) \in Seq(Seq(Octet))
  BY AppendProperties DEF Stream!Flushed

LEMMA PiecesType ==
    ASSUME NEW st \in LineState
    PROVE  Stream!Pieces(st) \in Seq(Seq(Octet))
<1>1. st.msgs \in Seq(Seq(Octet)) /\ st.cut \in Seq(Seq(Octet)) /\ st.word \in Seq(Octet)
  BY DEF LineState
<1>2. Stream!Flushed(st.cut, st.word) \in Seq(Seq(Octet))
  BY <1>1, FlushedType
<1>3. QED
  BY <1>1, <1>2, ConcatProperties DEF Stream!Pieces

(* The cases of Take, by what they do to the parts of the state.           *)
LEMMA TakeLF ==
    ASSUME NEW st \in LineState
    PROVE  /\ Stream!Take(st, LF).len = 0 /\ Stream!Take(st, LF).word = <<>>
           /\ Stream!Take(st, LF).cut = <<>>
           /\ Stream!Take(st, LF).msgs = Stream!Pieces(st)
           /\ Stream!Take(st, LF) \in LineState
<1>1. Stream!Take(st, LF) = [len |-> 0, word |-> <<>>, cut |-> <<>>, msgs |-> Stream!Pieces(st)]
  BY FramingAssumption DEF Stream!Take, Stream!EmptyLine
<1>2. QED
  BY <1>1, PiecesType, Empty, FramingAssumption DEF LineState

LEMMA TakeTooLong ==
    ASSUME NEW st \in LineState, NEW c \in Octet, c # LF, st.len >= MaxLine
    PROVE  /\ Stream!Take(st, c).len = MaxLine + 1 /\ Stream!Take(st, c).word = <<>>
           /\ Stream!Take(st, c).cut = <<>>
           /\ Stream!Take(st, c).msgs = Stream!Pieces(st)
           /\ Stream!Take(st, c) \in LineState
<1>1. st.len \in Nat
  BY FramingAssumption DEF LineState
<1>2. Stream!Take(st, c)
        = [len |-> MaxLine + 1, word |-> <<>>, cut |-> <<>>, msgs |-> Stream!Pieces(st)]
  BY <1>1, FramingAssumption DEF Stream!Take, Stream!EmptyLine
<1>3. QED
  BY <1>2, PiecesType, Empty, FramingAssumption DEF LineState

LEMMA TakeInLine ==
    ASSUME NEW st \in LineState, NEW c \in Octet, c # LF, st.len < MaxLine
    PROVE  /\ Stream!Take(st, c).len = st.len + 1
           /\ Stream!Take(st, c).msgs = st.msgs
           /\ Stream!Take(st, c).word = IF c = CR THEN <<>>
                                        ELSE IF c = NUL THEN st.word ELSE Append(st.word, c)
           /\ Stream!Take(st, c).cut = IF c = CR THEN Stream!Flushed(st.cut, st.word) ELSE st.cut
           /\ Stream!Take(st, c) \in LineState
<1>1. /\ st.len \in Nat /\ st.msgs \in Seq(Seq(Octet)) /\ st.cut \in Seq(Seq(Octet))
      /\ st.word \in Seq(Octet)
  BY FramingAssumption DEF LineState
<1>2. ~(st.len >= MaxLine)
  BY <1>1, FramingAssumption
<1>3. /\ Stream!Flushed(st.cut, st.word) \in Seq(Seq(Octet))
      /\ Append(st.word, c) \in Seq(Octet) /\ <<>> \in Seq(Octet)
      /\ st.len + 1 \in 0 .. MaxLine + 1
  BY <1>1, FlushedType, AppendProperties, Empty, FramingAssumption, SMTT(30)
<1> DEFINE F == Stream!Flushed(st.cut, st.word)
<1> HIDE DEF F
<1>4. CASE c = CR
  <2>1. Stream!Take(st, c) = [st EXCEPT !.len = st.len + 1, !.word = <<>>, !.cut = F]
    BY <1>2, <1>4, FramingAssumption DEF Stream!Take, F
  <2>2. QED
    BY <1>1, <1>3, <1>4, <2>1 DEF LineState, F
<1>5. CASE c = NUL
  <2>1. Stream!Take(st, c) = [st EXCEPT !.len = st.len + 1]
    BY <1>2, <1>5, FramingAssumption DEF Stream!Take
  <2>2. QED
    BY <1>1, <1>3, <1>5, <2>1, FramingAssumption DEF LineState
<1>6. CASE c # CR /\ c # NUL
  <2>1. Stream!Take(st, c) = [st EXCEPT !.len = st.len + 1, !.word = Append(st.word, c)]
    BY <1>2, <1>6, FramingAssumption DEF Stream!Take
  <2>2. QED
    BY <1>1, <1>3, <1>6, <2>1 DEF LineState
<1>7. QED
  BY <1>4, <1>5, <1>6

LEMMA TakeType ==
    ASSUME NEW st \in LineState, NEW c \in Octet
    PROVE  Stream!Take(st, c) \in LineState
<1>1. st.len \in Nat
  BY FramingAssumption DEF LineState
<1>2. QED
  BY <1>1, TakeLF, TakeTooLong, TakeInLine, FramingAssumption

LEMMA StartType == Stream!EmptyLine(<<>>, 0) \in LineState
  BY Empty, FramingAssumption DEF LineState, Stream!EmptyLine

(* One more octet prolongs the pass.                                       *)
LEMMA PassGrows ==
    ASSUME NEW s \in Seq(Octet), NEW c \in Octet, NEW h, IsPass(s, h)
    PROVE  LET g == [n \in 0 .. Len(s) + 1 |->
                        IF n <= Len(s) THEN h[n] ELSE Stream!Take(h[Len(s)], c)]
           IN  IsPass(Append(s, c), g)
<1> DEFINE g == [n \in 0 .. Len(s) + 1 |->
                        IF n <= Len(s) THEN h[n] ELSE Stream!Take(h[Len(s)], c)]
<1> DEFINE t == Append(s, c)
<1> DEFINE k == [n \in 0 .. Len(t) |->
                    IF n = 0 THEN Stream!EmptyLine(<<>>, 0) ELSE Stream!Take(g[n - 1], t[n])]
<1>1. /\ Len(s) \in Nat /\ Len(t) = Len(s) + 1 /\ t[Len(s) + 1] = c
      /\ \A i \in 1 .. Len(s) : t[i] = s[i]
  BY AppendProperties, LenProperties
<1> HIDE DEF t
<1>2. \A n \in 0 .. Len(s) :
        h[n] = IF n = 0 THEN Stream!EmptyLine(<<>>, 0) ELSE Stream!Take(h[n - 1], s[n])
  BY DEF IsPass
<1>3. ASSUME NEW n \in 0 .. Len(s) + 1
      PROVE  g[n] = IF n = 0 THEN Stream!EmptyLine(<<>>, 0) ELSE Stream!Take(g[n - 1], t[n])
  <2>1. CASE n = 0
    BY <1>1, <1>2, <2>1
  <2>2. CASE n \in 1 .. Len(s)
    <3>1. g[n] = h[n] /\ g[n - 1] = h[n - 1] /\ t[n] = s[n]
      BY <1>1, <2>2
    <3>2. h[n] = Stream!Take(h[n - 1], s[n])
      BY <1>1, <1>2, <2>2
    <3>3. QED
      BY <2>2, <3>1, <3>2
  <2>3. CASE n = Len(s) + 1
    <3>1. g[n] = Stream!Take(h[Len(s)], c) /\ g[n - 1] = h[Len(s)] /\ n # 0
      BY <1>1, <2>3
    <3>2. QED
      BY <1>1, <2>3, <3>1
  <2>4. QED
    BY <1>1, <2>1, <2>2, <2>3
<1>4. g = k
  BY <1>1, <1>3
<1>5. QED
  BY <1>4 DEF IsPass, t

LEMMA PassExists ==
    ASSUME NEW s \in Seq(Octet)
    PROVE  \E h : IsPass(s, h)
<1> DEFINE T == {t \in Seq(Octet) : \E h : IsPass(t, h)}
<1>1. <<>> \in T
  <2>1. IsPass(<<>>, [n \in 0 .. 0 |-> Stream!EmptyLine(<<>>, 0)])
    <3> DEFINE h == [n \in 0 .. 0 |-> Stream!EmptyLine(<<>>, 0)]
    <3>1. h = [n \in 0 .. 0 |->
                IF n = 0 THEN Stream!EmptyLine(<<>>, 0) ELSE Stream!Take(h[n - 1], <<>>[n])]
      OBVIOUS
    <3>2. QED
      BY <3>1, Empty DEF IsPass
  <2>2. QED
    BY <2>1, Empty
<1>2. ASSUME NEW t \in Seq(Octet), NEW e \in Octet, t \in T
      PROVE  Append(t, e) \in T
  <2>1. PICK h : IsPass(t, h)
    BY <1>2
  <2>2. \E g : IsPass(Append(t, e), g)
    BY <2>1, PassGrows
  <2>3. QED
    BY <2>2, AppendProperties
<1> HIDE DEF T
<1>3. Seq(Octet) \subseteq T
  BY <1>1, <1>2, SequenceInduction
<1>4. QED
  BY <1>3 DEF T

(* Every pass ends where Framed does.                                      *)
LEMMA FramedByPass ==
    ASSUME NEW s \in Seq(Octet), NEW h, IsPass(s, h)
    PROVE  Stream!Framed(s) = h[Len(s)]
<1> DEFINE f == CHOOSE g : IsPass(s, g)
<1>1. Stream!Framed(s) = f[Len(s)]
  BY DEF Stream!Framed, IsPass
<1>2. IsPass(s, f)
  OBVIOUS
<1> HIDE DEF f
<1>3. /\ \A n \in 0 .. Len(s) :
            f[n] = IF n = 0 THEN Stream!EmptyLine(<<>>, 0) ELSE Stream!Take(f[n - 1], s[n])
      /\ \A n \in 0 .. Len(s) :
            h[n] = IF n = 0 THEN Stream!EmptyLine(<<>>, 0) ELSE Stream!Take(h[n - 1], s[n])
  BY <1>2 DEF IsPass
<1>4. Len(s) \in Nat
  BY LenProperties
<1>5. f[0] = h[0]
  BY <1>3, <1>4
<1>6. \A k \in 1 .. Len(s) : f[k - 1] = h[k - 1] => f[k] = h[k]
  BY <1>3, <1>4
<1>7. \A k \in 0 .. Len(s) : f[k] = h[k]
  BY <1>4, <1>5, <1>6, SameSteps
<1>8. QED
  BY <1>1, <1>4, <1>7

LEMMA FramedEmpty == Stream!Framed(<<>>) = Stream!EmptyLine(<<>>, 0)
<1>1. PICK h : IsPass(<<>>, h)
  BY PassExists, Empty
<1>2. Stream!Framed(<<>>) = h[0]
  BY <1>1, FramedByPass, Empty
<1>3. QED
  BY <1>1, <1>2, Empty DEF IsPass

LEMMA FramedAppend ==
    ASSUME NEW s \in Seq(Octet), NEW c \in Octet
    PROVE  Stream!Framed(Append(s, c)) = Stream!Take(Stream!Framed(s), c)
<1>1. PICK h : IsPass(s, h)
  BY PassExists
<1> DEFINE g == [n \in 0 .. Len(s) + 1 |->
                        IF n <= Len(s) THEN h[n] ELSE Stream!Take(h[Len(s)], c)]
<1>2. IsPass(Append(s, c), g)
  BY <1>1, PassGrows
<1>3. Append(s, c) \in Seq(Octet) /\ Len(Append(s, c)) = Len(s) + 1 /\ Len(s) \in Nat
  BY AppendProperties, LenProperties
<1>4. g[Len(s) + 1] = Stream!Take(h[Len(s)], c)
  BY <1>3
<1> HIDE DEF g
<1>5. Stream!Framed(Append(s, c)) = g[Len(s) + 1]
  BY <1>2, <1>3, FramedByPass
<1>6. Stream!Framed(s) = h[Len(s)]
  BY <1>1, FramedByPass
<1>7. QED
  BY <1>4, <1>5, <1>6

(* The state after any input: its parts, and that nothing is pending where *)
(* a line begins or is lost.                                               *)
TidyState == {st \in LineState : st.len \in {0, MaxLine + 1} => st.word = <<>> /\ st.cut = <<>>}

LEMMA FramedType ==
    ASSUME NEW s \in Seq(Octet)
    PROVE  Stream!Framed(s) \in LineState /\ Stream!Framed(s) \in TidyState
<1> DEFINE T == {t \in Seq(Octet) : Stream!Framed(t) \in TidyState}
<1>1. <<>> \in T
  BY FramedEmpty, StartType, Empty DEF TidyState, Stream!EmptyLine
<1>2. ASSUME NEW t \in Seq(Octet), NEW e \in Octet, t \in T
      PROVE  Append(t, e) \in T
  <2> DEFINE st == Stream!Framed(t)
  <2>1. st \in LineState /\ st.len \in Nat
    BY <1>2, FramingAssumption DEF TidyState, LineState
  <2>2. Stream!Framed(Append(t, e)) = Stream!Take(st, e)
    BY FramedAppend
  <2> HIDE DEF st
  <2>3. Stream!Take(st, e) \in TidyState
    <3>1. CASE e = LF
      BY <2>1, <3>1, TakeLF DEF TidyState
    <3>2. CASE e # LF /\ st.len >= MaxLine
      BY <2>1, <3>2, TakeTooLong DEF TidyState
    <3>3. CASE e # LF /\ st.len < MaxLine
      <4>1. Stream!Take(st, e).len = st.len + 1 /\ Stream!Take(st, e) \in LineState
        BY <2>1, <3>3, TakeInLine
      <4>2. Stream!Take(st, e).len \notin {0, MaxLine + 1}
        BY <2>1, <3>3, <4>1, FramingAssumption
      <4>3. QED
        BY <4>1, <4>2 DEF TidyState
    <3>4. QED
      BY <2>1, <3>1, <3>2, <3>3, FramingAssumption
  <2>4. QED
    BY <2>2, <2>3, AppendProperties
<1> HIDE DEF T
<1>3. Seq(Octet) \subseteq T
  BY <1>1, <1>2, SequenceInduction
<1>4. QED
  BY <1>3 DEF T, TidyState

(* Where a line begins or is lost, all the messages are complete.          *)
LEMMA NothingPending ==
    ASSUME NEW st \in TidyState, st.len \in {0, MaxLine + 1}
    PROVE  Stream!Pieces(st) = st.msgs
<1>1. st.word = <<>> /\ st.cut = <<>> /\ st.msgs \in Seq(Seq(Octet))
  BY DEF TidyState, LineState
<1>2. Stream!Pieces(st) = st.msgs \o <<>>
  BY <1>1 DEF Stream!Pieces, Stream!Flushed
<1> DEFINE m == st.msgs
<1>3. m \in Seq(Seq(Octet))
  BY <1>1
<1> HIDE DEF m
<1>4. m \o <<>> = m
  BY <1>3, ConcatEmptySeq
<1>5. QED
  BY <1>2, <1>4 DEF m

Unbroken(s) == \A i \in DOMAIN s : s[i] # LF

LEMMA UnbrokenAppend ==
    ASSUME NEW s \in Seq(Octet), NEW c \in Octet, Unbroken(Append(s, c))
    PROVE  Unbroken(s) /\ c # LF
<1>1. /\ Len(s) \in Nat /\ Len(Append(s, c)) = Len(s) + 1 /\ Append(s, c)[Len(s) + 1] = c
      /\ \A i \in 1 .. Len(s) : Append(s, c)[i] = s[i]
      /\ DOMAIN s = 1 .. Len(s) /\ DOMAIN Append(s, c) = 1 .. Len(s) + 1
  BY AppendProperties, LenProperties
<1>2. \A i \in 1 .. Len(s) + 1 : Append(s, c)[i] # LF
  BY <1>1 DEF Unbroken
<1>3. c # LF
  BY <1>1, <1>2
<1>4. \A i \in 1 .. Len(s) : s[i] # LF
  BY <1>1, <1>2
<1>5. QED
  BY <1>1, <1>3, <1>4 DEF Unbroken

LEMMA ConcatAppend ==
    ASSUME NEW S, NEW s \in Seq(S), NEW t \in Seq(S), NEW e \in S
    PROVE  s \o Append(t, e) = Append(s \o t, e)
<1>1. Append(t, e) = t \o <<e>> /\ <<e>> \in Seq(S)
  BY AppendIsConcat
<1>2. Append(s \o t, e) = (s \o t) \o <<e>>
  BY AppendIsConcat, ConcatProperties
<1>3. (s \o t) \o <<e>> = s \o (t \o <<e>>)
  BY <1>1, ConcatAssociative
<1>4. QED
  BY <1>1, <1>2, <1>3

(* Octets of an unfinished line that is not too long complete nothing.     *)
LEMMA WithinLine ==
    ASSUME NEW c \in Seq(Octet), NEW s \in Seq(Octet), Unbroken(s),
           Stream!Framed(c).len + Len(s) <= MaxLine
    PROVE  /\ Stream!Framed(c \o s).len = Stream!Framed(c).len + Len(s)
           /\ Stream!Framed(c \o s).msgs = Stream!Framed(c).msgs
<1> DEFINE b == Stream!Framed(c)
<1> DEFINE Ok(t) == /\ Stream!Framed(c \o t).len = b.len + Len(t)
                    /\ Stream!Framed(c \o t).msgs = b.msgs
<1> DEFINE T == {t \in Seq(Octet) : Unbroken(t) /\ b.len + Len(t) <= MaxLine => Ok(t)}
<1>0. b.len \in Nat
  BY FramedType, FramingAssumption DEF LineState
<1>1. <<>> \in T
  <2>1. c \o <<>> = c
    BY ConcatEmptySeq
  <2>2. QED
    BY <1>0, <2>1, Empty
<1>2. ASSUME NEW t \in Seq(Octet), NEW e \in Octet, t \in T
      PROVE  Append(t, e) \in T
  <2>1. SUFFICES ASSUME Unbroken(Append(t, e)), b.len + Len(Append(t, e)) <= MaxLine
                 PROVE  Ok(Append(t, e))
    BY AppendProperties
  <2>2. Unbroken(t) /\ e # LF
    BY <2>1, UnbrokenAppend
  <2>3. Len(Append(t, e)) = Len(t) + 1 /\ Len(t) \in Nat
    BY AppendProperties, LenProperties
  <2>4. b.len + Len(t) <= MaxLine /\ b.len + Len(t) < MaxLine
    BY <1>0, <2>1, <2>3, FramingAssumption
  <2>5. Ok(t)
    BY <1>2, <2>2, <2>4
  <2> DEFINE st == Stream!Framed(c \o t)
  <2>6. st \in LineState
    BY FramedType, ConcatProperties
  <2>7. Stream!Framed(c \o Append(t, e)) = Stream!Take(st, e)
    <3>1. c \o Append(t, e) = Append(c \o t, e) /\ c \o t \in Seq(Octet)
      BY ConcatAppend, ConcatProperties
    <3>2. Stream!Framed(Append(c \o t, e)) = Stream!Take(Stream!Framed(c \o t), e)
      BY <3>1, FramedAppend
    <3>3. QED
      BY <3>1, <3>2
  <2> HIDE DEF st
  <2>8. Stream!Take(st, e).len = st.len + 1 /\ Stream!Take(st, e).msgs = st.msgs
    BY <2>2, <2>4, <2>5, <2>6, TakeInLine DEF st
  <2>9. st.len = b.len + Len(t) /\ st.msgs = b.msgs
    BY <2>5 DEF st
  <2>10. (b.len + Len(t)) + 1 = b.len + Len(Append(t, e))
    <3>1. \A x, y \in Nat : (x + y) + 1 = x + (y + 1)
      OBVIOUS
    <3>2. (b.len + Len(t)) + 1 = b.len + (Len(t) + 1)
      BY <1>0, <2>3, <3>1
    <3>3. QED
      BY <2>3, <3>2
  <2>11. QED
    BY <2>7, <2>8, <2>9, <2>10
<1> HIDE DEF T
<1>3. Seq(Octet) \subseteq T
  BY <1>1, <1>2, SequenceInduction
<1>4. QED
  BY <1>3 DEF T

(* Once a line is full, what follows up to its LF adds nothing.            *)
LEMMA BeyondLine ==
    ASSUME NEW c \in Seq(Octet), NEW s \in Seq(Octet), Unbroken(s),
           Stream!Framed(c).len >= MaxLine
    PROVE  /\ Stream!Framed(c \o s).len >= MaxLine
           /\ Stream!Pieces(Stream!Framed(c \o s)) = Stream!Pieces(Stream!Framed(c))
<1> DEFINE Ok(t) == /\ Stream!Framed(c \o t).len >= MaxLine
                    /\ Stream!Pieces(Stream!Framed(c \o t)) = Stream!Pieces(Stream!Framed(c))
<1> DEFINE T == {t \in Seq(Octet) : Unbroken(t) => Ok(t)}
<1>1. <<>> \in T
  <2>1. c \o <<>> = c
    BY ConcatEmptySeq
  <2>2. QED
    BY <2>1, Empty
<1>2. ASSUME NEW t \in Seq(Octet), NEW e \in Octet, t \in T
      PROVE  Append(t, e) \in T
  <2>1. SUFFICES ASSUME Unbroken(Append(t, e))
                 PROVE  Ok(Append(t, e))
    BY AppendProperties
  <2>2. Unbroken(t) /\ e # LF
    BY <2>1, UnbrokenAppend
  <2>3. Ok(t)
    BY <1>2, <2>2
  <2> DEFINE st == Stream!Framed(c \o t)
  <2>4. st \in LineState
    BY FramedType, ConcatProperties
  <2>5. Stream!Framed(c \o Append(t, e)) = Stream!Take(st, e)
    <3>1. c \o Append(t, e) = Append(c \o t, e) /\ c \o t \in Seq(Octet)
      BY ConcatAppend, ConcatProperties
    <3>2. Stream!Framed(Append(c \o t, e)) = Stream!Take(Stream!Framed(c \o t), e)
      BY <3>1, FramedAppend
    <3>3. QED
      BY <3>1, <3>2
  <2> HIDE DEF st
  <2>6. /\ Stream!Take(st, e).len = MaxLine + 1 /\ Stream!Take(st, e).msgs = Stream!Pieces(st)
        /\ Stream!Take(st, e).word = <<>> /\ Stream!Take(st, e).cut = <<>>
        /\ Stream!Take(st, e) \in LineState
    BY <2>2, <2>3, <2>4, TakeTooLong DEF st
  <2>7. Stream!Pieces(Stream!Take(st, e)) = Stream!Pieces(st)
    <3>1. Stream!Take(st, e) \in TidyState
      BY <2>6 DEF TidyState
    <3>2. QED
      BY <2>6, <3>1, NothingPending
  <2>8. MaxLine + 1 >= MaxLine
    BY FramingAssumption
  <2>9. QED
    BY <2>3, <2>5, <2>6, <2>7, <2>8 DEF st
<1> HIDE DEF T
<1>3. Seq(Octet) \subseteq T
  BY <1>1, <1>2, SequenceInduction
<1>4. QED
  BY <1>3 DEF T

(* Moving the head of one sequence to the end of another.                  *)
LEMMA HeadMoves ==
    ASSUME NEW S, NEW s \in Seq(S), NEW t \in Seq(S), t # <<>>
    PROVE  /\ Head(t) \in S /\ Append(s, Head(t)) \in Seq(S) /\ Tail(t) \in Seq(S)
           /\ Append(s, Head(t)) \o Tail(t) = s \o t
           /\ Append(s, Head(t)) = SubSeq(s \o t, 1, Len(s) + 1)
           /\ Len(s) < Len(s \o t)
<1>1. /\ Head(t) \in S /\ Tail(t) \in Seq(S) /\ Len(Tail(t)) = Len(t) - 1
      /\ \A i \in 1 .. Len(Tail(t)) : Tail(t)[i] = t[i + 1]
  BY HeadTailProperties
<1>2. Len(s) \in Nat /\ Len(t) \in Nat \ {0} /\ Head(t) = t[1]
  BY EmptySeq, LenProperties
<1> DEFINE u == Append(s, Head(t))
<1>3. /\ u \in Seq(S) /\ Len(u) = Len(s) + 1 /\ (\A i \in 1 .. Len(s) : u[i] = s[i])
      /\ u[Len(s) + 1] = Head(t)
  BY <1>1, AppendProperties
<1>4. /\ s \o t \in Seq(S) /\ Len(s \o t) = Len(s) + Len(t)
      /\ \A i \in 1 .. Len(s) + Len(t) : (s \o t)[i] = IF i <= Len(s) THEN s[i] ELSE t[i - Len(s)]
  BY ConcatProperties
<1> HIDE DEF u
<1>5. u \o Tail(t) = s \o t
  <2>1. /\ u \o Tail(t) \in Seq(S) /\ Len(u \o Tail(t)) = Len(u) + Len(Tail(t))
        /\ \A i \in 1 .. Len(u) + Len(Tail(t)) :
              (u \o Tail(t))[i] = IF i <= Len(u) THEN u[i] ELSE Tail(t)[i - Len(u)]
    BY <1>1, <1>3, ConcatProperties
  <2>2. Len(u \o Tail(t)) = Len(s \o t) /\ Len(u) + Len(Tail(t)) = Len(s) + Len(t)
    BY <1>1, <1>2, <1>3, <1>4, <2>1
  <2>3. ASSUME NEW i \in 1 .. Len(s) + Len(t) PROVE (u \o Tail(t))[i] = (s \o t)[i]
    <3>1. CASE i <= Len(s)
      BY <1>2, <1>3, <1>4, <2>1, <2>2, <3>1
    <3>2. CASE i = Len(s) + 1
      BY <1>2, <1>3, <1>4, <2>1, <2>2, <3>2
    <3>3. CASE i > Len(s) + 1
      <4>1. (u \o Tail(t))[i] = Tail(t)[i - (Len(s) + 1)]
        BY <1>2, <1>3, <2>1, <2>2, <3>3
      <4>2. i - (Len(s) + 1) \in 1 .. Len(Tail(t)) /\ (i - (Len(s) + 1)) + 1 = i - Len(s)
        BY <1>1, <1>2, <3>3
      <4>3. Tail(t)[i - (Len(s) + 1)] = t[i - Len(s)]
        BY <1>1, <4>2
      <4>4. (s \o t)[i] = t[i - Len(s)]
        BY <1>2, <1>4, <3>3
      <4>5. QED
        BY <4>1, <4>3, <4>4
    <3>4. i <= Len(s) \/ i = Len(s) + 1 \/ i > Len(s) + 1
      BY <1>2
    <3>5. QED
      BY <3>1, <3>2, <3>3, <3>4
  <2>4. QED
    BY <1>4, <2>1, <2>2, <2>3, SeqEqual
<1>6. u = SubSeq(s \o t, 1, Len(s) + 1)
  <2> DEFINE v == SubSeq(s \o t, 1, Len(s) + 1)
  <2>1. /\ v \in Seq(S) /\ Len(v) = IF 1 <= Len(s) + 1 THEN (Len(s) + 1) - 1 + 1 ELSE 0
        /\ \A i \in 1 .. (Len(s) + 1) - 1 + 1 : v[i] = (s \o t)[1 + i - 1]
    BY <1>2, <1>4, SubSeqElements
  <2> HIDE DEF v
  <2>2. Len(v) = Len(s) + 1 /\ \A i \in 1 .. Len(s) + 1 : v[i] = (s \o t)[i]
    BY <1>2, <2>1
  <2>3. \A i \in 1 .. Len(u) : u[i] = v[i]
    BY <1>2, <1>3, <1>4, <2>2
  <2>4. u = v
    BY <1>3, <2>1, <2>2, <2>3, SeqEqual
  <2>5. QED
    BY <2>4 DEF v
<1>7. Len(s) < Len(s \o t)
  BY <1>2, <1>4
<1>8. QED
  BY <1>1, <1>3, <1>5, <1>6, <1>7 DEF u

(* Ending a word ends the same list of messages, however it is split.      *)
SameEnd(m, k, h, n, w) ==
    m \o k = h \o n => m \o Stream!Flushed(k, w) = h \o Stream!Flushed(n, w)

LEMMA FlushedAfter ==
    ASSUME NEW m \in Seq(Seq(Octet)), NEW k \in Seq(Seq(Octet)),
           NEW h \in Seq(Seq(Octet)), NEW n \in Seq(Seq(Octet)), NEW w \in Seq(Octet)
    PROVE  SameEnd(m, k, h, n, w)
<1> USE DEF SameEnd
<1>1. CASE w = <<>>
  BY <1>1 DEF Stream!Flushed
<1>2. CASE w # <<>>
  <2>1. Stream!Flushed(k, w) = Append(k, w) /\ Stream!Flushed(n, w) = Append(n, w)
    BY <1>2 DEF Stream!Flushed
  <2> DEFINE S == Seq(Octet)
  <2> HIDE DEF S
  <2>0. \A s, t \in Seq(S) : \A e \in S : s \o Append(t, e) = Append(s \o t, e)
    BY ConcatAppend
  <2>2. m \o Append(k, w) = Append(m \o k, w)
    BY <2>0, Zenon DEF S
  <2>3. h \o Append(n, w) = Append(h \o n, w)
    BY <2>0, Zenon DEF S
  <2>4. QED
    BY <2>1, <2>2, <2>3
<1>3. QED
  BY <1>1, <1>2

(* A line as it is taken from the buffer yields the pieces the pass sees.  *)
LEMMA LineTaken ==
    ASSUME NEW c \in Seq(Octet), Stream!Framed(c).len = 0,
           NEW s \in Seq(Octet), Unbroken(s)
    PROVE  /\ Stream!Framed(c).len + Len(Cut(s)) <= MaxLine
           /\ Stream!Pieces(Stream!Framed(c \o Cut(s))) = Stream!Pieces(Stream!Framed(c \o s))
           /\ Len(s) >= MaxLine => Stream!Framed(c \o s).len >= MaxLine
<1>1. /\ Cut(s) \in Seq(Octet) /\ Len(Cut(s)) <= MaxLine /\ Unbroken(Cut(s))
      /\ Len(Cut(s)) \in Nat /\ Len(s) \in Nat
  BY CutIsShort, LenProperties DEF Unbroken
<1>2. Stream!Framed(c).len + Len(Cut(s)) <= MaxLine
  BY <1>1
<1>3. Stream!Framed(c \o Cut(s)).len = Len(Cut(s))
  BY <1>1, <1>2, WithinLine
<1>4. CASE Len(s) <= MaxLine
  <2>1. Cut(s) = SubSeq(s, 1, Len(s))
    BY <1>1, <1>4, FramingAssumption DEF Cut
  <2>2. Cut(s) = s
    BY <2>1, SubSeqFull
  <2>3. Len(s) >= MaxLine => Stream!Framed(c \o s).len >= MaxLine
    BY <1>3, <2>2
  <2>4. QED
    BY <1>2, <2>2, <2>3
<1>5. CASE Len(s) > MaxLine
  <2>1. Cut(s) = SubSeq(s, 1, MaxLine)
    BY <1>1, <1>5, FramingAssumption DEF Cut
  <2> DEFINE r == SubSeq(s, MaxLine + 1, Len(s))
  <2>2. Cut(s) \o r = s
    <3>1. 1 \in 1 .. Len(s) + 1 /\ MaxLine \in 1 - 1 .. Len(s) /\ Len(s) \in MaxLine .. Len(s)
      BY <1>1, <1>5, FramingAssumption
    <3>2. SubSeq(s, 1, MaxLine) \o SubSeq(s, MaxLine + 1, Len(s)) = SubSeq(s, 1, Len(s))
      BY <3>1, ConcatAdjacentSubSeq
    <3>3. QED
      BY <2>1, <3>2, SubSeqFull
  <2>3. /\ r \in Seq(Octet)
        /\ Len(r) = IF MaxLine + 1 <= Len(s) THEN Len(s) - (MaxLine + 1) + 1 ELSE 0
        /\ \A i \in 1 .. Len(s) - (MaxLine + 1) + 1 : r[i] = s[MaxLine + 1 + i - 1]
    BY <1>1, <1>5, FramingAssumption, SubSeqElements, SMTT(30)
  <2> HIDE DEF r
  <2>4. Unbroken(r)
    <3>1. DOMAIN r = 1 .. Len(s) - MaxLine /\ DOMAIN s = 1 .. Len(s)
      BY <1>1, <1>5, <2>3, LenProperties, FramingAssumption
    <3>2. ASSUME NEW i \in 1 .. Len(s) - MaxLine PROVE r[i] # LF
      <4>1. /\ i \in 1 .. Len(s) - (MaxLine + 1) + 1 /\ MaxLine + 1 + i - 1 = MaxLine + i
            /\ MaxLine + i \in 1 .. Len(s)
        BY <1>1, <1>5, FramingAssumption
      <4>2. r[i] = s[MaxLine + i] /\ MaxLine + i \in DOMAIN s
        BY <2>3, <3>1, <4>1
      <4>3. QED
        BY <4>2 DEF Unbroken
    <3>3. QED
      BY <3>1, <3>2 DEF Unbroken
  <2>5. Len(Cut(s)) = MaxLine
    <3>1. Len(SubSeq(s, 1, MaxLine)) = IF 1 <= MaxLine THEN MaxLine - 1 + 1 ELSE 0
      BY <1>1, <1>5, FramingAssumption, SubSeqElements
    <3>2. QED
      BY <2>1, <3>1, FramingAssumption
  <2>6. (c \o Cut(s)) \o r = c \o s
    <3> DEFINE a == Cut(s)
    <3>1. a \in Seq(Octet)
      BY <1>1
    <3> HIDE DEF a
    <3>2. (c \o a) \o r = c \o (a \o r)
      BY <2>3, <3>1, ConcatAssociative, SMTT(30)
    <3>3. QED
      BY <2>2, <3>2 DEF a
  <2> DEFINE k == c \o Cut(s)
  <2>7. k \in Seq(Octet) /\ Stream!Framed(k).len >= MaxLine
    BY <1>1, <1>3, <2>5, ConcatProperties, FramingAssumption
  <2> HIDE DEF k
  <2>8. /\ Stream!Framed(k \o r).len >= MaxLine
        /\ Stream!Pieces(Stream!Framed(k \o r)) = Stream!Pieces(Stream!Framed(k))
    BY <2>3, <2>4, <2>7, BeyondLine
  <2>9. QED
    BY <1>2, <2>6, <2>8 DEF k
<1>6. QED
  BY <1>1, <1>4, <1>5, FramingAssumption

LEMMA Regroup == \A s, t, u \in Seq(Octet) : (s \o t) \o u = s \o (t \o u)
  BY ConcatAssociative

(* The LF of a line is the end of the octets up to it.                     *)
LEMMA BufferSplit ==
    ASSUME IInv, NEW p \in DOMAIN buf, IsFirst(p), NEW c \in Seq(Octet)
    PROVE  /\ SubSeq(buf, 1, p - 1) \in Seq(Octet) /\ Unbroken(SubSeq(buf, 1, p - 1))
           /\ c \o SubSeq(buf, 1, p - 1) \in Seq(Octet)
           /\ Append(c \o SubSeq(buf, 1, p - 1), LF) \in Seq(Octet)
           /\ c \o buf = Append(c \o SubSeq(buf, 1, p - 1), LF) \o From(buf, p + 1)
<1>1. buf \in Seq(Octet) /\ Len(buf) \in Nat /\ p \in 1 .. Len(buf) /\ buf[p] = LF
  BY LenProperties DEF IInv, TypeOK, IsFirst
<1> DEFINE l == SubSeq(buf, 1, p - 1)
<1> DEFINE r == From(buf, p + 1)
<1>2. l \in Seq(Octet) /\ r \in Seq(Octet) /\ Unbroken(l)
  BY RestOfBuffer DEF Unbroken, IsFirst
<1>3. SubSeq(buf, 1, p) = Append(l, LF)
  <2>1. 1 \in 1 .. Len(buf) /\ p \in 1 .. Len(buf)
    BY <1>1
  <2>2. SubSeq(buf, 1, p) = l \o <<buf[p]>>
    BY <1>1, <2>1, SubSeqRecursiveSecond
  <2>3. Append(l, LF) = l \o <<LF>>
    BY <1>2, AppendIsConcat, FramingAssumption
  <2>4. QED
    BY <1>1, <2>2, <2>3
<1>4. SubSeq(buf, 1, p) \o r = buf
  <2>1. 1 \in 1 .. Len(buf) + 1 /\ p \in 1 - 1 .. Len(buf) /\ Len(buf) \in p .. Len(buf)
    BY <1>1
  <2>2. SubSeq(buf, 1, p) \o SubSeq(buf, p + 1, Len(buf)) = SubSeq(buf, 1, Len(buf))
    BY <1>1, <2>1, ConcatAdjacentSubSeq
  <2>3. QED
    BY <1>1, <2>2, SubSeqFull DEF From
<1> HIDE DEF l, r
<1>5. Append(l, LF) \in Seq(Octet) /\ c \o l \in Seq(Octet) /\ Append(c \o l, LF) \in Seq(Octet)
  BY <1>2, AppendProperties, ConcatProperties, FramingAssumption
<1>6. c \o Append(l, LF) = Append(c \o l, LF)
  BY <1>2, ConcatAppend, FramingAssumption
<1>7. (c \o Append(l, LF)) \o r = c \o (Append(l, LF) \o r)
  <2> DEFINE a == Append(l, LF)
  <2>1. a \in Seq(Octet)
    BY <1>5
  <2> HIDE DEF a
  <2>2. (c \o a) \o r = c \o (a \o r)
    BY <1>2, <2>1, Regroup, Zenon
  <2>3. QED
    BY <2>2 DEF a
<1>8. QED
  BY <1>2, <1>3, <1>4, <1>5, <1>6, <1>7 DEF l, r

(* How the server's reading stands to the one pass: c is what has left the *)
(* buffer.  A line is under way in c only while its rest is skipped, and   *)
(* c's messages are those handled and those waiting.  While a line is      *)
(* scanned these are the messages of the octets d scanned so far; with     *)
(* what is left to scan they become those of c.                            *)
Scanned(d, c) ==
    /\ Stream!Framed(d).word = word
    /\ Stream!Framed(d).msgs \o Stream!Framed(d).cut = handled \o messages
    /\ Stream!Framed(d).len + Len(line) <= MaxLine
    /\ Stream!Pieces(Stream!Framed(d \o line)) = Stream!Pieces(Stream!Framed(c))

ReadUpTo(c) ==
    /\ arrived = c \o buf
    /\ IF skipping THEN Stream!Framed(c).len >= MaxLine ELSE Stream!Framed(c).len = 0
    /\ connected /\ pc # "scan" => Stream!Pieces(Stream!Framed(c)) = handled \o messages
    /\ pc = "scan" => \E d \in Seq(Octet) : Scanned(d, c)

StreamInv == IInv /\ \E c \in Seq(Octet) : ReadUpTo(c)

LEMMA InitStream == Init => StreamInv
<1> SUFFICES ASSUME Init PROVE StreamInv
  OBVIOUS
<1>1. IInv
  BY InitIInv
<1>2. /\ Stream!Framed(<<>>).len = 0 /\ Stream!Framed(<<>>).msgs = <<>>
      /\ Stream!Framed(<<>>) \in TidyState /\ <<>> \in Seq(Octet)
  <2>1. <<>> \in Seq(Octet)
    BY Empty
  <2>2. Stream!Framed(<<>>) \in TidyState
    BY <2>1, FramedType
  <2>3. Stream!Framed(<<>>).len = 0 /\ Stream!Framed(<<>>).msgs = <<>>
    BY FramedEmpty DEF Stream!EmptyLine
  <2>4. QED
    BY <2>1, <2>2, <2>3
<1>3. Stream!Pieces(Stream!Framed(<<>>)) = <<>>
  BY <1>2, NothingPending
<1>4. <<>> \o <<>> = <<>>
  BY Empty, ConcatEmptySeq
<1>5. ReadUpTo(<<>>)
  BY <1>2, <1>3, <1>4 DEF ReadUpTo, Init
<1>6. QED
  BY <1>1, <1>2, <1>5 DEF StreamInv

(* Between two reads and in the loop over the messages, the messages       *)
(* handled and waiting are those due.                                      *)
LEMMA AllIsDue ==
    ASSUME IInv, NEW c \in Seq(Octet), ReadUpTo(c), connected, pc \in {"recv", "handle"}
    PROVE  handled \o messages \in Stream!Due(arrived)
<1>1. /\ arrived = c \o buf /\ buf \in Seq(Octet) /\ Len(buf) <= MaxLine /\ Unbroken(buf)
      /\ (skipping => buf = <<>>)
  BY DEF IInv, TypeOK, BufferBounded, NoLF, Unbroken, ReadUpTo
<1>2. Stream!Pieces(Stream!Framed(c)) = handled \o messages
  BY DEF ReadUpTo
<1>3. Stream!Framed(c) \in LineState /\ Stream!Framed(c) \in TidyState
  BY FramedType
<1>4. CASE skipping
  <2>1. arrived = c
    BY <1>1, <1>4, ConcatEmptySeq
  <2>2. Stream!Framed(c).len >= MaxLine /\ Stream!Framed(c).len \in 0 .. MaxLine + 1
    BY <1>3, <1>4 DEF ReadUpTo, LineState
  <2>3. CASE Stream!Framed(c).len = MaxLine
    BY <1>2, <2>1, <2>3 DEF Stream!Due
  <2>4. CASE Stream!Framed(c).len = MaxLine + 1
    <3>1. Stream!Pieces(Stream!Framed(c)) = Stream!Framed(c).msgs
      BY <1>3, <2>4, NothingPending
    <3>2. QED
      BY <1>2, <2>1, <3>1 DEF Stream!Due, Stream!Complete
  <2>5. QED
    BY <2>2, <2>3, <2>4, FramingAssumption
<1>5. CASE ~skipping
  <2>1. Stream!Framed(c).len = 0
    BY <1>5 DEF ReadUpTo
  <2>2. Stream!Framed(c).len + Len(buf) <= MaxLine
    BY <1>1, <2>1, LenProperties
  <2>3. Stream!Framed(arrived).msgs = Stream!Framed(c).msgs
    BY <1>1, <2>2, WithinLine
  <2>4. Stream!Pieces(Stream!Framed(c)) = Stream!Framed(c).msgs
    BY <1>3, <2>1, NothingPending
  <2>5. QED
    BY <1>2, <2>3, <2>4 DEF Stream!Due, Stream!Complete
<1>6. QED
  BY <1>4, <1>5 DEF IInv, TypeOK

(* Each action keeps what has been read in step with the stream.           *)
LEMMA recvStream ==
    ASSUME IInv, NEW c \in Seq(Octet), ReadUpTo(c), NEW data \in Chunk, recv(data)
    PROVE  ReadUpTo(c)'
<1>1. data \in Seq(Octet)
  <2>1. PICK k \in 1 .. MaxLine : data \in [1 .. k -> Octet]
    BY DEF Chunk
  <2>2. QED
    BY <2>1, FramingAssumption
<1>2. buf \in Seq(Octet)
  BY DEF IInv, TypeOK
<1>3. arrived' = c \o buf'
  <2>1. (c \o buf) \o data = c \o (buf \o data)
    BY <1>1, <1>2, Regroup, Zenon
  <2>2. QED
    BY <2>1 DEF ReadUpTo, recv
<1>4. QED
  BY <1>3 DEF ReadUpTo, recv

(* The octets up to an LF end a line: its pieces are messages now.         *)
LEMMA LineEnds ==
    ASSUME NEW k \in Seq(Octet)
    PROVE  /\ Stream!Framed(Append(k, LF)).len = 0
           /\ Stream!Pieces(Stream!Framed(Append(k, LF))) = Stream!Pieces(Stream!Framed(k))
<1> DEFINE st == Stream!Framed(k)
<1>1. st \in LineState /\ LF \in Octet
  BY FramedType, FramingAssumption
<1>2. Stream!Framed(Append(k, LF)) = Stream!Take(st, LF)
  BY <1>1, FramedAppend
<1> HIDE DEF st
<1>3. /\ Stream!Take(st, LF).len = 0 /\ Stream!Take(st, LF).msgs = Stream!Pieces(st)
      /\ Stream!Take(st, LF) \in TidyState
  BY <1>1, TakeLF DEF TidyState
<1>4. Stream!Pieces(Stream!Take(st, LF)) = Stream!Pieces(st)
  BY <1>3, NothingPending
<1>5. QED
  BY <1>2, <1>3, <1>4 DEF st

LEMMA SkipToLFStream ==
    ASSUME IInv, NEW c \in Seq(Octet), ReadUpTo(c), SkipToLF
    PROVE  \E x \in Seq(Octet) : ReadUpTo(x)'
<1>1. PICK p \in DOMAIN buf : IsFirst(p) /\ buf' = From(buf, p + 1)
  BY DEF SkipToLF
<1>2. PICK l \in Seq(Octet), x \in Seq(Octet) :
        Unbroken(l) /\ c \o l \in Seq(Octet) /\ x = Append(c \o l, LF) /\ c \o buf = x \o buf'
  BY <1>1, BufferSplit
<1>3. Stream!Framed(c).len >= MaxLine
  BY DEF SkipToLF, ReadUpTo
<1>4. Stream!Pieces(Stream!Framed(c \o l)) = Stream!Pieces(Stream!Framed(c))
  BY <1>2, <1>3, BeyondLine
<1>5. /\ Stream!Framed(x).len = 0
      /\ Stream!Pieces(Stream!Framed(x)) = Stream!Pieces(Stream!Framed(c))
  BY <1>2, <1>4, LineEnds
<1>6. ReadUpTo(x)'
  BY <1>2, <1>5 DEF ReadUpTo, SkipToLF
<1>7. QED
  BY <1>6

(* The beginning of a scan.                                                *)
LEMMA ScanBegins ==
    ASSUME IInv, NEW c \in Seq(Octet), ReadUpTo(c), pc = "extract", ~skipping,
           NEW s \in Seq(Octet), Unbroken(s), line' = Cut(s),
           UNCHANGED <<word, handled, messages>>,
           NEW x, Stream!Pieces(Stream!Framed(x)) = Stream!Pieces(Stream!Framed(c \o s))
    PROVE  Scanned(c, x)'
<1> DEFINE st == Stream!Framed(c)
<1>1. st.len = 0 /\ st \in TidyState /\ connected
  BY FramedType DEF ReadUpTo, IInv
<1>2. Stream!Pieces(st) = st.msgs
  BY <1>1, NothingPending
<1>3. st.word = <<>> /\ st.cut = <<>> /\ st.msgs \in Seq(Seq(Octet))
  BY <1>1 DEF TidyState, LineState
<1>4. st.msgs = handled \o messages
  BY <1>1, <1>2 DEF ReadUpTo
<1>5. st.msgs \o st.cut = handled \o messages
  <2> DEFINE m == st.msgs
  <2>1. m \in Seq(Seq(Octet))
    BY <1>3
  <2> HIDE DEF m
  <2>2. m \o <<>> = m
    BY <2>1, ConcatEmptySeq
  <2>3. QED
    BY <1>3, <1>4, <2>2 DEF m
<1>6. /\ st.len + Len(Cut(s)) <= MaxLine
      /\ Stream!Pieces(Stream!Framed(c \o Cut(s))) = Stream!Pieces(Stream!Framed(c \o s))
  BY <1>1, LineTaken
<1>7. word = <<>>
  BY DEF IInv
<1>8. QED
  BY <1>3, <1>5, <1>6, <1>7 DEF Scanned

LEMMA nextLineStream ==
    ASSUME IInv, NEW c \in Seq(Octet), ReadUpTo(c), nextLine
    PROVE  \E x \in Seq(Octet) : ReadUpTo(x)'
<1>1. PICK p \in DOMAIN buf :
        IsFirst(p) /\ line' = Cut(SubSeq(buf, 1, p - 1)) /\ buf' = From(buf, p + 1)
  BY DEF nextLine
<1>2. PICK l \in Seq(Octet), x \in Seq(Octet) :
        /\ Unbroken(l) /\ c \o l \in Seq(Octet) /\ x = Append(c \o l, LF) /\ c \o buf = x \o buf'
        /\ line' = Cut(l)
  BY <1>1, BufferSplit
<1>3. /\ Stream!Framed(x).len = 0
      /\ Stream!Pieces(Stream!Framed(x)) = Stream!Pieces(Stream!Framed(c \o l))
  BY <1>2, LineEnds
<1>4. /\ pc = "extract" /\ ~skipping /\ UNCHANGED <<word, handled, messages>>
      /\ pc' = "scan" /\ ~skipping' /\ arrived' = arrived
  BY DEF nextLine
<1>5. Scanned(c, x)'
  BY <1>2, <1>3, <1>4, ScanBegins
<1>6. arrived' = x \o buf'
  BY <1>2, <1>4 DEF ReadUpTo
<1>7. ReadUpTo(x)'
  BY <1>3, <1>4, <1>5, <1>6 DEF ReadUpTo
<1>8. QED
  BY <1>7

LEMMA ForceExtractStream ==
    ASSUME IInv, NEW c \in Seq(Octet), ReadUpTo(c), ForceExtract
    PROVE  \E x \in Seq(Octet) : ReadUpTo(x)'
<1>1. PICK s \in Seq(Octet), x \in Seq(Octet) : s = buf /\ x = c \o buf
  BY ConcatProperties DEF IInv, TypeOK
<1>2. /\ pc = "extract" /\ ~skipping /\ UNCHANGED <<word, handled, messages>>
      /\ pc' = "scan" /\ skipping' /\ arrived' = arrived /\ buf' = <<>>
      /\ line' = Cut(s) /\ Unbroken(s) /\ Len(s) >= MaxLine
  BY <1>1 DEF ForceExtract, NoLF, Unbroken
<1>3. Stream!Framed(c).len = 0
  BY <1>2 DEF ReadUpTo
<1>4. Stream!Framed(x).len >= MaxLine
  BY <1>1, <1>2, <1>3, LineTaken
<1>5. Scanned(c, x)'
  BY <1>1, <1>2, ScanBegins
<1>6. arrived' = x \o buf'
  BY <1>1, <1>2, ConcatEmptySeq DEF ReadUpTo
<1>7. ReadUpTo(x)'
  BY <1>2, <1>4, <1>5, <1>6 DEF ReadUpTo
<1>8. QED
  BY <1>7

LEMMA NoMoreLinesStream ==
    ASSUME IInv, NEW c \in Seq(Octet), ReadUpTo(c), NoMoreLines
    PROVE  \E x \in Seq(Octet) : ReadUpTo(x)'
<1>1. CASE ~skipping
  <2>1. ReadUpTo(c)'
    BY <1>1 DEF ReadUpTo, NoMoreLines
  <2>2. QED
    BY <2>1
<1>2. CASE skipping
  <2>1. PICK s \in Seq(Octet), x \in Seq(Octet) : s = buf /\ x = c \o s
    BY ConcatProperties DEF IInv, TypeOK
  <2>2. Unbroken(s) /\ buf' = <<>> /\ arrived' = x
    BY <1>2, <2>1 DEF NoMoreLines, NoLF, Unbroken, ReadUpTo
  <2>3. /\ Stream!Framed(x).len >= MaxLine
        /\ Stream!Pieces(Stream!Framed(x)) = Stream!Pieces(Stream!Framed(c))
    BY <1>2, <2>1, <2>2, BeyondLine DEF ReadUpTo
  <2>4. arrived' = x \o buf'
    BY <2>2, ConcatEmptySeq
  <2>5. ReadUpTo(x)'
    BY <1>2, <2>3, <2>4 DEF ReadUpTo, NoMoreLines
  <2>6. QED
    BY <2>5
<1>3. QED
  BY <1>1, <1>2 DEF IInv, TypeOK

(* An octet of the line: the pass takes it too.                            *)
LEMMA scanStream ==
    ASSUME IInv, NEW c \in Seq(Octet), ReadUpTo(c), scan
    PROVE  ReadUpTo(c)'
<1>1. PICK d \in Seq(Octet) : Scanned(d, c)
  BY DEF ReadUpTo, scan
<1>2. /\ line \in Seq(Octet) /\ line # <<>> /\ line' = Tail(line) /\ word \in Seq(Octet)
      /\ messages \in Seq(Seq(Octet)) /\ handled \in Seq(Seq(Octet)) /\ handled' = handled
  BY DEF scan, IInv, TypeOK
<1>3. /\ Len(line) \in Nat \ {0} /\ Len(line') = Len(line) - 1 /\ Head(line) # LF
      /\ Head(line) \in Octet
  <2>1. Len(line) \in Nat \ {0} /\ Len(Tail(line)) = Len(line) - 1 /\ Head(line) = line[1]
        /\ DOMAIN line = 1 .. Len(line) /\ Head(line) \in Octet
    BY <1>2, EmptySeq, LenProperties, HeadTailProperties
  <2>2. 1 \in DOMAIN line
    BY <2>1
  <2>3. QED
    BY <1>2, <2>1, <2>2 DEF IInv
<1>4. PICK o \in Octet, e \in Seq(Octet) : o = Head(line) /\ e = Append(d, o)
  BY <1>3, AppendProperties
<1>5. e \o line' = d \o line
  <2>1. Append(d, Head(line)) \o Tail(line) = d \o line
    BY <1>2, HeadMoves, ZenonT(60)
  <2>2. QED
    BY <1>2, <1>4, <2>1
<1> DEFINE st == Stream!Framed(d)
<1>6. st \in LineState /\ Stream!Framed(e) = Stream!Take(st, o)
  BY <1>4, FramedType, FramedAppend
<1>7. /\ st.len \in Nat /\ st.msgs \in Seq(Seq(Octet)) /\ st.cut \in Seq(Seq(Octet))
  BY <1>6, FramingAssumption DEF LineState
<1>8. /\ st.word = word /\ st.msgs \o st.cut = handled \o messages
      /\ st.len + Len(line) <= MaxLine
  BY <1>1 DEF Scanned
<1> HIDE DEF st
<1>9. st.len < MaxLine
  BY <1>3, <1>7, <1>8, FramingAssumption
<1>10. /\ Stream!Take(st, o).len = st.len + 1
       /\ Stream!Take(st, o).msgs = st.msgs
       /\ Stream!Take(st, o).word = IF o = CR THEN <<>>
                                    ELSE IF o = NUL THEN st.word ELSE Append(st.word, o)
       /\ Stream!Take(st, o).cut = IF o = CR THEN Stream!Flushed(st.cut, st.word) ELSE st.cut
  BY <1>3, <1>4, <1>6, <1>9, TakeInLine
<1>11. /\ Stream!Framed(e).word = word'
       /\ Stream!Framed(e).msgs \o Stream!Framed(e).cut = handled' \o messages'
  <2>1. CASE o = NUL /\ UNCHANGED <<word, messages>>
    BY <1>2, <1>6, <1>8, <1>10, <2>1, FramingAssumption
  <2>2. CASE o = CR /\ Flush
    <3>1. PICK h, n, m, k \in Seq(Seq(Octet)), w \in Seq(Octet) :
            h = handled /\ n = messages /\ w = word /\ m = st.msgs /\ k = st.cut
      BY <1>2, <1>7
    <3>2. messages' = Stream!Flushed(n, w) /\ word' = <<>>
      BY <2>2, <3>1 DEF Flush, Stream!Flushed
    <3>3. SameEnd(m, k, h, n, w)
      BY FlushedAfter
    <3>4. m \o k = h \o n
      BY <1>8, <3>1
    <3>5. /\ Stream!Framed(e).cut = Stream!Flushed(k, w) /\ Stream!Framed(e).msgs = m
          /\ Stream!Framed(e).word = <<>>
      BY <1>6, <1>8, <1>10, <2>2, <3>1
    <3>6. QED
      BY <1>2, <3>1, <3>2, <3>3, <3>4, <3>5 DEF SameEnd
  <2>3. CASE o \notin {NUL, CR} /\ word' = Append(word, o) /\ UNCHANGED messages
    BY <1>2, <1>6, <1>8, <1>10, <2>3
  <2>4. QED
    BY <1>4, <2>1, <2>2, <2>3 DEF scan
<1>12. Stream!Framed(e).len + Len(line') <= MaxLine
  <2>1. Stream!Framed(e).len = st.len + 1
    BY <1>6, <1>10
  <2>2. (st.len + 1) + Len(line') = st.len + Len(line)
    BY <1>3, <1>7
  <2>3. QED
    BY <1>8, <2>1, <2>2
<1>13. Stream!Pieces(Stream!Framed(e \o line')) = Stream!Pieces(Stream!Framed(c))
  BY <1>1, <1>5 DEF Scanned
<1>14. Scanned(e, c)'
  BY <1>11, <1>12, <1>13 DEF Scanned
<1>15. QED
  BY <1>14 DEF ReadUpTo, scan

(* At the end of the line its last piece joins the messages.               *)
LEMMA endOfLineStream ==
    ASSUME IInv, NEW c \in Seq(Octet), ReadUpTo(c), endOfLine
    PROVE  ReadUpTo(c)'
<1>1. PICK d \in Seq(Octet) : Scanned(d, c)
  BY DEF ReadUpTo, endOfLine
<1>2. /\ word \in Seq(Octet) /\ messages \in Seq(Seq(Octet)) /\ handled \in Seq(Seq(Octet))
      /\ handled' = handled /\ line = <<>>
  BY DEF endOfLine, IInv, TypeOK
<1>3. PICK h, n, m, k \in Seq(Seq(Octet)), w \in Seq(Octet) :
        /\ h = handled /\ n = messages /\ w = word
        /\ m = Stream!Framed(d).msgs /\ k = Stream!Framed(d).cut
  BY <1>2, FramedType DEF LineState
<1>4. messages' = Stream!Flushed(n, w)
  BY <1>3 DEF endOfLine, Flush, Stream!Flushed
<1>5. SameEnd(m, k, h, n, w)
  BY FlushedAfter
<1>6. m \o k = h \o n /\ Stream!Framed(d).word = w
  BY <1>1, <1>3 DEF Scanned
<1>7. Stream!Pieces(Stream!Framed(d)) = m \o Stream!Flushed(k, w)
  BY <1>3, <1>6 DEF Stream!Pieces
<1>8. d \o line = d
  BY <1>2, ConcatEmptySeq
<1>9. Stream!Pieces(Stream!Framed(c)) = handled' \o messages'
  BY <1>1, <1>2, <1>3, <1>4, <1>5, <1>6, <1>7, <1>8 DEF Scanned, SameEnd
<1>10. QED
  BY <1>9 DEF ReadUpTo, endOfLine

LEMMA handleNextStream ==
    ASSUME IInv, NEW c \in Seq(Octet), ReadUpTo(c), handleNext
    PROVE  ReadUpTo(c)'
<1>1. /\ messages # <<>> /\ messages \in Seq(Seq(Octet)) /\ handled \in Seq(Seq(Octet))
      /\ handled' = Append(handled, Head(messages)) /\ connected
  BY DEF handleNext, IInv, TypeOK
<1>2. Append(handled, Head(messages)) \o Tail(messages) = handled \o messages
  BY <1>1, HeadMoves, ZenonT(60)
<1>3. connected' => handled' \o messages' = handled \o messages
  BY <1>1, <1>2 DEF handleNext
<1>4. QED
  BY <1>1, <1>3 DEF ReadUpTo, handleNext

LEMMA NextStream == StreamInv /\ [Next]_vars => StreamInv'
<1> SUFFICES ASSUME StreamInv, [Next]_vars PROVE StreamInv'
  OBVIOUS
<1>1. PICK c \in Seq(Octet) : ReadUpTo(c)
  BY DEF StreamInv
<1>2. IInv
  BY DEF StreamInv
<1>3. IInv'
  BY <1>2, NextIInv
<1>4. \E x \in Seq(Octet) : ReadUpTo(x)'
  <2>1. CASE \E data \in Chunk : recv(data)
    BY <1>1, <1>2, <2>1, recvStream
  <2>2. CASE ConnectionClosed
    <3>1. ReadUpTo(c)'
      BY <1>1, <2>2 DEF ReadUpTo, ConnectionClosed
    <3>2. QED
      BY <3>1
  <2>3. CASE SkipToLF
    BY <1>1, <1>2, <2>3, SkipToLFStream
  <2>4. CASE nextLine
    BY <1>1, <1>2, <2>4, nextLineStream
  <2>5. CASE ForceExtract
    BY <1>1, <1>2, <2>5, ForceExtractStream
  <2>6. CASE NoMoreLines
    BY <1>1, <1>2, <2>6, NoMoreLinesStream
  <2>7. CASE scan
    BY <1>1, <1>2, <2>7, scanStream
  <2>8. CASE endOfLine
    BY <1>1, <1>2, <2>8, endOfLineStream
  <2>9. CASE handleNext
    BY <1>1, <1>2, <2>9, handleNextStream
  <2>10. CASE EndOfInput
    <3>1. connected' => connected
      BY <2>10 DEF EndOfInput
    <3>2. ReadUpTo(c)'
      BY <1>1, <2>10, <3>1 DEF ReadUpTo, EndOfInput
    <3>3. QED
      BY <3>2
  <2>11. CASE UNCHANGED vars
    <3>1. ReadUpTo(c)'
      BY <1>1, <2>11 DEF ReadUpTo, Scanned, vars
    <3>2. QED
      BY <3>1
  <2>12. QED
    BY <2>1, <2>2, <2>3, <2>4, <2>5, <2>6, <2>7, <2>8, <2>9, <2>10, <2>11 DEF Next, Server
<1>5. QED
  BY <1>3, <1>4 DEF StreamInv

-----------------------------------------------------------------------------
(* Every step is a step of the stream or none.                             *)

LEMMA ReadIsArrival ==
    ASSUME StreamInv, NEW data \in Chunk, recv(data)
    PROVE  Stream!Arrive
<1>1. PICK c \in Seq(Octet) : ReadUpTo(c)
  BY DEF StreamInv
<1>2. /\ IInv /\ pc = "recv" /\ connected /\ messages = <<>> /\ handled \in Seq(Seq(Octet))
      /\ arrived \in Seq(Octet)
  BY DEF StreamInv, IInv, TypeOK, recv
<1>3. handled \in Stream!Due(arrived)
  BY <1>1, <1>2, AllIsDue, ConcatEmptySeq
<1>4. PICK k \in 1 .. MaxLine : data \in [1 .. k -> Octet]
  BY DEF Chunk
<1>5. data \in Seq(Octet) /\ Len(data) = k /\ k \in Nat \ {0}
  BY <1>4, FramingAssumption
<1>6. /\ arrived' \in Seq(Octet) /\ Len(arrived') = Len(arrived) + Len(data)
      /\ \A i \in 1 .. Len(arrived) + Len(data) :
            arrived'[i] = IF i <= Len(arrived) THEN arrived[i] ELSE data[i - Len(arrived)]
  BY <1>2, <1>5, ConcatProperties DEF recv
<1>7. Len(arrived) \in Nat /\ Len(arrived) < Len(arrived')
  BY <1>2, <1>5, <1>6, LenProperties
<1>8. arrived = SubSeq(arrived', 1, Len(arrived))
  <2> DEFINE v == SubSeq(arrived', 1, Len(arrived))
  <2>1. /\ v \in Seq(Octet)
        /\ Len(v) = IF 1 <= Len(arrived) THEN Len(arrived) - 1 + 1 ELSE 0
        /\ \A i \in 1 .. Len(arrived) - 1 + 1 : v[i] = arrived'[1 + i - 1]
    BY <1>6, <1>7, LenProperties, SubSeqElements
  <2>2. Len(v) = Len(arrived) /\ \A i \in 1 .. Len(arrived) : v[i] = arrived'[i]
    BY <1>7, <2>1
  <2>3. \A i \in 1 .. Len(arrived) : arrived'[i] = arrived[i]
    BY <1>5, <1>6, <1>7
  <2> HIDE DEF v
  <2>4. v = arrived
    BY <1>2, <2>1, <2>2, <2>3, SeqEqual
  <2>5. QED
    BY <2>4 DEF v
<1>9. QED
  BY <1>2, <1>3, <1>7, <1>8 DEF recv, Stream!Arrive

LEMMA HandlingIsHandling ==
    ASSUME StreamInv, handleNext
    PROVE  handled' # handled /\ \E ms \in Stream!Due(arrived) : Stream!Handle(ms)
<1>1. PICK c \in Seq(Octet) : ReadUpTo(c)
  BY DEF StreamInv
<1>2. /\ IInv /\ pc = "handle" /\ connected /\ messages # <<>>
      /\ messages \in Seq(Seq(Octet)) /\ handled \in Seq(Seq(Octet))
      /\ handled' = Append(handled, Head(messages))
  BY DEF StreamInv, IInv, TypeOK, handleNext
<1>3. handled \o messages \in Stream!Due(arrived)
  BY <1>1, <1>2, AllIsDue
<1>4. /\ handled' = SubSeq(handled \o messages, 1, Len(handled) + 1)
      /\ Len(handled) < Len(handled \o messages)
  BY <1>2, HeadMoves
<1>5. (~connected') \in BOOLEAN /\ UNCHANGED arrived
  BY DEF handleNext
<1>6. handled' # handled
  <2>1. Head(messages) \in Seq(Octet)
    BY <1>2, HeadMoves
  <2>2. Len(handled') = Len(handled) + 1 /\ Len(handled) \in Nat
    BY <1>2, <2>1, AppendProperties, LenProperties
  <2>3. QED
    BY <2>2
<1>7. Stream!Handle(handled \o messages)
  BY <1>2, <1>4, <1>5 DEF Stream!Handle
<1>8. QED
  BY <1>3, <1>6, <1>7

LEMMA GivingUpIsEnd ==
    ASSUME StreamInv, ConnectionClosed \/ EndOfInput
    PROVE  Stream!End \/ UNCHANGED Stream!streamVars
<1>1. PICK c \in Seq(Octet) : ReadUpTo(c)
  BY DEF StreamInv
<1>2. /\ IInv /\ pc \in {"recv", "handle"} /\ messages = <<>> /\ handled \in Seq(Seq(Octet))
      /\ UNCHANGED <<arrived, handled>> /\ connected \in BOOLEAN
      /\ connected' \in {connected, FALSE}
  BY DEF StreamInv, IInv, TypeOK, ConnectionClosed, EndOfInput
<1>3. connected => handled \in Stream!Due(arrived)
  BY <1>1, <1>2, AllIsDue, ConcatEmptySeq
<1>4. CASE connected /\ ~connected'
  BY <1>2, <1>3, <1>4 DEF Stream!End
<1>5. CASE connected' = connected
  BY <1>2, <1>5 DEF Stream!streamVars
<1>6. QED
  BY <1>2, <1>4, <1>5

LEMMA StepsAreStreamSteps ==
    StreamInv /\ [Next]_vars => [Stream!Next]_(Stream!streamVars)
<1> SUFFICES ASSUME StreamInv, [Next]_vars
             PROVE  Stream!Next \/ UNCHANGED Stream!streamVars
  BY DEF Stream!streamVars
<1>1. CASE \E data \in Chunk : recv(data)
  BY <1>1, ReadIsArrival DEF Stream!Next
<1>2. CASE ConnectionClosed \/ EndOfInput
  BY <1>2, GivingUpIsEnd DEF Stream!Next
<1>3. CASE handleNext
  BY <1>3, HandlingIsHandling DEF Stream!Next
<1>4. CASE SkipToLF \/ nextLine \/ ForceExtract \/ NoMoreLines \/ scan \/ endOfLine
  <2>1. UNCHANGED <<arrived, handled, connected>>
    BY <1>4 DEF SkipToLF, nextLine, ForceExtract, NoMoreLines, scan, endOfLine
  <2>2. QED
    BY <2>1 DEF Stream!streamVars
<1>5. CASE UNCHANGED vars
  BY <1>5 DEF vars, Stream!streamVars
<1>6. QED
  BY <1>1, <1>2, <1>3, <1>4, <1>5 DEF Next, Server

(* However the reads cut the stream, what extractMessages and the loop of  *)
(* handleClientInput hand over is what one pass over the octets gives:     *)
(* each message once, in order, none made of two lines or of the rest of   *)
(* an overlong one, and none after the session is over.  This is           *)
(* AsOneStream without the promise that every message is handled in time.  *)
THEOREM FramesAsOneStream == Spec => Stream!SafeSpec
<1>1. Init => Stream!Init
  BY DEF Init, Stream!Init
<1>2. Spec => []StreamInv
  BY InitStream, NextStream, PTL DEF Spec
<1>3. QED
  BY <1>1, <1>2, StepsAreStreamSteps, PTL DEF Spec, Stream!SafeSpec
===============================================================================
