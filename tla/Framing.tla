-------------------------------- MODULE Framing --------------------------------
(***************************************************************************)
(* From octets to messages: Server::handleClientInput and                  *)
(* Client::extractMessages over the line buffer of libcpp98, which is not  *)
(* part of the repository and is modelled from its use and from            *)
(* tests/test_libcpp98.cpp.  A read brings up to MAX_MSGLEN octets of the  *)
(* stream, cut anywhere.  One step is one turn of a loop; nothing else     *)
(* runs until the read is dealt with.                                      *)
(***************************************************************************)
EXTENDS Naturals, Sequences, FiniteSets

CONSTANTS
    Octet, CR, LF, NUL,
    MaxLine,     \* MAX_MSGLEN: the most a read brings and a line holds
    MaxStream    \* bound on the octets of a session

ASSUME FramingAssumption ==
    /\ {CR, LF, NUL} \subseteq Octet
    /\ CR # LF /\ CR # NUL /\ LF # NUL
    /\ MaxLine \in Nat \ {0} /\ MaxStream \in Nat

VARIABLES
    arrived,   \* every octet read so far
    buf,       \* the line buffer
    skipping,  \* it drops the rest of an overlong line
    line,      \* what is left to scan of the line taken from it
    word,      \* the message being put together from that line
    messages,  \* extracted and not yet handled
    handled,   \* every message handed to handleMessage
    connected, \* the client is in the map and not waiting to be closed
    pc         \* "recv", "extract", "scan" or "handle"

vars == <<arrived, buf, skipping, line, word, messages, handled, connected, pc>>

Init ==
    /\ arrived = <<>> /\ buf = <<>> /\ skipping = FALSE
    /\ line = <<>> /\ word = <<>> /\ messages = <<>> /\ handled = <<>>
    /\ connected = TRUE /\ pc = "recv"

(* What one recv may bring.                                                *)
Chunk == UNION {[1..k -> Octet] : k \in 1..MaxLine}

recv(data) ==
    /\ pc = "recv" /\ connected
    /\ Len(arrived) + Len(data) <= MaxStream
    /\ arrived' = arrived \o data
    /\ buf' = buf \o data
    /\ pc' = "extract"
    /\ UNCHANGED <<skipping, line, word, messages, handled, connected>>

(* recv = 0: whatever is in the buffer is lost with the client.            *)
ConnectionClosed ==
    /\ pc = "recv" /\ connected
    /\ connected' = FALSE
    /\ UNCHANGED <<arrived, buf, skipping, line, word, messages, handled, pc>>

-----------------------------------------------------------------------------
(* The line buffer.                                                        *)

IsFirst(p) == p \in DOMAIN buf /\ buf[p] = LF /\ \A q \in 1..(p - 1) : buf[q] # LF
NoLF == \A q \in DOMAIN buf : buf[q] # LF
From(s, p) == SubSeq(s, p, Len(s))
Cut(s) == SubSeq(s, 1, IF Len(s) < MaxLine THEN Len(s) ELSE MaxLine)

SkipToLF ==
    /\ pc = "extract" /\ skipping
    /\ \E p \in DOMAIN buf : IsFirst(p) /\ buf' = From(buf, p + 1)
    /\ skipping' = FALSE
    /\ UNCHANGED <<arrived, line, word, messages, handled, connected, pc>>

(* A line is there.  That the library also takes off a CR before the LF    *)
(* shows nowhere: the scan would drop it.                                  *)
nextLine ==
    /\ pc = "extract" /\ ~skipping
    /\ \E p \in DOMAIN buf :
        /\ IsFirst(p)
        /\ line' = Cut(SubSeq(buf, 1, p - 1))
        /\ buf' = From(buf, p + 1)
    /\ pc' = "scan"
    /\ UNCHANGED <<arrived, skipping, word, messages, handled, connected>>

(* Faulty: the rest of an overlong line counts as a line.                  *)
ForceExtract_keepsRest ==
    /\ pc = "extract" /\ ~skipping /\ NoLF
    /\ Len(buf) >= MaxLine
    /\ line' = Cut(buf)
    /\ buf' = <<>>
    /\ pc' = "scan"
    /\ UNCHANGED <<arrived, skipping, word, messages, handled, connected>>

(* The line is overlong: its beginning is taken, the rest is dropped up to *)
(* the LF.  Whether a line of exactly MaxLine octets counts as overlong    *)
(* before its LF is in, is left open.                                      *)
ForceExtract ==
    /\ pc = "extract" /\ ~skipping /\ NoLF
    /\ Len(buf) >= MaxLine
    /\ line' = Cut(buf)
    /\ buf' = <<>>
    /\ skipping' = TRUE
    /\ pc' = "scan"
    /\ UNCHANGED <<arrived, word, messages, handled, connected>>

(* Faulty: an overlong line is waited for.                                 *)
NoMoreLines_waits ==
    /\ pc = "extract" /\ NoLF
    /\ buf' = IF skipping THEN <<>> ELSE buf
    /\ pc' = "handle"
    /\ UNCHANGED <<arrived, skipping, line, word, messages, handled, connected>>

NoMoreLines ==
    /\ pc = "extract" /\ NoLF
    /\ skipping \/ Len(buf) <= MaxLine
    /\ buf' = IF skipping THEN <<>> ELSE buf
    /\ pc' = "handle"
    /\ UNCHANGED <<arrived, skipping, line, word, messages, handled, connected>>

-----------------------------------------------------------------------------
(* extractMessages: stripNul and splitOnCr, an octet of the line a step.   *)

Flush ==
    /\ messages' = IF word = <<>> THEN messages ELSE Append(messages, word)
    /\ word' = <<>>

scan ==
    /\ pc = "scan" /\ line # <<>>
    /\ line' = Tail(line)
    /\ \/ Head(line) = NUL /\ UNCHANGED <<word, messages>>
       \/ Head(line) = CR /\ Flush
       \/ /\ Head(line) \notin {NUL, CR}
          /\ word' = Append(word, Head(line))
          /\ UNCHANGED messages
    /\ UNCHANGED <<arrived, buf, skipping, handled, connected, pc>>

endOfLine ==
    /\ pc = "scan" /\ line = <<>>
    /\ Flush
    /\ pc' = "extract"
    /\ UNCHANGED <<arrived, buf, skipping, line, handled, connected>>

-----------------------------------------------------------------------------
(* handleClientInput's loop.  A handler may disconnect the sender: QUIT,   *)
(* or a registration with the wrong password.  That ends the loop.         *)

handleNext ==
    /\ pc = "handle" /\ messages # <<>>
    /\ handled' = Append(handled, Head(messages))
    /\ connected' \in BOOLEAN
    /\ messages' = IF connected' THEN Tail(messages) ELSE <<>>
    /\ UNCHANGED <<arrived, buf, skipping, line, word, pc>>

(* At the end the sender's own send queue may have overflowed.             *)
EndOfInput ==
    /\ pc = "handle" /\ messages = <<>>
    /\ connected' \in {connected, FALSE}
    /\ pc' = "recv"
    /\ UNCHANGED <<arrived, buf, skipping, line, word, messages, handled>>

Server ==
    \/ SkipToLF \/ nextLine \/ ForceExtract \/ NoMoreLines
    \/ scan \/ endOfLine
    \/ handleNext \/ EndOfInput

Next == (\E data \in Chunk : recv(data)) \/ ConnectionClosed \/ Server

(* The loops of a handler run to their end; nothing is asked of the peer.  *)
Spec == Init /\ [][Next]_vars /\ WF_vars(Server)

-----------------------------------------------------------------------------
(* A message as handlers may rely on it: not empty, no longer than a line, *)
(* and free of the three octets that no parameter may hold.                *)
Text == Octet \ {CR, LF, NUL}
Clean(m) == m \in Seq(Text) /\ m # <<>> /\ Len(m) <= MaxLine

TypeOK ==
    /\ arrived \in Seq(Octet) /\ buf \in Seq(Octet) /\ skipping \in BOOLEAN
    /\ line \in Seq(Octet) /\ word \in Seq(Octet)
    /\ connected \in BOOLEAN
    /\ messages \in Seq(Seq(Octet)) /\ handled \in Seq(Seq(Octet))
    /\ pc \in {"recv", "extract", "scan", "handle"}

(* Nothing unclean is ever handled.                                        *)
HandledIsClean == \A i \in DOMAIN handled : Clean(handled[i])

(* The buffer never grows past a line and a read, and holds no complete    *)
(* line between two reads: none waits for input that need not come.        *)
BufferBounded ==
    /\ Len(buf) <= 2 * MaxLine
    /\ pc \in {"handle", "recv"} =>
            Len(buf) <= MaxLine /\ NoLF /\ (skipping => buf = <<>>)

(* The inductive invariant.  A word never outgrows what has been scanned.  *)
IInv ==
    /\ TypeOK
    /\ BufferBounded
    /\ HandledIsClean
    /\ \A i \in DOMAIN messages : Clean(messages[i])
    /\ word \in Seq(Text) /\ \A q \in DOMAIN line : line[q] # LF
    /\ Len(word) + Len(line) <= MaxLine
    /\ pc # "scan" => line = <<>> /\ word = <<>>
    /\ pc = "recv" => messages = <<>>
    /\ ~connected => messages = <<>> /\ pc \in {"recv", "handle"}

(* However the reads cut the stream, the messages handled are those of the *)
(* stream: each once, in order, none put together from two lines or from   *)
(* the rest of an overlong one, none after the one that ended the session, *)
(* and every complete one in the end.                                      *)
Stream == INSTANCE LineStream WITH arrived <- arrived, handled <- handled, over <- ~connected

AsOneStream == Stream!Spec

(* What wiki/RFC-CONFORMANCE.md says of a CR inside a line: it is stripped, *)
(* and what follows it is no message of its own.  splitOnCr makes it one,  *)
(* so a line can give several messages.                                    *)
OneMessagePerLine ==
    LET begun == {p \in DOMAIN arrived : p = 1 \/ arrived[p - 1] = LF}
    IN  Len(handled) <= Cardinality(begun)
================================================================================
