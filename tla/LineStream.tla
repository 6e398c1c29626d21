------------------------------ MODULE LineStream ------------------------------
(***************************************************************************)
(* What the server promises about a client's input, however the network    *)
(* cuts it: the octets that have arrived determine the messages, and each  *)
(* message is handled once, in order, until the session is over.           *)
(*                                                                         *)
(* The messages are read off the octets in one pass without a buffer.  A   *)
(* line ends at LF, or where it grows longer than MaxLine; what follows up *)
(* to the LF is lost.  CR separates messages inside a line, NUL is nothing *)
(* and an empty message is none.                                           *)
(***************************************************************************)
EXTENDS Naturals, Sequences

CONSTANTS CR, LF, NUL, MaxLine

VARIABLES arrived,   \* the octets read from the socket so far
          handled,   \* the messages handled so far
          over       \* the client has been disconnected

streamVars == <<arrived, handled, over>>

(* word and cut: the last message of the unfinished line and those before  *)
(* it; len: its octets, MaxLine + 1 when it is lost from here on.          *)
Flushed(ms, word) == IF word = <<>> THEN ms ELSE Append(ms, word)
Pieces(st) == st.msgs \o Flushed(st.cut, st.word)
EmptyLine(ms, n) == [len |-> n, word |-> <<>>, cut |-> <<>>, msgs |-> ms]

Take(st, c) ==
    CASE c = LF -> EmptyLine(Pieces(st), 0)
      [] c # LF /\ st.len >= MaxLine -> EmptyLine(Pieces(st), MaxLine + 1)
      [] c = CR /\ st.len < MaxLine ->
            [st EXCEPT !.len = @ + 1, !.word = <<>>, !.cut = Flushed(@, st.word)]
      [] c = NUL /\ st.len < MaxLine -> [st EXCEPT !.len = @ + 1]
      [] OTHER -> [st EXCEPT !.len = @ + 1, !.word = Append(@, c)]

Framed(s) ==
    LET After[n \in 0..Len(s)] ==
            IF n = 0 THEN EmptyLine(<<>>, 0) ELSE Take(After[n - 1], s[n])
    IN  After[Len(s)]

(* A line of exactly MaxLine octets without its LF may be taken already.   *)
Complete(s) == Framed(s).msgs
Due(s) == {Complete(s)} \cup (IF Framed(s).len = MaxLine THEN {Pieces(Framed(s))} ELSE {})

Init == arrived = <<>> /\ handled = <<>> /\ over = FALSE

(* More input is taken only when all that is complete has been handled.    *)
Arrive ==
    /\ Len(arrived) < Len(arrived')
    /\ arrived = SubSeq(arrived', 1, Len(arrived))
    /\ ~over
    /\ handled \in Due(arrived)
    /\ UNCHANGED <<handled, over>>

(* A message may be the last one, as QUIT is.                              *)
Handle(ms) ==
    /\ ~over
    /\ Len(handled) < Len(ms)
    /\ handled' = SubSeq(ms, 1, Len(handled) + 1)
    /\ over' \in BOOLEAN
    /\ UNCHANGED arrived

(* The server gives the client up only between two reads.                  *)
End ==
    /\ ~over /\ over'
    /\ handled \in Due(arrived)
    /\ UNCHANGED <<arrived, handled>>

Next == Arrive \/ End \/ (handled' # handled /\ \E ms \in Due(arrived) : Handle(ms))

(* No complete message waits for ever, least of all for more input.        *)
CaughtUp == over \/ Len(handled) >= Len(Complete(arrived))

SafeSpec == Init /\ [][Next]_streamVars
Spec == SafeSpec /\ []<>CaughtUp
===============================================================================
