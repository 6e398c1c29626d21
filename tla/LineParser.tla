----------------------------- MODULE LineParser -----------------------------
(***************************************************************************)
(* How the server takes a client line apart: the `message' production of   *)
(* grammar/EmbeddedGrammarSource.cpp, run by the compiled matcher, and     *)
(* Server::parseLine and fillParams, which read its captures.  What a      *)
(* parameter is, is nowhere coded as such: it follows from the order of    *)
(* two alternatives, greedy repetitions and backtracking.                  *)
(***************************************************************************)
EXTENDS Matchers

CONSTANTS Space, Colon, Digit,  \* the octets the production tells apart
          MaxParams             \* 14: parameters before the trailing one

(* The octets of `nospcrlfcl': letters and digits stand for all of them.   *)
letter == Alternation(<<OctetRange(1, Letters), OctetRange(1 + Shift, Letters + Shift)>>)
nospcrlfcl == Alternation(<<letter, OctetRange(Digit, Digit)>>)
colon == Literal(<<Colon>>)
SPACE == OctetRange(Space, Space)
Many(n) == Repetition(0, Unbounded, n)

ParamsProduction ==
    LET word == Sequence(<<Reference("sp"), Capture("param")>>)
    IN  Alternation(<<
            Sequence(<<Repetition(0, MaxParams, word),
                       Option(Sequence(<<Reference("sp"), colon, Capture("trail")>>))>>),
            Sequence(<<Repetition(MaxParams, MaxParams, word),
                       Option(Sequence(<<Reference("sp"), Option(colon), Capture("trail")>>))>>)>>)

MessageRule == {"message", "params", "param", "trail", "prefix", "command", "sp", "middle"}
MessageGrammar ==
    [r \in MessageRule |->
        CASE r = "middle" ->
                Sequence(<<nospcrlfcl, Many(Alternation(<<colon, nospcrlfcl>>))>>)
          [] r \in {"param", "prefix"} -> Reference("middle")
          [] r = "trail" -> Many(Alternation(<<colon, SPACE, nospcrlfcl>>))
          [] r = "command" ->
                Alternation(<<Repetition(1, Unbounded, letter),
                              Repetition(3, 3, OctetRange(Digit, Digit))>>)
          [] r = "sp" -> Repetition(1, Unbounded, SPACE)
          [] r = "params" -> ParamsProduction
          [] r = "message" ->
                Sequence(<<Many(SPACE),
                           Option(Sequence(<<colon, Capture("prefix"), Reference("sp")>>)),
                           Capture("command"), Option(Reference("params")), Many(SPACE)>>)]

(* Faulty: the captures of the prefix are not left out.                    *)
fillParams_prefix(cs) == SelectSeq(cs, LAMBDA c : c.rule # "command")

(* fillParams: every capture but the command and the prefix, in order.     *)
fillParams(cs) == SelectSeq(cs, LAMBDA c : c.rule \notin {"command", "prefix"})

(* The ASCII upper-casing in parseLine.                                    *)
Upper(w) == [k \in DOMAIN w |-> unfold(w[k])]

(* parseLine: the command, the parameters, and the index of the trailing   *)
(* one, 0 when there is none.                                              *)
parseLine(cs) ==
    [command |-> Upper(all(cs, "command")[1]),
     params |-> LET p == fillParams(cs) IN [k \in DOMAIN p |-> p[k].text],
     trailingIndex |-> IF all(cs, "trail") # <<>> THEN Len(fillParams(cs)) ELSE 0]

-----------------------------------------------------------------------------
(* The same thing as a client author would write it: split at runs of      *)
(* spaces; a colon at the start of a word, or the word after the last      *)
(* parameter, takes the rest of the line as it is.                         *)

Unblanked(l) ==
    LET n == Cardinality({j \in 1 .. Len(l) : \A i \in 1 .. j : l[i] = Space})
    IN  SubSeq(l, n + 1, Len(l))
WordLength(l) == Cardinality({j \in 1 .. Len(l) : \A i \in 1 .. j : l[i] # Space})
FirstWord(l) == SubSeq(l, 1, WordLength(l))
AfterWord(l) == SubSeq(l, WordLength(l) + 1, Len(l))

RECURSIVE SplitParams(_, _)
SplitParams(l, n) ==
    LET r == Unblanked(l)
    IN  CASE r = <<>> -> [params |-> <<>>, trailing |-> FALSE]
          [] r # <<>> /\ r[1] = Colon -> [params |-> <<Tail(r)>>, trailing |-> TRUE]
          [] r # <<>> /\ r[1] # Colon /\ n = MaxParams -> [params |-> <<r>>, trailing |-> TRUE]
          [] OTHER -> LET rest == SplitParams(AfterWord(r), n + 1)
                      IN  [rest EXCEPT !.params = <<FirstWord(r)>> \o rest.params]

IsCommand(w) ==
    \/ w # <<>> /\ \A k \in DOMAIN w : w[k] \notin {Space, Colon, Digit}
    \/ w = <<Digit, Digit, Digit>>
HasPrefix(r) == r # <<>> /\ r[1] = Colon
PrefixOk(r) == HasPrefix(r) => WordLength(r) > 1 /\ r[2] # Colon

(* The line from its command on.                                           *)
Body(l) == LET r == Unblanked(l) IN IF HasPrefix(r) THEN Unblanked(AfterWord(r)) ELSE r
Parses(l) == PrefixOk(Unblanked(l)) /\ IsCommand(FirstWord(Body(l)))
SplitLine(l) ==
    LET split == SplitParams(AfterWord(Body(l)), 0)
    IN  [command |-> Upper(FirstWord(Body(l))), params |-> split.params,
         trailingIndex |-> IF split.trailing THEN Len(split.params) ELSE 0]

(* A line parses exactly when, after an optional prefix, it begins with a  *)
(* command, and then its parameters are the ones splitting gives: none is  *)
(* lost, doubled, cut at a colon or given to the wrong side of the limit.  *)
ParamsAsSplit ==
    Decided /\ grammar = MessageGrammar =>
        /\ (verdict = "yes") = Parses(line)
        /\ Parses(line) => parseLine(caps) = SplitLine(line)

(* The words of a line up to the one that begins with a colon.             *)
RECURSIVE Middles(_)
Middles(l) ==
    LET r == Unblanked(l)
    IN  IF r = <<>> \/ r[1] = Colon THEN <<>> ELSE <<FirstWord(r)>> \o Middles(AfterWord(r))

(* What wiki/RFC-CONFORMANCE.md says of a line with more parameters than   *)
(* the RFC allows: "every middle kept", there "has no counter".  Not so:   *)
(* the production counts to MaxParams, and the words behind that are one   *)
(* parameter, spaces and all.                                              *)
EveryMiddleIsKept ==
    Decided /\ grammar = MessageGrammar /\ Parses(line) =>
        IsPrefix(Middles(AfterWord(Body(line))), parseLine(caps).params)
=============================================================================
