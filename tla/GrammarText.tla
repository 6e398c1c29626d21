------------------------------ MODULE GrammarText ------------------------------
(***************************************************************************)
(* How the text of a rule becomes nodes: the recursive descent of          *)
(* grammar/GrammarBuilder.cpp, over tokens instead of characters.  A token *)
(* is what the code scans without letting a blank in between: a quoted     *)
(* string, a %x value, a rule name, a repeat count, an operator.  Blanks   *)
(* between tokens are skipped everywhere, and are left out.                *)
(***************************************************************************)
EXTENDS Abnf

Token(s) == [is |-> s]
Quoted(t) == [is |-> "string", text |-> t]
Numeric(ps) == [is |-> "numeric", pieces |-> ps]    \* %xlo-hi.lo-hi...
Name(r) == [is |-> "name", rule |-> r]
Times(l, h) == [is |-> "times", lo |-> l, hi |-> h]
Unclosed == Token("unclosed")                       \* a quote that is not closed
Comment == Token(";")

(* What is left to read: is the next token one of these?                   *)
Sees(ts, S) == ts # <<>> /\ ts[1].is \in S

(* The outcome of a parse function: `out', and the text behind it.         *)
Got(n, rest) == [ok |-> TRUE, out |-> n, rest |-> rest]
Failed == [ok |-> FALSE, out |-> NoRule, rest |-> <<>>]

(* One node needs no node above it.                                        *)
One(ns, many) == IF Len(ns) = 1 THEN ns[1] ELSE many

parseNumericValue(ps, rest) ==
    LET ranges == [k \in DOMAIN ps |-> OctetRange(ps[k][1], ps[k][2])]
    IN  IF \E k \in DOMAIN ps : ps[k][2] < ps[k][1] THEN Failed
        ELSE Got(One(ranges, Sequence(ranges)), rest)

RECURSIVE parseElement(_), parseRepetition(_), parseConcatenation(_, _), parseAlternation(_, _)

parseElement(ts) ==
    LET inner == parseAlternation(Tail(ts), <<>>)
    IN  CASE Sees(ts, {"("}) ->
                IF inner.ok /\ Sees(inner.rest, {")"})
                THEN Got(inner.out, Tail(inner.rest)) ELSE Failed
          [] Sees(ts, {"["}) ->
                IF inner.ok /\ Sees(inner.rest, {"]"})
                THEN Got(Option(inner.out), Tail(inner.rest)) ELSE Failed
          [] Sees(ts, {"string"}) -> Got(Literal(ts[1].text), Tail(ts))
          [] Sees(ts, {"numeric"}) -> parseNumericValue(ts[1].pieces, Tail(ts))
          [] Sees(ts, {"$"}) ->
                IF Sees(Tail(ts), {"name"})
                THEN Got(Capture(ts[2].rule), Tail(Tail(ts))) ELSE Failed
          [] Sees(ts, {"name"}) -> Got(Reference(ts[1].rule), Tail(ts))
          [] OTHER -> Failed

parseRepetition(ts) ==
    IF ~Sees(ts, {"times"}) THEN parseElement(ts)
    ELSE LET child == parseElement(Tail(ts))
             lo == ts[1].lo
             hi == ts[1].hi
         IN  IF child.ok /\ (hi = Unbounded \/ lo <= hi)
             THEN [child EXCEPT !.out = Repetition(lo, hi, @)] ELSE Failed

parseConcatenation(ts, parts) ==
    IF ts = <<>> \/ Sees(ts, {"/", ")", "]"})
    THEN IF parts = <<>> THEN Failed ELSE Got(One(parts, Sequence(parts)), ts)
    ELSE LET part == parseRepetition(ts)
         IN  IF part.ok THEN parseConcatenation(part.rest, Append(parts, part.out)) ELSE Failed

parseAlternation(ts, branches) ==
    LET branch == parseConcatenation(ts, <<>>)
        all_ == Append(branches, branch.out)
    IN  CASE ~branch.ok -> Failed
          [] branch.ok /\ Sees(branch.rest, {"/"}) -> parseAlternation(Tail(branch.rest), all_)
          [] OTHER -> Got(One(all_, Alternation(all_)), branch.rest)

(* The part of parseRule before it touches the grammar: a name, = or =/,   *)
(* and a body with nothing behind it.                                      *)
RuleOf(ts) ==
    LET body == parseAlternation(Tail(Tail(ts)), <<>>)
        good == Sees(ts, {"name"}) /\ Sees(Tail(ts), {"=", "=/"}) /\ body.ok /\ body.rest = <<>>
    IN  IF good THEN [ok |-> TRUE, rule |-> ts[1].rule, op |-> ts[2].is, body |-> body.out]
        ELSE [ok |-> FALSE]

-----------------------------------------------------------------------------
(* The other way round: a text for a node, with brackets where the         *)
(* notation needs them.                                                    *)

RECURSIVE TextOf(_), Inside(_, _)
Inside(n, kinds) ==
    IF n.kind \in kinds THEN <<Token("(")>> \o TextOf(n) \o <<Token(")")>> ELSE TextOf(n)

TextOf(n) ==
    CASE n.kind = "Literal" -> <<Quoted(n.text)>>
      [] n.kind = "OctetRange" -> <<Numeric(<<<<n.lo, n.hi>>>>)>>
      [] n.kind = "Reference" -> (IF n.capture THEN <<Token("$")>> ELSE <<>>) \o <<Name(n.rule)>>
      [] n.kind = "Sequence" ->
            FlattenSeq([k \in DOMAIN n.kids |-> Inside(n.kids[k], {"Sequence", "Alternation"})])
      [] n.kind = "Alternation" ->
            Tail(FlattenSeq([k \in DOMAIN n.kids |->
                <<Token("/")>> \o Inside(n.kids[k], {"Alternation"})]))
      [] n.kind = "Repetition" /\ n = Option(n.kids[1]) ->
            <<Token("[")>> \o TextOf(n.kids[1]) \o <<Token("]")>>
      [] n.kind = "Repetition" /\ n # Option(n.kids[1]) ->
            <<Times(n.lo, n.hi)>> \o Inside(n.kids[1], {"Sequence", "Alternation", "Repetition"})
================================================================================
