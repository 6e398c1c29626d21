--------------------------- MODULE MCGrammarEngine ---------------------------
(***************************************************************************)
(* The grammars of MCLineParser, taken as built, and files of two rules,   *)
(* `message' and `param', in its octets.  The bodies include nesting       *)
(* through a rule itself, references behind an element that can be empty,  *)
(* and empty copies.  A file has two or three rules in one of several      *)
(* layouts; some of its texts are malformed.                               *)
(***************************************************************************)
EXTENDS MCLineParser, GrammarEngine

MCFileRule == {"message", "param"}
Letter == Literal(<<x>>)
FileBodies == {
    Letter,
    Option(b),
    Reference("param"),
    Repetition(0, Unbounded, Reference("param")),
    Sequence(<<Option(Letter), Reference("message")>>),
    Sequence(<<Reference("param"), Reference("message")>>),
    Sequence(<<Letter, Option(Reference("message")), b>>),
    Alternation(<<Sequence(<<Letter, Letter>>), Capture("param"), b>>),
    Repetition(2, 2, Alternation(<<Letter, Reference("param")>>)),
    Repetition(1, Unbounded, Option(Literal(<<x, y>>)))}

Rules(R, ops) == {[rule |-> r, op |-> o, body |-> n, text |-> TextOf(n)] :
                    r \in R, o \in ops, n \in FileBodies}

(* Texts that are no rule's: brackets and quotes that do not pair, bars    *)
(* with nothing beside them, bounds the wrong way round, a stray operator. *)
Junk ==
    LET v == Quoted(<<x>>)
        BadTexts == {<<>>, <<Token("("), v>>, <<v, Token("]")>>, <<Token("["), v, Token(")")>>,
                     <<Unclosed>>, <<v, Token("/")>>, <<Token("/"), v>>, <<Times(2, 1), v>>,
                     <<Times(2, 2)>>, <<Times(1, 1), Times(1, 1), v>>, <<Token("$"), v>>,
                     <<Numeric(<<<<y, X>>>>)>>, <<v, Token("="), v>>, <<Token("("), Token(")")>>}
    IN  {[rule |-> "message", op |-> "=", body |-> NoRule, text |-> t] : t \in BadTexts}

(* A value with several pieces is a sequence of ranges.                    *)
Dotted == [rule |-> "param", op |-> "=", body |-> Sequence(<<OctetRange(X, y), b>>),
           text |-> <<Numeric(<<<<X, y>>, <<y, y>>>>)>>]

Written ==
    LET any == Rules(MCFileRule, {"=", "=/"})
        p == Rules({"message"}, {"="})
        q == Rules({"param"}, {"="})
    IN  {<<d, e>> : d, e \in any}
        \cup {<<d, e, f>> : d \in p, e \in q, f \in Rules(MCFileRule, {"=/"})}
        \cup {<<d, Dotted>> : d \in Junk \cup p} \cup {<<Dotted, d>> : d \in Junk}

-----------------------------------------------------------------------------
Flat(ts) == [indented |-> FALSE, text |-> ts]
Indented(ts) == [indented |-> TRUE, text |-> ts]
Whole(d) == <<Name(d.rule), Token(d.op)>> \o d.text

(* One line; its tokens one to a line, with comments, after the operator;  *)
(* without its name where the rule above is the same.                      *)
OneLine(d) == <<Flat(Whole(d) \o <<Comment, Name("param"), Token("=")>>)>>
Spread(d) ==
    <<Flat(SubSeq(Whole(d), 1, 2)), Flat(<<Comment, Unclosed>>)>>
        \o [k \in DOMAIN d.text |-> Indented(<<d.text[k], Comment>>)] \o <<Indented(<<>>)>>
Nameless(d) == <<Indented(Tail(Whole(d)))>>

Layout(style, rules) ==
    FlattenSeq([k \in DOMAIN rules |->
        CASE style = "short" /\ k > 1 /\ ~FirstOf(rules, k) /\ rules[k].rule = rules[k - 1].rule ->
                Nameless(rules[k])
          [] style = "long" -> Spread(rules[k])
          [] OTHER -> OneLine(rules[k])])

(* Files whose layout makes them say something else: a rule indented below *)
(* another, a name on a line of its own, a first line without a name.      *)
Misread(d, e) ==
    {<<Flat(Whole(d)), Indented(Whole(e))>>,
     <<Flat(<<Name(d.rule)>>), Indented(Tail(Whole(d)))>>,
     <<Flat(Tail(Whole(d))), Flat(Whole(d))>>}

MCFiles ==
    {[rules |-> rs, lines |-> Layout(style, rs)] : style \in {"short", "long"}, rs \in Written}
        \cup {[rules |-> <<d>>, lines |-> <<Indented(Whole(d))>>] : d \in Rules({"message"}, {"="})}
        \cup {[rules |-> <<[d EXCEPT !.body = NoRule]>>, lines |-> ls] :
                 d \in {Dotted}, ls \in Misread(Dotted, [Dotted EXCEPT !.rule = "message"])}

MCSamples == Words({x, y}, 3) \cup {<<x, x, y, y>>, <<x, y, X, y>>}

(* What a server may be serving: besides the grammars given, those of the  *)
(* files.                                                                  *)
Defined(g) == {r \in MessageRule : g[r] # NoRule}
FileGrammars ==
    {g \in {AsWritten(f.rules) : f \in {h \in MCFiles : WellWritten(h.rules)}} :
        "message" \in Defined(g) /\ checkNoLeftRecursion(g, Defined(g)) /\ compileAll(g)}

EngineGrammars == MCGrammars \cup FileGrammars
EngineLines(g) == IF g \in MCGrammars THEN MCLines(g) ELSE Words({x, y}, 2)
=============================================================================
