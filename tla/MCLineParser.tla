----------------------------- MODULE MCLineParser -----------------------------
(***************************************************************************)
(* The matchers on small grammars and on the message production, and the   *)
(* command productions.  Octets 1 to 19 are upper case letters, 22 to 40   *)
(* lower case; 20, 21 and 41 have no case: colon, space and digit.  The    *)
(* first 18 letters spell the commands, the last is in no command.         *)
(*                                                                         *)
(* The small grammars borrow three rule names: `message' is matched;       *)
(* `param' is captured, and nullable in one of its two forms; `trail'      *)
(* captures `param' inside a capture of its own; the others are not used.  *)
(***************************************************************************)
EXTENDS Commands

x == 40
X == 19
y == 20

a == Literal(<<x>>)
b == OctetRange(y, y)
Atoms == {a, Literal(<<x, y>>), OctetRange(X, y), Reference("param"), Capture("param"), Capture("trail")}

Bounds == {<<0, 1>>, <<0, 2>>, <<2, 2>>, <<0, Unbounded>>, <<1, Unbounded>>, <<2, Unbounded>>}
Repeat(S) == {Repetition(h[1], h[2], n) : h \in Bounds, n \in S}

Pairs == {Sequence(<<m, n>>) : m, n \in Atoms} \cup {Alternation(<<m, n>>) : m, n \in Atoms}
Bodies == Repeat(Atoms \cup Pairs)
       \cup {Sequence(<<m, n>>) : m \in Repeat(Atoms), n \in Atoms}
       \cup {Alternation(<<m, n>>) : m \in Repeat({a, Capture("param")}), n \in Atoms}

SmallGrammar(body, param) ==
    [r \in MessageRule |-> CASE r = "message" -> body
                             [] r = "param" -> param
                             [] r = "trail" -> Sequence(<<Capture("param"), Option(b)>>)
                             [] OTHER -> a]
SmallGrammars == {SmallGrammar(n, p) : n \in Bodies, p \in {a, Many(a)}}

(* Loops that can be empty: several lines in a row through one matcher.    *)
ReuseGrammars == {SmallGrammar(n, Many(a)) :
                    n \in {Sequence(<<Reference("param"), b>>), Repetition(1, Unbounded, Reference("param")),
                           Alternation(<<Capture("param"), Literal(<<y, x>>)>>)}}

MCGrammars == {g \in SmallGrammars \cup ReuseGrammars \cup {MessageGrammar} : Startable(g)}

MessageOnly == {MessageGrammar}

Words(S, n) == UNION {[1 .. k -> S] : k \in 0 .. n}

(* Every line of up to six octets over colon, letter and space, lines of   *)
(* several parameters, and a few with digits and in upper case.            *)
Parts == {<<Space, x>>, <<Space, Digit>>, <<Space, Colon, x>>, <<Space, x, Colon>>, <<Space>>}
Joined(S, n) == {FlattenSeq(ps) : ps \in [1 .. n -> S]}
MessageLines ==
    Words({Colon, Space, x}, 6)
        \cup {<<x>> \o p : p \in UNION {Joined(Parts, n) : n \in 0 .. 4}}
        \cup {<<Colon, X, Space, x>> \o p : p \in Joined({<<Space, x>>, <<Space, Colon, X>>}, 6)}
        \cup {<<Digit, Digit, Digit, Space, X>>, <<Digit, Digit>>, <<Digit, Digit, Digit, Digit>>}

MCLines(g) ==
    CASE g \in ReuseGrammars -> Words({x, y}, 2)
      [] g = MessageGrammar -> MessageLines
      [] OTHER -> Words({x, y}, 3) \cup {<<X>>, <<X, y>>, <<x, X, y>>}

(* One line each, but MaxReuse lines for the grammars that are for that.   *)
MaxReuse == 4
MCReuse(g) == IF g \in ReuseGrammars THEN MaxReuse ELSE 1
===============================================================================
