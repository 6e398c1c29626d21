-------------------------------- MODULE Abnf --------------------------------
(***************************************************************************)
(* The grammar the server parses client lines with: the node arena of      *)
(* grammar/Grammar.cpp, the checks of grammar/GrammarValidator.cpp, and    *)
(* the octet predicates both matchers share.  An arena index is modelled   *)
(* by the node it stands for, a capture index by the name of the rule      *)
(* captured, a grammar by the function from rule names to their bodies.    *)
(*                                                                         *)
(* Octets are small naturals: 1..Letters are the upper case letters and    *)
(* Shift is the distance to the lower case ones ('a' - 'A').               *)
(***************************************************************************)
EXTENDS Integers, Sequences, FiniteSets, SequencesExt

CONSTANTS Rule, Letters, Shift

(* GrammarNode: one constructor per kind of node the builder adds.         *)
Unbounded == -1
NoRule == [kind |-> "NoRule"]
Literal(t) == [kind |-> "Literal", text |-> t]
OctetRange(l, h) == [kind |-> "OctetRange", lo |-> l, hi |-> h]
Reference(r) == [kind |-> "Reference", rule |-> r, capture |-> FALSE]
Capture(r) == [kind |-> "Reference", rule |-> r, capture |-> TRUE]
Sequence(ns) == [kind |-> "Sequence", kids |-> ns]
Alternation(ns) == [kind |-> "Alternation", kids |-> ns]
Repetition(l, h, n) == [kind |-> "Repetition", lo |-> l, hi |-> h, kids |-> <<n>>]
Option(n) == Repetition(0, 1, n)

(* GrammarNode::count children; the leaves have none.                      *)
Kids(n) == IF n.kind \in {"Sequence", "Alternation", "Repetition"} THEN n.kids ELSE <<>>

(* fold(): ASCII lower case.                                               *)
fold(c) == IF c \in 1..Letters THEN c + Shift ELSE c
unfold(c) == IF c - Shift \in 1..Letters THEN c - Shift ELSE c

-----------------------------------------------------------------------------
(* GrammarValidator                                                        *)

RECURSIVE isNullable(_, _, _)
isNullable(g, n, busy) ==
    CASE n.kind = "Literal" -> n.text = <<>>
      [] n.kind = "OctetRange" -> FALSE
      [] n.kind = "Reference" ->
            /\ n.rule \notin busy
            /\ g[n.rule] = NoRule \/ isNullable(g, g[n.rule], busy \cup {n.rule})
      [] n.kind = "Sequence" -> \A k \in DOMAIN n.kids : isNullable(g, n.kids[k], busy)
      [] n.kind = "Alternation" -> \E k \in DOMAIN n.kids : isNullable(g, n.kids[k], busy)
      [] n.kind = "Repetition" -> n.lo = 0 \/ isNullable(g, n.kids[1], busy)

(* Faulty: an optional first element is taken to hide what follows it.     *)
LeftEdge_first(g, ns) == {ns[1]}

(* The children of a sequence that may stand at its left edge: up to and   *)
(* including the first one that cannot be empty.                           *)
LeftEdge(g, ns) ==
    LET solid == {k \in DOMAIN ns : ~isNullable(g, ns[k], {})}
    IN  {ns[k] : k \in {i \in DOMAIN ns : \A j \in solid : i <= j}}

(* The rules among `seen', and those a match of n can enter before it has  *)
(* consumed an octet.                                                      *)
RECURSIVE collectLeftReachable(_, _, _)
collectLeftReachable(g, n, seen) ==
    LET Through(ns) == FoldSet(LAMBDA k, s : collectLeftReachable(g, k, s), seen, ns)
    IN  CASE n.kind \in {"Literal", "OctetRange", "NoRule"} -> seen
          [] n.kind = "Reference" ->
                IF n.rule \in seen THEN seen
                ELSE collectLeftReachable(g, g[n.rule], seen \cup {n.rule})
          [] n.kind = "Sequence" -> Through(LeftEdge(g, n.kids))
          [] n.kind \in {"Alternation", "Repetition"} -> Through(ToSet(n.kids))

checkAllRulesDefined(g, known) == \A r \in known : g[r] # NoRule
checkNoLeftRecursion(g, known) ==
    \A r \in known : r \notin collectLeftReachable(g, g[r], {})

validate(g, known) == checkAllRulesDefined(g, known) /\ checkNoLeftRecursion(g, known)

-----------------------------------------------------------------------------
(* The predicates for a node that always consumes exactly one octet, which *)
(* TreeMatcher and ProgramCompiler each define in the same way.            *)

RECURSIVE isSingleOctet(_, _)
isSingleOctet(g, n) ==
    CASE n.kind = "OctetRange" -> TRUE
      [] n.kind = "Literal" -> Len(n.text) = 1
      [] n.kind = "Reference" -> ~n.capture /\ g[n.rule] # NoRule /\ isSingleOctet(g, g[n.rule])
      [] n.kind = "Alternation" -> \A k \in DOMAIN n.kids : isSingleOctet(g, n.kids[k])
      [] OTHER -> FALSE

-----------------------------------------------------------------------------
(* What the notation means, independently of any matcher: the positions a  *)
(* match of n can end at when it starts after `i' octets of the line.      *)
(* Defined for grammars without left recursion.                            *)

RECURSIVE Ends(_, _, _, _)
Ends(g, line, n, i) ==
    LET From(k, S) == UNION {Ends(g, line, k, j) : j \in S}
        Copies[c \in Nat] == IF c = 0 THEN {i} ELSE From(n.kids[1], Copies[c - 1])
        most == IF n.hi = Unbounded THEN n.lo + Len(line) ELSE n.hi
    IN  CASE n.kind = "NoRule" -> {}
          [] n.kind = "Literal" ->
                IF /\ i + Len(n.text) <= Len(line)
                   /\ \A k \in DOMAIN n.text : fold(line[i + k]) = fold(n.text[k])
                THEN {i + Len(n.text)} ELSE {}
          [] n.kind = "OctetRange" ->
                IF i < Len(line) /\ line[i + 1] \in n.lo .. n.hi THEN {i + 1} ELSE {}
          [] n.kind = "Reference" -> Ends(g, line, g[n.rule], i)
          [] n.kind = "Sequence" -> FoldLeft(LAMBDA S, k : From(k, S), {i}, n.kids)
          [] n.kind = "Alternation" -> UNION {Ends(g, line, n.kids[k], i) : k \in DOMAIN n.kids}
          [] n.kind = "Repetition" -> UNION {Copies[c] : c \in n.lo .. most}

InLanguage(g, n, line) == Len(line) \in Ends(g, line, n, 0)

(* The nodes that derive the empty line when the rules in S do, and the    *)
(* rules that do so: the least fixed point, reached in a round per rule.   *)
RECURSIVE DerivesEmpty(_, _)
DerivesEmpty(n, S) ==
    CASE n.kind = "Literal" -> n.text = <<>>
      [] n.kind = "Reference" -> n.rule \in S
      [] n.kind = "Sequence" -> \A k \in DOMAIN n.kids : DerivesEmpty(n.kids[k], S)
      [] n.kind = "Alternation" -> \E k \in DOMAIN n.kids : DerivesEmpty(n.kids[k], S)
      [] n.kind = "Repetition" -> n.lo = 0 \/ DerivesEmpty(n.kids[1], S)
      [] OTHER -> FALSE

EmptyRules(g) ==
    LET Grow(S) == {r \in Rule : DerivesEmpty(g[r], S)}
    IN  FoldSet(LAMBDA r, S : Grow(S), {}, Rule)

(* The rules n can begin with, and left recursion: a rule that begins with *)
(* itself in one or more steps.                                            *)
RECURSIVE BeginsWith(_, _)
BeginsWith(n, E) ==
    CASE n.kind = "Reference" -> {n.rule}
      [] n.kind = "Sequence" ->
            UNION {BeginsWith(n.kids[k], E) : k \in {i \in DOMAIN n.kids :
                        \A j \in 1 .. i - 1 : DerivesEmpty(n.kids[j], E)}}
      [] n.kind \in {"Alternation", "Repetition"} ->
            UNION {BeginsWith(n.kids[k], E) : k \in DOMAIN n.kids}
      [] OTHER -> {}

LeftRecursive(g, r) ==
    LET E == EmptyRules(g)
        Grow(S) == S \cup UNION {BeginsWith(g[q], E) : q \in S}
    IN  r \in FoldSet(LAMBDA q, S : Grow(S), BeginsWith(g[r], E), Rule)

RECURSIVE Nodes(_)
Nodes(n) == {n} \cup UNION {Nodes(Kids(n)[k]) : k \in DOMAIN Kids(n)}

(* A repetition that asks for several copies, or offers a bounded number   *)
(* of them, of something that can be empty.                                *)
EmptyCopies(g) ==
    \E r \in Rule : \E n \in Nodes(g[r]) :
        /\ n.kind = "Repetition"
        /\ n.lo > 1 \/ n.hi > 1
        /\ DerivesEmpty(n.kids[1], EmptyRules(g))
=============================================================================
