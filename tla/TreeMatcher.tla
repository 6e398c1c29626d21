----------------------------- MODULE TreeMatcher -----------------------------
(***************************************************************************)
(* The interpreted matcher, grammar/interpreted/TreeMatcher.cpp: a         *)
(* backtracking walk of the grammar in continuation-passing style, under a *)
(* budget of steps and of depth.                                           *)
(*                                                                         *)
(* A continuation is the sequence of its frames, innermost first.  A walk  *)
(* is a record: `ok' is what the C++ functions return; `caps' is the log   *)
(* of closed captures, from which the per-name lists and the sequence      *)
(* handed to MatchResult are both read.  The memo tables of isSingleOctet  *)
(* and octetBitmap only cache, and are left out.                           *)
(***************************************************************************)
EXTENDS Abnf

CONSTANTS MaxSteps, MaxDepth    \* kMaxSteps, kMaxDepth

Rest(ns) == [kind |-> "ContSequence", kids |-> ns]
Again(n, c, p) == [kind |-> "ContRepeat", node |-> n, count |-> c, start |-> p]
Close(r, p) == [kind |-> "ContCloseCapture", rule |-> r, start |-> p]

NewWalk == [ok |-> FALSE, steps |-> 0, depth |-> 0, exhausted |-> FALSE, caps |-> <<>>]
Refuse(w) == [w EXCEPT !.ok = FALSE]
(* The budget is spent: nothing matches any more.                          *)
Exhaust(w) == [w EXCEPT !.ok = FALSE, !.exhausted = TRUE]

RECURSIVE octetMatches(_, _, _)
octetMatches(g, n, c) ==
    CASE n.kind = "OctetRange" -> c \in n.lo .. n.hi
      [] n.kind = "Literal" -> Len(n.text) = 1 /\ fold(n.text[1]) = fold(c)
      [] n.kind = "Reference" -> g[n.rule] # NoRule /\ octetMatches(g, g[n.rule], c)
      [] n.kind = "Alternation" -> \E k \in DOMAIN n.kids : octetMatches(g, n.kids[k], c)
      [] OTHER -> FALSE

(* How many of the octets after `pos', at most `most', the node accepts.   *)
RunLength(m, n, pos, most) ==
    Max({t \in 0 .. most : /\ pos + t <= Len(m.line)
                           /\ \A k \in 1 .. t : octetMatches(m.g, n, m.line[pos + k])})

(* Does the literal stand at `pos', but for case?                          *)
Spells(m, text, pos) ==
    /\ pos + Len(text) <= Len(m.line)
    /\ \A k \in DOMAIN text : fold(m.line[pos + k]) = fold(text[k])

RECURSIVE matchNode(_, _, _, _, _), matchContinuation(_, _, _, _),
          matchSequence(_, _, _, _, _), matchAlternation(_, _, _, _, _),
          matchRepetition(_, _, _, _, _, _, _), giveBack(_, _, _, _, _, _)

(* m holds what a walk only reads: the grammar, the line, the step budget. *)
matchContinuation(m, k, pos, w) ==
    IF w.exhausted THEN Refuse(w)
    ELSE IF k = <<>> THEN [w EXCEPT !.ok = pos = Len(m.line)]
    ELSE LET f == Head(k) IN
         CASE f.kind = "ContSequence" -> matchSequence(m, f.kids, pos, Tail(k), w)
           [] f.kind = "ContRepeat" ->
                matchRepetition(m, f.node, f.count, f.start, pos, Tail(k), w)
           [] f.kind = "ContCloseCapture" ->
                LET taken == [rule |-> f.rule, text |-> SubSeq(m.line, f.start + 1, pos)]
                    r == matchContinuation(m, Tail(k), pos, [w EXCEPT !.caps = Append(@, taken)])
                IN  IF r.ok THEN r ELSE [r EXCEPT !.caps = w.caps]

matchSequence(m, ns, pos, k, w) ==
    IF ns = <<>> THEN matchContinuation(m, k, pos, w)
    ELSE matchNode(m, Head(ns), pos, <<Rest(Tail(ns))>> \o k, w)

matchAlternation(m, ns, pos, k, w) ==
    IF ns = <<>> THEN Refuse(w)
    ELSE LET r == matchNode(m, Head(ns), pos, k, w)
         IN  IF r.ok \/ r.exhausted THEN r ELSE matchAlternation(m, Tail(ns), pos, k, r)

(* The octets taken by a repetition of a single octet are given back one   *)
(* by one, down to the least it needs.                                     *)
giveBack(m, take, least, pos, k, w) ==
    IF take < least THEN Refuse(w)
    ELSE LET r == matchContinuation(m, k, pos + take, w)
         IN  IF r.ok \/ r.exhausted THEN r ELSE giveBack(m, take - 1, least, pos, k, r)

(* Faulty: a bounded repetition takes a copy too many; the guard against   *)
(* empty copies is dropped.                                                *)
CanRepeat_oneMore(n, count, iterStart, pos) ==
    /\ n.hi = Unbounded \/ count <= n.hi
    /\ ~(count > 0 /\ pos = iterStart)
CanRepeat_forever(n, count, iterStart, pos) == n.hi = Unbounded \/ count < n.hi

(* A repetition whose last copy was empty is not tried again.              *)
CanRepeat(n, count, iterStart, pos) ==
    /\ n.hi = Unbounded \/ count < n.hi
    /\ ~(count > 0 /\ pos = iterStart)

matchRepetition(m, n, count, iterStart, pos, k, w) ==
    IF w.exhausted THEN Refuse(w)
    ELSE IF count = 0 /\ isSingleOctet(m.g, n.kids[1])
    THEN LET most == IF n.hi = Unbounded THEN Len(m.line) ELSE n.hi
             taken == RunLength(m, n.kids[1], pos, most)
             v == [w EXCEPT !.steps = @ + taken]
         IN  IF v.steps > m.maxSteps THEN Exhaust(v)
             ELSE giveBack(m, taken, n.lo, pos, k, v)
    ELSE LET again == matchNode(m, n.kids[1], pos, <<Again(n, count + 1, pos)>> \o k, w)
             r == IF CanRepeat(n, count, iterStart, pos) THEN again ELSE Refuse(w)
         IN  IF r.ok \/ r.exhausted THEN r
             ELSE IF count >= n.lo THEN matchContinuation(m, k, pos, r) ELSE r

matchNode(m, n, pos, k, w) ==
    LET v == [w EXCEPT !.steps = @ + 1]
        u == [v EXCEPT !.depth = @ + 1]
        r == CASE n.kind = "Literal" ->
                    IF Spells(m, n.text, pos)
                    THEN matchContinuation(m, k, pos + Len(n.text), u) ELSE Refuse(u)
               [] n.kind = "OctetRange" ->
                    IF pos < Len(m.line) /\ m.line[pos + 1] \in n.lo .. n.hi
                    THEN matchContinuation(m, k, pos + 1, u) ELSE Refuse(u)
               [] n.kind = "Reference" ->
                    IF m.g[n.rule] = NoRule THEN Refuse(u)
                    ELSE matchNode(m, m.g[n.rule], pos,
                                   IF n.capture THEN <<Close(n.rule, pos)>> \o k ELSE k, u)
               [] n.kind = "Sequence" -> matchSequence(m, n.kids, pos, k, u)
               [] n.kind = "Alternation" -> matchAlternation(m, n.kids, pos, k, u)
               [] n.kind = "Repetition" -> matchRepetition(m, n, 0, pos, pos, k, u)
    IN  IF w.exhausted THEN Refuse(w)
        ELSE IF v.steps > m.maxSteps \/ v.depth >= MaxDepth THEN Exhaust(v)
        ELSE [r EXCEPT !.depth = w.depth]

(* TreeMatcher::match: MatchResult is filled only when the line matches.   *)
treeMatchWithin(maxSteps, g, rule, line) ==
    IF g[rule] = NoRule THEN NewWalk
    ELSE matchNode([g |-> g, line |-> line, maxSteps |-> maxSteps], g[rule], 0, <<>>, NewWalk)

treeMatch(g, rule, line) == treeMatchWithin(MaxSteps, g, rule, line)

(* MatchResult: the texts captured under a name, in order.                 *)
all(caps, rule) == LET mine == SelectSeq(caps, LAMBDA c : c.rule = rule)
                   IN  [k \in DOMAIN mine |-> mine[k].text]
=============================================================================
