--------------------------- MODULE ProgramCompiler ---------------------------
(***************************************************************************)
(* grammar/compiled/ProgramCompiler.cpp: a rule becomes a program of       *)
(* Class, Split, Jump, Save and Match instructions, which ProgramMatcher   *)
(* runs.  Addresses count from 1; a class is the set of octets of its      *)
(* bitmap.  A program under construction has its code, the capture of each *)
(* slot pair, and whether the compilation has failed.                      *)
(***************************************************************************)
EXTENDS TreeMatcher

CONSTANT UnrollLimit        \* kUnrollLimit

Class(S) == [op |-> "Class", set |-> S]
Split(x) == [op |-> "Split", x |-> x, y |-> 0]
Jump(x) == [op |-> "Jump", x |-> x]
Save(x) == [op |-> "Save", x |-> x]
Match == [op |-> "Match"]

EmptyProgram == [code |-> <<>>, slotCapture |-> <<>>, ok |-> TRUE]
emit(p, ins) == [p EXCEPT !.code = Append(@, ins)]
fail(p) == [p EXCEPT !.ok = FALSE]
Here(p) == Len(p.code) + 1
PatchSplits(p, at) ==
    [p EXCEPT !.code = [a \in DOMAIN @ |-> IF a \in at THEN [@[a] EXCEPT !.y = Here(p)] ELSE @[a]]]
PatchJumps(p, at) ==
    [p EXCEPT !.code = [a \in DOMAIN @ |-> IF a \in at THEN [@[a] EXCEPT !.x = Here(p)] ELSE @[a]]]

BothCases(c) == {c, fold(c), unfold(fold(c))}

RECURSIVE buildClass(_, _)
buildClass(g, n) ==
    CASE n.kind = "OctetRange" -> n.lo .. n.hi
      [] n.kind = "Literal" -> BothCases(n.text[1])
      [] n.kind = "Reference" -> buildClass(g, g[n.rule])
      [] n.kind = "Alternation" -> UNION {buildClass(g, n.kids[k]) : k \in DOMAIN n.kids}

(* Depth first, up to the first capture.  Nothing guards the search against*)
(* rules that nest through themselves: when it comes back to one that is   *)
(* `open' it goes on until the stack is used up, and the server with it.   *)
RECURSIVE hasCapture(_, _, _)
hasCapture(g, n, open) ==
    LET found == [k \in DOMAIN Kids(n) |-> hasCapture(g, Kids(n)[k], open)]
        decisive == {k \in DOMAIN found : found[k] # "no"}
    IN  CASE n.kind = "Reference" /\ n.capture -> "yes"
          [] n.kind = "Reference" /\ ~n.capture ->
                CASE n.rule \in open -> "overrun"
                  [] n.rule \notin open /\ g[n.rule] = NoRule -> "no"
                  [] OTHER -> hasCapture(g, g[n.rule], open \cup {n.rule})
          [] OTHER -> IF decisive = {} THEN "no" ELSE found[Min(decisive)]

RECURSIVE emitNode(_, _, _, _), emitBody(_, _, _, _, _), emitOptional(_, _, _, _, _, _),
          emitAlternation(_, _, _, _, _), emitRepetition(_, _, _, _)

(* `busy' is the set of rules being inlined (_compiling).                  *)
emitBody(g, n, times, p, busy) ==
    IF times = 0 THEN p ELSE emitBody(g, n, times - 1, emitNode(g, n, p, busy), busy)

(* Up to `times' more copies, each behind a Split that leaves the chain.   *)
emitOptional(g, n, times, p, busy, exits) ==
    IF times = 0 THEN PatchSplits(p, exits)
    ELSE emitOptional(g, n, times - 1, emitNode(g, n, emit(p, Split(Here(p) + 1)), busy), busy,
                      exits \cup {Here(p)})

emitRepetition(g, n, p, busy) ==
    LET child == n.kids[1]
        q == emitBody(g, child, n.lo, p, busy)
        loop == emitNode(g, child, emit(q, Split(Here(q) + 1)), busy)
    IN  CASE n.hi = Unbounded /\ hasCapture(g, child, {}) # "no" -> fail(q)
          [] n.hi = Unbounded /\ hasCapture(g, child, {}) = "no" ->
                PatchSplits(emit(loop, Jump(Here(q))), {Here(q)})
          [] n.hi # Unbounded /\ n.hi - n.lo \notin 0 .. UnrollLimit -> fail(q)
          [] OTHER -> emitOptional(g, child, n.hi - n.lo, q, busy, {})

(* Every branch but the last is entered through a Split and left by a Jump *)
(* to the end.                                                             *)
emitAlternation(g, ns, p, busy, jumps) ==
    IF Len(ns) = 1 THEN PatchJumps(emitNode(g, ns[1], p, busy), jumps)
    ELSE LET q == emitNode(g, ns[1], emit(p, Split(Here(p) + 1)), busy)
             r == PatchSplits(emit(q, Jump(0)), {Here(p)})
         IN  emitAlternation(g, Tail(ns), r, busy, jumps \cup {Here(q)})

emitNode(g, n, p, busy) ==
    LET inner == busy \cup {n.rule}
        slot == Len(p.slotCapture)
        saved == [emit(p, Save(2 * slot + 1)) EXCEPT !.slotCapture = Append(@, n.rule)]
    IN  CASE ~p.ok -> p
          [] p.ok /\ isSingleOctet(g, n) -> emit(p, Class(buildClass(g, n)))
          [] p.ok /\ ~isSingleOctet(g, n) /\ n.kind = "Literal" ->
                FoldLeft(LAMBDA q, c : emit(q, Class(BothCases(c))), p, n.text)
          [] p.ok /\ ~isSingleOctet(g, n) /\ n.kind = "Reference" ->
                CASE g[n.rule] = NoRule \/ n.rule \in busy -> fail(p)
                  [] g[n.rule] # NoRule /\ n.rule \notin busy /\ ~n.capture ->
                        emitNode(g, g[n.rule], p, inner)
                  [] OTHER -> emit(emitNode(g, g[n.rule], saved, inner), Save(2 * slot + 2))
          [] p.ok /\ n.kind = "Sequence" ->
                FoldLeft(LAMBDA q, k : emitNode(g, k, q, busy), p, n.kids)
          [] p.ok /\ ~isSingleOctet(g, n) /\ n.kind = "Alternation" ->
                emitAlternation(g, n.kids, p, busy, {})
          [] p.ok /\ n.kind = "Repetition" -> emitRepetition(g, n, p, busy)

compile(g, rule) == emit(emitNode(g, g[rule], EmptyProgram, {}), Match)
==============================================================================
