------------------------------- MODULE Matchers -------------------------------
(***************************************************************************)
(* The two matchers a server may be built with, on one grammar: the        *)
(* compiled one (ProgramMatcher running what ProgramCompiler wrote) and    *)
(* the interpreted one (TreeMatcher), against the language the notation    *)
(* defines.                                                                *)
(***************************************************************************)
EXTENDS ProgramCompiler, ProgramMatcher

CONSTANT Start              \* the rule the lines are matched against

StartProgram(g) == compile(g, Start)

(* ProgramMatcher::compileAll: every rule there is compiles.               *)
compileAll(g) == \A r \in {q \in Rule : g[q] # NoRule} : compile(g, r).ok

(* Server::initGrammar: what a server starts with.                         *)
Startable(g) == validate(g, Rule) /\ compileAll(g)

-----------------------------------------------------------------------------
(* The compiled program decides exactly the language the notation defines, *)
(* whatever was matched before: no thread is lost to a stale seen mark.    *)
ReadsTheLanguage == Decided => (verdict = "yes") = InLanguage(grammar, grammar[Start], line)

(* ProgramMatcher and TreeMatcher can be swapped for one another (the      *)
(* FT_IRC_MATCHER switch): unless the tree walk runs out of budget they    *)
(* accept the same lines and capture the same texts under every name.      *)
Swappable ==
    LET w == treeMatch(grammar, Start, line)
    IN  Decided /\ ~w.exhausted =>
            /\ (verdict = "yes") = w.ok
            /\ w.ok => \A r \in Rule : all(caps, r) = all(w.caps, r)

(* The same for grammars without copies of something empty, the shape the  *)
(* embedded grammar has.                                                   *)
MatchersAgree == Decided => EmptyCopies(grammar) \/ Swappable
=============================================================================
