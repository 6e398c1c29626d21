----------------------------- MODULE GrammarEngine -----------------------------
(***************************************************************************)
(* Server::initGrammar, and the lines that follow: a file is read, built   *)
(* into a grammar and compiled, or the server does not start; from then on *)
(* the machine runs on every line.  GrammarBuilder and ProgramMatcher are  *)
(* composed here, and what each of them promises is asked of the whole.    *)
(*                                                                         *)
(* A file stands for one that also has the command productions, which      *)
(* verifyCommandTable insists on (module Commands).  The strategy is       *)
(* `compiled'; a server without FT_IRC_MATCHER keeps no program and gives  *)
(* each line to treeMatch, the other side of MatchersAgree.                *)
(***************************************************************************)
EXTENDS Matchers, GrammarBuilder

CONSTANT Given              \* grammars that are taken as built

engineVars == <<vars, builderVars>>

NoGrammar == [r \in Rule |-> NoRule]

(* The builder is a local of initGrammar: nothing of it is left.           *)
BuilderGone ==
    /\ file' = [rules |-> <<>>, lines |-> <<>>]
    /\ physical' = 0 /\ pending' = <<>> /\ lastRuleName' = <<>> /\ lines' = <<>>
    /\ roots' = NoGrammar
    /\ known' = {}

-----------------------------------------------------------------------------
(* Before a line is matched: the matcher has its grammar, its program, and *)
(* otherwise what it is constructed with.                                  *)
Constructed(g, p) ==
    /\ grammar = g /\ program = p
    /\ line = <<>> /\ pos = 0 /\ current = <<>>
    /\ seen = [pc \in DOMAIN p.code |-> 0] /\ generation = 0
    /\ verdict = "idle" /\ caps = <<>> /\ count = 0

EngineInit ==
    \/ BuilderInit /\ Constructed(NoGrammar, EmptyProgram)
    \/ /\ \E g \in Given : Constructed(g, StartProgram(g))
       /\ file = [rules |-> <<>>, lines |-> <<>>]
       /\ physical = 0 /\ pending = <<>> /\ lastRuleName = <<>> /\ lines = <<>>
       /\ roots = NoGrammar /\ known = {}
       /\ status = "serving"

(* The rest of initGrammar, once the file is built.                        *)
initGrammar ==
    /\ status = "ready"
    /\ \/ /\ Start \in known /\ compileAll(roots)
          /\ grammar' = roots
          /\ program' = StartProgram(roots)
          /\ seen' = [pc \in DOMAIN program'.code |-> 0]
          /\ UNCHANGED <<line, pos, current, generation, verdict, caps, count>>
          /\ BuilderGone
          /\ status' = "serving"
       \/ /\ ~(Start \in known /\ compileAll(roots))
          /\ status' = "not started"
          /\ UNCHANGED <<vars, reader, roots, known>>

EngineNext ==
    \/ BuilderNext /\ UNCHANGED vars
    \/ initGrammar
    \/ status = "serving" /\ Next /\ UNCHANGED builderVars

EngineSpec == EngineInit /\ [][EngineNext]_engineVars
=============================================================================
