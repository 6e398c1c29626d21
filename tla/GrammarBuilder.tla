---------------------------- MODULE GrammarBuilder ----------------------------
(***************************************************************************)
(* From a grammar file to a grammar: grammar/AbnfLineReader.cpp joins its  *)
(* physical lines to one logical line per rule, grammar/GrammarBuilder.cpp *)
(* parses these in order, each defining a rule or adding an alternative to *)
(* one, rules may be mentioned before they are defined, and the whole is   *)
(* validated at the end.  What the walk of TreeMatcher may then be trusted *)
(* with is stated here too.                                                *)
(*                                                                         *)
(* A file that fails is given up: what it left in the grammar is not kept. *)
(***************************************************************************)
EXTENDS TreeMatcher, GrammarText

CONSTANTS Files,        \* what is written, as rules, and its lines of text
          Samples,      \* the lines matched with the grammar
          FewSteps      \* a step budget that can run out on those lines

VARIABLES file,         \* a member of Files
          physical,     \* how many of its lines have been read
          pending,      \* the logical line being joined; <<>>: none
          lastRuleName, \* <<>>: none yet, <<r>>: r
          lines,        \* the logical lines not yet parsed
          roots,        \* _ruleRoots, NoRule where there is none yet
          known,        \* _ruleNames: the rules interned so far
          status        \* "reading", "parsing", "ready", or why it failed

reader == <<file, physical, pending, lastRuleName, lines>>
builderVars == <<reader, roots, known, status>>

BuilderInit ==
    /\ file \in Files
    /\ physical = 0 /\ pending = <<>> /\ lastRuleName = <<>> /\ lines = <<>>
    /\ roots = [r \in Rule |-> NoRule]
    /\ known = {}
    /\ status = "reading"

-----------------------------------------------------------------------------
(* AbnfLineReader::read.  A line is its tokens and whether it begins with  *)
(* a blank.                                                                *)

(* A comment runs from a semicolon outside quotes to the end of the line.  *)
stripComment(ts) ==
    LET from == {k \in DOMAIN ts : ts[k] = Comment}
    IN  IF from = {} THEN ts ELSE SubSeq(ts, 1, Min(from) - 1)

Flush == IF pending = <<>> THEN lines ELSE Append(lines, pending)

(* Faulty: a rule extended without its name goes to the rule before it.    *)
NameRemembered_first(body) == IF lastRuleName = <<>> THEN <<body[1].rule>> ELSE lastRuleName

(* A new logical line that begins with a name sets the name that a later   *)
(* line beginning with = continues.                                        *)
NameRemembered(body) == IF Sees(body, {"name"}) THEN <<body[1].rule>> ELSE lastRuleName

BlankLine(body) ==
    /\ body = <<>>
    /\ UNCHANGED <<pending, lastRuleName, lines, status>>

Continuation(raw, body) ==
    /\ body # <<>> /\ raw.indented /\ ~Sees(body, {"=", "=/"}) /\ pending # <<>>
    /\ pending' = pending \o body
    /\ UNCHANGED <<lastRuleName, lines, status>>

Redefinition(body) ==
    /\ Sees(body, {"=", "=/"})
    /\ lines' = Flush
    /\ \/ /\ lastRuleName # <<>>
          /\ pending' = <<Name(lastRuleName[1])>> \o body
          /\ UNCHANGED status
       \/ /\ lastRuleName = <<>>
          /\ pending' = <<>>
          /\ status' = "no rule above"
    /\ UNCHANGED lastRuleName

NewLine(raw, body) ==
    /\ body # <<>> /\ ~Sees(body, {"=", "=/"}) /\ ~(raw.indented /\ pending # <<>>)
    /\ lines' = Flush
    /\ pending' = body
    /\ lastRuleName' = NameRemembered(body)
    /\ UNCHANGED status

readLine ==
    /\ status = "reading" /\ physical < Len(file.lines)
    /\ physical' = physical + 1
    /\ LET raw == file.lines[physical + 1]
           body == stripComment(raw.text)
       IN  BlankLine(body) \/ Continuation(raw, body) \/ Redefinition(body) \/ NewLine(raw, body)
    /\ UNCHANGED <<file, roots, known>>

endOfText ==
    /\ status = "reading" /\ physical = Len(file.lines)
    /\ lines' = Flush
    /\ pending' = <<>>
    /\ status' = "parsing"
    /\ UNCHANGED <<file, physical, lastRuleName, roots, known>>

-----------------------------------------------------------------------------
(* GrammarBuilder::compile                                                 *)

RECURSIVE Mentions(_)
Mentions(n) == IF n.kind = "Reference" THEN {n.rule}
               ELSE UNION {Mentions(Kids(n)[k]) : k \in DOMAIN Kids(n)}

(* internRule for the rule of the line and for those its body mentions.    *)
internRule(rule) == known' = known \cup {rule.rule} \cup Mentions(rule.body)

Define(rule) ==
    /\ rule.op = "="
    /\ internRule(rule)
    /\ \/ /\ roots[rule.rule] = NoRule
          /\ roots' = [roots EXCEPT ![rule.rule] = rule.body]
          /\ UNCHANGED status
       \/ /\ roots[rule.rule] # NoRule
          /\ status' = "defined twice"
          /\ UNCHANGED roots

(* Faulty: the added alternative replaces the rule.                        *)
Extend_replaces(rule) ==
    /\ rule.op = "=/"
    /\ internRule(rule)
    /\ roots' = [roots EXCEPT ![rule.rule] = rule.body]
    /\ UNCHANGED status

Extend(rule) ==
    /\ rule.op = "=/"
    /\ internRule(rule)
    /\ \/ /\ roots[rule.rule] # NoRule
          /\ roots' = [roots EXCEPT ![rule.rule] = Alternation(<<@, rule.body>>)]
          /\ UNCHANGED status
       \/ /\ roots[rule.rule] = NoRule
          /\ status' = "never defined"
          /\ UNCHANGED roots

parseRule ==
    /\ status = "parsing" /\ lines # <<>>
    /\ lines' = Tail(lines)
    /\ LET rule == RuleOf(Head(lines))
       IN  \/ rule.ok /\ (Define(rule) \/ Extend(rule))
           \/ ~rule.ok /\ status' = "malformed" /\ UNCHANGED <<roots, known>>
    /\ UNCHANGED <<file, physical, pending, lastRuleName>>

(* The end of compile: GrammarValidator::validate.                         *)
finish ==
    /\ status = "parsing" /\ lines = <<>>
    /\ status' = CASE ~checkAllRulesDefined(roots, known) -> "undefined"
                   [] ~checkNoLeftRecursion(roots, known) -> "left-recursive"
                   [] OTHER -> "ready"
    /\ UNCHANGED <<reader, roots, known>>

BuilderNext == readLine \/ endOfText \/ parseRule \/ finish

BuilderSpec == BuilderInit /\ [][BuilderNext]_builderVars

-----------------------------------------------------------------------------
(* A grammar the builder passes never sends the tree walk round in         *)
(* circles: on every line of the instance it ends within its budget, deep  *)
(* as rules nest through themselves.  A walk that does run out of a budget *)
(* never passes for a verdict: it refuses the line and says so             *)
(* (lastExhausted).  Any other answer is the language's.                   *)
ReadyTerminates ==
    status = "ready" =>
        \A r \in known, l \in Samples, budget \in {FewSteps, MaxSteps} :
            LET w == treeMatchWithin(budget, roots, r, l)
            IN  IF w.exhausted THEN budget = FewSteps /\ ~w.ok
                ELSE EmptyCopies(roots) \/ w.ok = InLanguage(roots, roots[r], l)

(* No grammar is refused as left-recursive that is not, and none that is   *)
(* gets through: the search through nullable prefixes, cut short at rules  *)
(* already entered, computes left recursion exactly.                       *)
RefusedForCause ==
    status \in {"ready", "left-recursive"} =>
        (status = "left-recursive") = \E r \in known : LeftRecursive(roots, r)

(* Adding to a rule never takes a line away from it, nor from a rule that  *)
(* mentions it.                                                            *)
LanguagesGrow ==
    [][status' = "parsing" /\ ~(\E r \in Rule : LeftRecursive(roots', r)) =>
        \A r \in known, l \in Samples :
            InLanguage(roots, roots[r], l) => InLanguage(roots', roots'[r], l)]_builderVars

(* What is written, whatever its layout, is what is built, and a file with *)
(* a rule that is malformed, defined twice or extended before it is        *)
(* defined is refused: no rule is lost, doubled, run into the one above it *)
(* or extended in place of another.                                        *)
AsWritten(rules) ==
    FoldLeft(LAMBDA g, d : [g EXCEPT ![d.rule] = IF d.op = "=" THEN d.body
                                                 ELSE Alternation(<<@, d.body>>)],
             [r \in Rule |-> NoRule], rules)
FirstOf(rules, k) == \A j \in 1 .. k - 1 : rules[j].rule # rules[k].rule
WellWritten(rules) ==
    \A k \in DOMAIN rules : rules[k].body # NoRule /\ (rules[k].op = "=") = FirstOf(rules, k)

Refused == {"malformed", "no rule above", "defined twice", "never defined"}
Judged == {"ready", "undefined", "left-recursive"}

BuildsWhatIsWritten ==
    status \in Judged \cup Refused =>
        IF WellWritten(file.rules) THEN roots = AsWritten(file.rules) /\ status \in Judged
        ELSE status \in Refused
=============================================================================
