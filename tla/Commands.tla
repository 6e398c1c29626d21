------------------------------- MODULE Commands -------------------------------
(***************************************************************************)
(* From a line to what a handler reads: Server::handleMessage, the command *)
(* table and its dispatch, the 18 command productions of                   *)
(* grammar/EmbeddedGrammarSource.cpp, and the parameters each handler      *)
(* takes from its Message.  A line is tried against the production of its  *)
(* first word and, failing that, against `message'; a handler then finds   *)
(* named fields or only a list of parameters, and copes with both or not.  *)
(*                                                                         *)
(* The k-th command of the table is spelled by the k-th letter.  What the  *)
(* handlers do with what they read is in IrcServer and ModeString.         *)
(***************************************************************************)
EXTENDS LineParser

CONSTANT MaxHosts    \* 5: the nicknames of a USERHOST

(* kCommands                                                               *)
Entry(name, needsRegistration) == [name |-> name, needsRegistration |-> needsRegistration]
kCommands ==
    <<Entry("CAP", FALSE), Entry("PASS", FALSE), Entry("NICK", FALSE), Entry("USER", FALSE),
      Entry("QUIT", FALSE), Entry("PONG", FALSE), Entry("PING", TRUE), Entry("JOIN", TRUE),
      Entry("PART", TRUE), Entry("PRIVMSG", TRUE), Entry("NOTICE", TRUE), Entry("KICK", TRUE),
      Entry("INVITE", TRUE), Entry("TOPIC", TRUE), Entry("MODE", TRUE), Entry("WHO", TRUE),
      Entry("WHOIS", TRUE), Entry("USERHOST", TRUE)>>

Command == {kCommands[k].name : k \in DOMAIN kCommands}
Spelling(c) == <<CHOOSE k \in DOMAIN kCommands : kCommands[k].name = c>>

(* findCommand, and commandRule over what bindCommandRules has collected:  *)
(* verifyCommandTable starts no server in which the two disagree.          *)
Unknown == Entry("none", TRUE)
findCommand(word) ==
    IF \E c \in Command : Spelling(c) = word THEN kCommands[word[1]] ELSE Unknown

-----------------------------------------------------------------------------
(* The command productions.                                                *)

middleName == {"password", "newnick", "username", "usermode", "unused", "capsub", "chanlist",
               "keylist", "msgtarget", "kickchans", "kickusers", "invnick", "invchan", "topicchan",
               "modetarget", "modestring", "modeparam", "whomask", "whoisnick", "hostnick"}
trailingName == {"realname", "quitmsg", "capparam", "pingtoken", "partmsg", "msgtext",
                 "kickreason", "topictext"}

Word(r) == Sequence(<<SPACE, Capture(r)>>)
Text(r) == Sequence(<<SPACE, Option(colon), Capture(r)>>)
Marked(r) == Sequence(<<SPACE, colon, Capture(r)>>)

Arguments(c) ==
    CASE c = "CAP" -> <<Option(Sequence(<<Word("capsub"), Option(Text("capparam"))>>))>>
      [] c = "PASS" -> <<Text("password")>>
      [] c = "NICK" -> <<Text("newnick")>>
      [] c = "USER" -> <<Word("username"), Word("usermode"), Word("unused"), Marked("realname")>>
      [] c = "QUIT" -> <<Option(Text("quitmsg"))>>
      [] c \in {"PING", "PONG"} -> <<Option(Text("pingtoken"))>>
      [] c = "JOIN" ->
            <<SPACE, Alternation(<<Literal(<<Digit>>),
                                   Sequence(<<Capture("chanlist"), Option(Word("keylist"))>>)>>)>>
      [] c = "PART" -> <<Word("chanlist"), Option(Text("partmsg"))>>
      [] c \in {"PRIVMSG", "NOTICE"} -> <<Word("msgtarget"), Text("msgtext")>>
      [] c = "KICK" -> <<Word("kickchans"), Word("kickusers"), Option(Text("kickreason"))>>
      [] c = "INVITE" -> <<Word("invnick"), Word("invchan")>>
      [] c = "TOPIC" -> <<Word("topicchan"), Option(Marked("topictext"))>>
      [] c = "MODE" ->
            <<Word("modetarget"),
              Option(Sequence(<<Word("modestring"), Repetition(0, MaxParams - 1, Word("modeparam"))>>))>>
      [] c = "WHO" -> <<Option(Word("whomask"))>>
      [] c = "WHOIS" ->
            <<SPACE, Option(Sequence(<<Reference("middle"), SPACE>>)), Capture("whoisnick")>>
      [] c = "USERHOST" -> <<Word("hostnick"), Repetition(0, MaxHosts - 1, Word("hostnick"))>>

Production(c) == Sequence(<<Literal(Spelling(c))>> \o Arguments(c) \o <<Many(SPACE)>>)

EmbeddedGrammar ==
    [r \in MessageRule \cup middleName \cup trailingName \cup Command |->
        CASE r \in MessageRule -> MessageGrammar[r]
          [] r \in middleName -> Reference("middle")
          [] r \in trailingName -> MessageGrammar["trail"]
          [] r \in Command -> Production(r)]

-----------------------------------------------------------------------------
(* handleMessage                                                           *)

(* firstToken: nothing when the line begins with a prefix.                 *)
firstToken(l) ==
    LET r == Unblanked(l) IN IF HasPrefix(r) THEN <<>> ELSE Upper(FirstWord(r))

NoMessage == [matched |-> FALSE, fields |-> <<>>, command |-> <<>>, params |-> <<>>, trailingIndex |-> 0]

Parsed(l) ==
    LET general == treeMatch(EmbeddedGrammar, "message", l)
    IN  IF general.ok THEN parseLine(general.caps) @@ NoMessage ELSE NoMessage

(* Faulty: the fields of a failed match are taken for those of the line.   *)
handleMessage_unchecked(l) ==
    LET name == firstToken(l)
        entry == findCommand(name)
        special == treeMatch(EmbeddedGrammar, entry.name, l)
        p == fillParams(special.caps)
    IN  IF entry # Unknown
        THEN [matched |-> TRUE, fields |-> special.caps, command |-> name,
              params |-> [k \in DOMAIN p |-> p[k].text], trailingIndex |-> 0]
        ELSE Parsed(l)

handleMessage(l) ==
    LET name == firstToken(l)
        entry == findCommand(name)
        special == treeMatch(EmbeddedGrammar, entry.name, l)
        p == fillParams(special.caps)
    IN  IF entry # Unknown /\ special.ok
        THEN [matched |-> TRUE, fields |-> special.caps, command |-> name,
              params |-> [k \in DOMAIN p |-> p[k].text], trailingIndex |-> 0]
        ELSE Parsed(l)

(* Message::has and field.                                                 *)
has(msg, name) == all(msg.fields, name) # <<>>
field(msg, name) == IF has(msg, name) THEN all(msg.fields, name)[1] ELSE <<>>

-----------------------------------------------------------------------------
(* What a handler makes of its message: a numeric reply, or the values it  *)
(* goes on with.                                                           *)

Reply(n) == [reply |-> n, args |-> <<>>]
With(args) == [reply |-> 0, args |-> args]
Nothing == With(<<>>)
Default == <<0>>     \* the handler's own: all channels, the nickname, "Quit"
FieldOr(msg, name, k) == IF msg.matched THEN field(msg, name) ELSE msg.params[k]

Has(msg, k) == Len(msg.params) >= k
HasText(msg, k) == Has(msg, k) /\ msg.params[k] # <<>>

cmdPrivmsg(msg) ==
    CASE ~HasText(msg, 1) -> Reply(411)
      [] HasText(msg, 1) /\ ~HasText(msg, 2) -> Reply(412)
      [] OTHER -> With(<<FieldOr(msg, "msgtarget", 1), FieldOr(msg, "msgtext", 2)>>)

cmdNotice(msg) ==
    IF HasText(msg, 1) /\ HasText(msg, 2)
    THEN With(<<FieldOr(msg, "msgtarget", 1), FieldOr(msg, "msgtext", 2)>>) ELSE Nothing

cmdUser(msg) ==
    IF Has(msg, 4) /\ (msg.matched \/ msg.trailingIndex = 4)
    THEN With(<<FieldOr(msg, "username", 1), msg.params[2], FieldOr(msg, "realname", 4)>>)
    ELSE Reply(461)

cmdQuit(msg) ==
    CASE msg.matched -> With(<<field(msg, "quitmsg")>>)
      [] ~msg.matched /\ Has(msg, 1) -> With(<<msg.params[1]>>)
      [] OTHER -> With(<<Default>>)

cmdJoin(msg) ==
    CASE ~msg.matched -> Reply(461)
      [] msg.matched /\ ~has(msg, "chanlist") -> With(<<Default>>)
      [] OTHER -> With(<<field(msg, "chanlist"), field(msg, "keylist")>>)

cmdPart(msg) ==
    IF msg.matched THEN With(<<field(msg, "chanlist"), field(msg, "partmsg")>>) ELSE Reply(461)

cmdKick(msg) ==
    IF msg.matched
    THEN With(<<field(msg, "kickchans"), field(msg, "kickusers"),
                IF has(msg, "kickreason") THEN field(msg, "kickreason") ELSE Default>>)
    ELSE Reply(461)

cmdInvite(msg) ==
    IF msg.matched THEN With(<<field(msg, "invnick"), field(msg, "invchan")>>) ELSE Reply(461)

cmdTopic(msg) ==
    CASE ~HasText(msg, 1) -> Reply(461)
      [] HasText(msg, 1) /\ Len(msg.params) = 1 -> With(<<msg.params[1]>>)
      [] OTHER -> With(<<msg.params[1], FieldOr(msg, "topictext", 2)>>)

cmdWhois(msg) ==
    LET k == IF Len(msg.params) > 1 THEN 2 ELSE 1
    IN  IF HasText(msg, k) THEN With(<<msg.params[k]>>) ELSE Reply(431)

cmdUserhost(msg) ==
    IF Has(msg, 1)
    THEN With(SubSeq(msg.params, 1, Min({Len(msg.params), MaxHosts}))) ELSE Reply(461)

cmdCap(msg) == IF Has(msg, 1) THEN With(<<msg.params[1]>>) ELSE Nothing
cmdPass(msg) == IF Has(msg, 1) THEN With(<<FieldOr(msg, "password", 1)>>) ELSE Reply(461)
cmdNick(msg) == IF Has(msg, 1) THEN With(<<FieldOr(msg, "newnick", 1)>>) ELSE Reply(431)
cmdPing(msg) == IF Has(msg, 1) THEN With(<<msg.params[1]>>) ELSE Reply(461)
cmdPong(msg) == Nothing
cmdMode(msg) == IF HasText(msg, 1) THEN With(msg.params) ELSE Reply(461)
cmdWho(msg) == IF HasText(msg, 1) THEN With(<<msg.params[1]>>) ELSE Reply(315)

(* The handler of the table; PASS and USER come only before registration.  *)
handler(c, msg, registered) ==
    CASE c \in {"PASS", "USER"} /\ registered -> Reply(462)
      [] c = "PASS" /\ ~registered -> cmdPass(msg)
      [] c = "USER" /\ ~registered -> cmdUser(msg)
      [] c = "CAP" -> cmdCap(msg)
      [] c = "NICK" -> cmdNick(msg)
      [] c = "QUIT" -> cmdQuit(msg)
      [] c = "PONG" -> cmdPong(msg)
      [] c = "PING" -> cmdPing(msg)
      [] c = "JOIN" -> cmdJoin(msg)
      [] c = "PART" -> cmdPart(msg)
      [] c = "PRIVMSG" -> cmdPrivmsg(msg)
      [] c = "NOTICE" -> cmdNotice(msg)
      [] c = "KICK" -> cmdKick(msg)
      [] c = "INVITE" -> cmdInvite(msg)
      [] c = "TOPIC" -> cmdTopic(msg)
      [] c = "MODE" -> cmdMode(msg)
      [] c = "WHO" -> cmdWho(msg)
      [] c = "WHOIS" -> cmdWhois(msg)
      [] c = "USERHOST" -> cmdUserhost(msg)

(* dispatchCommand.  Without extensions an unknown command is answered.    *)
dispatchCommand(msg, registered) ==
    LET entry == findCommand(msg.command)
    IN  CASE entry.needsRegistration /\ ~registered -> Reply(451)
          [] entry = Unknown /\ registered -> Reply(421)
          [] OTHER -> handler(entry.name, msg, registered)

Answer(msg, registered) ==
    IF msg.command = <<>> THEN Nothing ELSE dispatchCommand(msg, registered)

-----------------------------------------------------------------------------
(* The same from a client's side.  A line in its usual form: the command,  *)
(* a space before each parameter, a colon before the last one if marked.   *)
Line(name, params, marked) ==
    name \o FlattenSeq([k \in DOMAIN params |->
        (IF marked /\ k = Len(params) THEN <<Space, Colon>> ELSE <<Space>>) \o params[k]])

(* The commands whose last parameter is text, which takes the rest of the  *)
(* line even if its colon is missing: with how many parameters that is.    *)
TextAt(c) ==
    CASE c \in {"QUIT", "PING", "PONG"} -> 1
      [] c \in {"CAP", "PART", "PRIVMSG", "NOTICE"} -> 2
      [] c = "KICK" -> 3
      [] OTHER -> MaxParams + 1

(* The handlers that answer 461 unless the command's own production        *)
(* matches, and what that takes.                                           *)
Strict == {"JOIN", "PART", "KICK", "INVITE"}
Expected(c, p, marked) ==
    CASE c = "JOIN" -> Len(p) \in {1, 2} /\ ~marked
      [] c = "PART" -> Len(p) \in {1, 2} /\ (marked => Len(p) = 2)
      [] c = "KICK" -> Len(p) \in {2, 3} /\ (marked => Len(p) = 3)
      [] c = "INVITE" -> Len(p) = 2 /\ ~marked

(* The blanks behind a single word are not part of a PASS or NICK.         *)
Trimmed(c, p) ==
    IF /\ c \in {"PASS", "NICK"} /\ Len(p) = 1
       /\ p[1] # <<>> /\ p[1][1] \notin {Space, Colon} /\ Unblanked(AfterWord(p[1])) = <<>>
    THEN <<FirstWord(p[1])>> ELSE p

ReadByHand(c, p, marked, registered) ==
    LET msg == [matched |-> FALSE, fields |-> <<>>, command |-> Spelling(c), params |-> Trimmed(c, p),
                trailingIndex |-> IF marked THEN Len(p) ELSE 0]
        Or(k, default) == IF k <= Len(p) THEN p[k] ELSE default
        expected == c \in Strict /\ Expected(c, p, marked)
        leaveAll == c = "JOIN" /\ p = <<<<Digit>>>>
    IN  CASE c \in Strict /\ ~expected -> Reply(461)
          [] expected /\ leaveAll -> With(<<Default>>)
          [] expected /\ c # "KICK" /\ ~leaveAll -> With(<<p[1], Or(2, <<>>)>>)
          [] expected /\ c = "KICK" -> With(<<p[1], p[2], Or(3, Default)>>)
          [] c = "QUIT" -> With(<<Or(1, <<>>)>>)
          [] OTHER -> handler(c, msg, registered)

Usual(l) ==
    LET split == SplitParams(AfterWord(l), 0)
    IN  IsCommand(FirstWord(l)) /\ l = Line(FirstWord(l), split.params, split.trailing)

(* What a client sends in the usual form, the handler reads: the same      *)
(* values in the same order, whether the command's own production or only  *)
(* `message' matches, and the four handlers that insist on the former      *)
(* refuse no line that has the right number of parameters.                 *)
HandlersReadWhatIsSent ==
    Decided /\ grammar = MessageGrammar /\ Usual(line) =>
        \A c \in Command :
            LET msg == handleMessage(Spelling(c) \o AfterWord(line))
                split == SplitParams(AfterWord(line), MaxParams + 1 - TextAt(c))
            IN  \A registered \in BOOLEAN :
                    Answer(msg, registered) =
                        IF findCommand(Spelling(c)).needsRegistration /\ ~registered
                        THEN Reply(451)
                        ELSE ReadByHand(c, split.params, split.trailing, registered)

(* What wiki/RFC-CONFORMANCE.md and tests/test_message.cpp say of a prefix *)
(* in front of a line: it is skipped and changes nothing (the reason of a  *)
(* bare QUIT aside).                                                       *)
PrefixIsSkipped ==
    Decided /\ grammar = MessageGrammar /\ Usual(line) =>
        \A c \in Command \ {"QUIT"} :
            LET l == Spelling(c) \o AfterWord(line)
            IN  Answer(handleMessage(<<Colon, Digit, Space>> \o l), TRUE) = Answer(handleMessage(l), TRUE)
===============================================================================
