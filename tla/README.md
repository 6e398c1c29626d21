# ft_irc in TLA+

A verification project for the ft_irc server: TLA+ modules for its event loop,
input framing, sessions, channels, command parsing, MODE strings, idle timer,
file transfers and grammar engine; TLC configurations that check them on small instances; and TLAPS proofs
of the main safety properties for all instances. `PROJECT.json` maps every
definition to the source lines it stands for.

## 1. The system

ft_irc is a single-threaded C++98 IRC server. One thread waits in `epoll_wait`,
handles the events of a batch in turn, sweeps for timeouts, and goes back to
wait. Nothing is persisted. What makes it hard is therefore not parallelism
inside the process but everything around it: peers that close, reset, fall
silent or stop reading at any point of a pass; descriptors that the kernel hands
out again; handlers that loop over lists and change what they loop over; and
long sequences of legal commands from several clients.

| component | state | operations | talks to |
|---|---|---|---|
| event loop (`Server.cpp` run, accept, input, output, sweeps) | `_clients`, `_epollMask`, send queues, pending closes, `_lastPingCheck` | one pass: events, `checkTimeouts`, `checkPendingCloseTimeouts`, `onTick`, `updateEpollInterest` | everything, through `handleMessage`, `queueMessage`, `disconnectClient` |
| input framing (`Client.cpp` extractMessages, `Server.cpp` handleClientInput) | the line buffer, the messages extracted and not yet handled | a read, a line taken, a message handled | event loop, command parsing |
| command parsing (`Server.cpp` handleMessage, `Message.cpp`, `EmbeddedGrammarSource.cpp`) | the command table and its productions | match, fill a `Message`, dispatch | grammar engine, every handler |
| registration (`CommandRegistration.cpp`) | password, nickname, user flags of a `Client` | PASS, NICK, USER, QUIT | channels (a rename is told to all peers) |
| channels (`Channel.cpp`, `CommandChannel.cpp`, `CommandOperator.cpp`, `CommandMessaging.cpp`) | members, operators, invitations, modes, topic | JOIN, PART, KICK, INVITE, TOPIC, MODE, PRIVMSG, NOTICE | every member hears every change |
| MODE strings (`CommandOperator.cpp`) | loop index, sign, parameter index, changes | one character, one change rendered | channels |
| idle timer (`checkTimeouts`) | last activity, PING sent, last sweep | input, sweep | event loop |
| file transfers (`bonus/FileTransferExt.cpp`) | `_transfers`, `_nextId` | SEND, ACCEPT, REJECT, DATA, END, ABORT, tick, disconnection hook | two sessions, by descriptor |
| grammar engine (`grammar/`) | rules, programs, thread lists, marks | read, build, validate, compile, match | command parsing |
| bot, queries, logs, tiers | none that others read | replies and output | — |

What makes each part correct:

* *event loop*: no event reaches the wrong client, nothing is read for a client
  that has been torn down, no output waits unwatched, and every session that
  should end does end;
* *input framing*: the messages handled depend on the octets sent and not on how
  the reads cut them, and none is unclean, lost, repeated or handled after the
  session's end;
* *command parsing*: a handler reads what the client wrote, whichever production
  matched;
* *registration*: unique nicknames, nobody in without the password;
* *channels*: no reference to a client that is gone, a channel lives exactly
  while it has members, and every member's picture is the channel;
* *MODE*: parameters reach the letters that need them and the announced lines
  say what was changed;
* *idle timer*: silence is bounded, and nobody is dropped without time to answer;
* *transfers*: both parties and the server agree on what is under way;
* *grammar*: the two matchers decide the same language, the one the notation
  defines; a grammar file means what it says whatever its layout, and the builder
  lets through only grammars they can handle.

The hazards, line by line, are in `PROJECT.json` under `hazards`.

## 2. The modules

| module | models | checked by | proved in |
|---|---|---|---|
| `Sessions` | abstract: what the life of a connection promises | refinement | — |
| `EventLoop` | `Server::run` and everything it calls per pass, with the kernel and the peers | `MCEventLoop` | `EventLoop_proofs` |
| `LineStream` | abstract: the messages a client's octets amount to | refinement | — |
| `Framing` | a read, the line buffer, `stripNul`, `splitOnCr`, the loop over messages | `MCFraming` | `Framing_proofs` |
| `IrcServer` | registration, channels, commands, teardown | `MCIrcServer` | `IrcServer_proofs` |
| `PingTimeout` | the idle timer in seconds | itself | `PingTimeout_proofs` |
| `FileTransfer` | the FILE extension and both parties' knowledge | `MCFileTransfer` | `FileTransfer_proofs` |
| `ModeString` | one MODE command, character by character | `MCModeString` | `ModeString_proofs` |
| `Abnf` | grammar nodes, validator, and the language by definition | through the ones below | TLC only |
| `TreeMatcher` | the interpreted matcher | through the ones below | TLC only |
| `ProgramCompiler` | the compiler from rules to programs | through the ones below | TLC only |
| `ProgramMatcher` | the compiled matcher, for any program | through the ones below | `ProgramMatcher_proofs` |
| `Matchers` | both matchers on one grammar, and its language | `MCGrammarEngine` | TLC only |
| `LineParser` | the `message` production, `parseLine`, `fillParams` | `MCGrammarEngine`, `MCLineParser` | TLC only |
| `Commands` | `handleMessage`, the command productions, the table, what each handler reads | `MCGrammarEngine`, `MCLineParser` | TLC only |
| `GrammarText` | the recursive descent over the text of a rule | `MCGrammarEngine` | TLC only |
| `GrammarBuilder` | a grammar file read line by line, its rules put together and validated | `MCGrammarEngine` | TLC only |
| `GrammarEngine` | `initGrammar`: `GrammarBuilder` and then `ProgramMatcher`, on the grammar that was built | `MCGrammarEngine` | TLC only |

`Sessions` is the abstract specification: a session opens on a free descriptor,
is torn down once, and a leaving one can only end. `EventLoop` and `IrcServer`
both implement it (`SessionsAreSafe`; the first with its liveness,
`SessionsEnd`), each with `state` as its refinement mapping. That is also how the
two views of one program are tied together: what `IrcServer` calls leaving
(`_tearingDown`) is what `EventLoop` calls closing (`pendingClose`).

`LineStream` is the second abstract specification: octets arrive, the messages
they amount to are read off them in one pass, and each is handled once and in
order until the session is over. `Framing` implements it (`AsOneStream`), with
the buffer, the half-scanned line and the extracted messages hidden.

The modules follow a client's input through the server: `Framing` turns octets
into messages, `Commands` a message into the values a handler works with,
`ModeString` the parameters of a MODE into changes, and `IrcServer` says what the
handlers do to sessions and channels. `EventLoop` is the pass around all of it.

How state and steps correspond to the code:

* **IrcServer.** `conn`, `tearing`, `reg`, `pass`, `user`, `nick`, `chan` are the
  fields of `Server`, `Client` and `Channel`. A handler without a loop is one
  action; JOIN, PART and MODE are one step per turn of their loop, with the loop
  state in `job`, and nothing else runs in between. Error replies change nothing
  here, so a handler's early returns are its action's guards. `view` holds what a
  client that reads its lines must believe: each handler's broadcasts update it,
  in the code's order with the changes of the state. The properties compare it
  with the state.
* **EventLoop.** `pc`, `batch` and `cur` are the position in a pass. Readiness is
  computed from the kernel's side of the socket when `epoll_wait` returns and
  stays in `batch` while peers and handlers move on. A command is abstracted to
  lines queued for reachable clients and perhaps the end of its sender. Times
  are past their deadline or not. `Stop` is the end of the process, between two
  passes by a signal or a failed `epoll_wait`, or inside a batch when epoll
  refuses a new client (`addToEpoll` throws): `~Server` closes everything.
* **Framing.** `buf` and `skipping` are libcpp98's line buffer, which is not in the
  repository: a line is given out when its LF is there, an overlong one when it
  exceeds the limit, and the rest of that is dropped. Whether a line of exactly the
  limit counts as overlong before its LF is in is left open, in `Framing` and in
  `LineStream`. `stripNul` and `splitOnCr` are one scan, an octet a step.
* **Commands.** The k-th command is spelled by the k-th letter, so that a line of
  each command is as short as any other; names of fields are those of the
  grammar. A handler is a function from its `Message` to a numeric or to the
  values it goes on with. `ReadByHand` is the same from the client's side: split
  the line at its spaces, and apply what the command takes.
* **PingTimeout.** Ages in seconds; a pass takes up to `MaxPass` seconds.
* **FileTransfer.** `transfers` is `_transfers`; `book` is what each client knows
  from the lines it got; a disconnection frees the descriptor for the next
  session.
* **ModeString.** The loops of `handleChannelMode`, `handleUserMode` and
  `renderModeLines`; a reader of the lines is defined beside them. Sizes of
  parameters come from a table, so the cutting of lines is exercised with a
  small budget.
* **Grammar modules.** A node is a record. `InLanguage` is the meaning of the
  notation, defined as a set of end positions and never as an algorithm of the
  code. `TreeMatcher` keeps the continuations, the capture log and both budgets.
  `ProgramCompiler` compiles to the same instructions as the code.
  `ProgramMatcher` runs any such program, one octet per step; seen marks and the
  generation outlive a line. It takes programs and lines as constants, so that it
  can be reasoned about apart from the compiler; `Matchers` puts the two together.
  The recursion of `addThread` is unrolled: a list of the calls still to be made,
  those a call makes itself in front. `Accepts` says what a program accepts
  without any of this, one run at a time. Octets are
  small numbers; `Letters` and `Shift` place the letters that have two cases.
  `GrammarText` parses tokens, not characters; `TextOf` writes a node down again,
  and the files of `MCGrammarEngine` are such texts in several layouts. `GrammarEngine`
  composes the builder and the machine: the variables of one are blank while the
  other runs, since the builder is a local of `initGrammar` and the matcher does not
  exist before its end.

## 3. The runs

| run | configuration | what it shows |
|---|---|---|
| `server` | 2 clients, 2 channels, 5 nicknames, lists, operators, every mode letter | `IInv`, `NickUnique`, `PasswordChecked`, `NoStaleReference`, `ChannelLivesWithMembers`, `ViewsAgree`, `NeverConfused`, `OplessIsFrozen`, `SessionsAreSafe` |
| `loop_safety` | 2 clients, batch of 2, queue of 2 | `IInv`, `EventsAreCurrent`, `LeavingIsNotRead`, `NoLostWakeup`, `SessionsAreSafe` |
| `loop_liveness` | 1 descriptor, all faults | `OverflowEnds`, `GonePeerIsFreed`, `SilentIsDropped`, `SessionsEnd` |
| `framing` | lines of 3 octets, streams of 7 | `IInv`, `AsOneStream` |
| `ping` | 120/120/30 seconds, passes up to 2 | `SilenceIsBounded`, `DroppedAfterGrace` |
| `transfers` | 3 clients, 2 transfers of 2 bytes | `IInv`, `OneActivePerPair`, `BooksAgree`, `TransfersGoForward`, `StalledEnds` |
| `mode_string` | strings up to 5, up to 2 parameters | `NobodyStarves`, `NoParameterVanishes`, `LinesFit`, `LinesTellTheModes` |
| `grammar_engine` | files of up to 3 rules over 2 names, 3 layouts, malformed texts; 1152 small grammars; the message production and those of 18 commands | `DecidesItsProgram`, `ReadsTheLanguage`, `MatchersAgree`, `ParamsAsSplit`, `HandlersReadWhatIsSent`, `RefusedForCause`, `ReadyTerminates`, `BuildsWhatIsWritten`, `LanguagesGrow` |
| `command_prefix` | the message production and the commands | violated: `PrefixIsSkipped` |
| `params_wiki` | the same | violated: `EveryMiddleIsKept` |
| `ping_wiki` | as `ping` | violated: `DroppedAfterTimeout` |
| `framing_wiki` | as `framing` | violated: `OneMessagePerLine` |

The bounds, and why they are enough:

* *Clients.* Two clients meet every pairwise race (one nickname, one transfer,
  one batch, one kicks or invites the other). All nine properties of `server` are
  also proved, for any number of clients and channels; what the run adds is that the
  cases happen. The third client in `transfers` is a bystander.
* *Channels.* Two, so that a peer shared by both is told of a departure once.
* *Lists.* JOIN and PART lists repeat a channel and hold a bad name between good
  ones; the MODE strings take away the giver's own bit and go on.
* *Loop.* A batch of two can hold events of two clients, or of one and the
  listener, so a handler of the first meets an event of the second. A queue of
  one or two lines overflows at once.
* *Framing.* Seven octets hold an overlong line and a good one behind it, in up to
  seven reads; every octet may be text, CR, LF or NUL.
* *Ping.* The code's own numbers; `MaxPass` of two seconds is the wait of
  `epoll_wait` and a second of work.
* *MODE.* Five characters hold a sign change and three letters with parameters;
  the budget breaks lines after one or two changes.
* *Matchers.* 1152 grammars: two levels of repetition, captures inside captures and nullable
  rules, on lines of three octets; four lines in a row for the marks that
  outlive a line. Messages are every line of up to six octets over colon, letter
  and space, and longer ones put together from parameters; four parameters
  before the trailing one stand for 14, and two nicknames of a USERHOST for
  five, so that lines on both sides of the limits are among them. Each line in
  the usual form is sent as each of the 18 commands.
* *Grammar files.* Every pair of rules over ten bodies, with = and =/, and
  triples that end in =/; the grammars that start a server are matched on every
  line of up to two octets, and those still in the builder on lines of up to four; on one line, one token to a line with comments, or
  without the name where it is the one above.
* *Counters.* `Generations` is the number of values of the generation counter,
  2^31 for an int and in the run enough not to come round. With 8
  `ReadsTheLanguage` fails: see the hazard at `ProgramMatcher.cpp:114`.

`CHECK_DEADLOCK FALSE` stands where the modelled activity ends: a dropped client
(`PingTimeout`), a client that is gone (`Framing`), a MODE command that is
through, a matcher out of lines, a grammar file that is refused. A stopped event loop
stutters (`Stopped`), so that `loop_safety` and `loop_liveness` still look for
deadlocks. Symmetry over descriptors is used in the runs of
`IrcServer` and in `loop_safety`, which check no liveness.

**Fairness.** `EventLoop!FairSpec` is weakly fair to the loop (the process keeps
running: `epoll_wait` has a timeout of a second) until it is stopped, and to the
two clocks. Peers get
no fairness: they may never read, send or close. `FileTransfer!Spec` is weakly
fair to the tick, for the same reason. `Framing!Spec` is weakly fair to the steps
of the server, which are turns of loops that run to their end; a peer may send
nothing more, and `AsOneStream` still asks for every complete message.

### What the violations show

* `command_prefix`: `wiki/RFC-CONFORMANCE.md` says that a prefix is skipped. For
  PRIVMSG it is. But `firstToken` returns nothing for such a line, so only the
  general production is tried, and JOIN, PART, KICK and INVITE, which insist on
  their own, answer 461: `:x JOIN #a` is refused. `HandlersReadWhatIsSent` is
  what holds of lines without a prefix.
* `ping_wiki`: `wiki/scenarios/08-resilience.md` says that a client is dropped 120
  seconds after the PING. Both limits run from the last input and are looked at every
  30 seconds, so a PING sent after 151 seconds of silence is followed by the drop at
  241. 90 seconds are certain (`DroppedAfterGrace`).
* `framing_wiki`: `wiki/RFC-CONFORMANCE.md` says that a CR inside a line is stripped
  and that a `\rQUIT` in a line does not end the session; `scripts/sim/verify_grammar.sh`
  has a row for it. `splitOnCr` makes what follows the CR a message of its own, as
  `tests/test_security.cpp` asserts. `AsOneStream` is about the messages so cut.
* `params_wiki`: the same page says of the limit on parameters that all 16 of a line
  are parsed, "every middle kept" by a loop that "has no counter" (D3), and
  `verify_grammar.sh` that "extra middles are parsed anyway". The production counts to
  14, and the words behind that are one parameter with the spaces in it.
  `ParamsAsSplit` states this exactly.

### Other things the models show

Behaviour that the properties allow for, and that a reader of the wiki or of the
code might not expect:

* `-k` with a spare parameter is announced with it, while 005 puts k where only
  `+k` has one: in `-k+o oldkey alice` a client that reads by 005 gives the
  operator bit to `oldkey`. `LinesTellTheModes` holds of all other lines.
* After an empty copy `TreeMatcher` stops even if more copies are required
  (`TreeMatcher.cpp:202`), so it refuses the empty line under `2( *"a" )`, which
  `ProgramMatcher` accepts. The embedded grammar has no such repetition;
  `MatchersAgree` is the agreement of the two on grammars without (`EmptyCopies`).
* `compileAll` refuses recursive rules with an error (`tests/test_matcherdifferential.cpp`,
  `CompiledStrategyRefusesRecursiveRules`). Under an unbounded repetition it does not
  come to that: for `a = "x" *a` the search of `hasCapture` (`ProgramCompiler.cpp:115`)
  goes round in `a` until the stack is used up. `hasCapture` has this as a result of
  its own (`overrun`), and a server whose grammar leads there does not start.
* `tests/test_security.cpp` says that CR and LF frame identically. Messages separated by
  CRs share one line of the buffer and so its limit (`MaxLine`), those separated by
  LFs have one each.
* With two spaces before its colon a text keeps the colon: `PRIVMSG bob  :hi`
  delivers ` :hi`, because the production allows one space and a text may begin
  with the other. `HandlersReadWhatIsSent` is about lines with single spaces.
* A bare QUIT gives an empty reason; behind a prefix it gives `Quit`.

## 4. The proofs

Proved with TLAPS, for every value of the constants that the named assumptions
allow (`TokenAssumption`, `ListAssumption`, `LoopAssumption`, `PingAssumption`,
`SweepAssumption`, `SizeAssumption`, `FramingAssumption`, `ParameterAssumption`,
`ProgramAssumption`; TLC evaluates them in the runs):

* `IrcServer_proofs`: `Invariance` (`Spec => []IInv`), `UniqueNicknames`,
  `NoDanglingClients`, `ChannelsLiveWithMembers`, `NoEntryWithoutPassword`,
  `OplessChannelsAreFrozen`, the refinement `ServerImplementsSessions`, and of what
  clients were told `ViewInvariance`, `ViewsAlwaysAgree`, `NobodyConfused`,
  `TypesAreKept`.
* `EventLoop_proofs`: `Invariance`, `NoStaleEvent`, `NoInputAfterTeardown`,
  `DeferredCloseHasOutput`, `NoLostWakeups`, and `LoopImplementsSessions`.
* `Framing_proofs`: `Invariance`, `Cleanness`, `Boundedness`, and the refinement
  `FramesAsOneStream` (`Spec => Stream!SafeSpec`).
* `ModeString_proofs`: `Types`, `LinesAlwaysFit`, `ParametersAreAccountedFor`,
  `NobodyEverStarves`, `LinesAlwaysTell`.
* `ProgramMatcher_proofs`: `Invariance`, `MachineDecides` (`Spec =>
  []DecidesItsProgram`), `CapturesAreOfOneRun`, `NeverAcceptsWrongly`,
  `ThreadsAreBounded`.
* `PingTimeout_proofs`: `Invariance`, `Bounded`, `Grace`.
* `FileTransfer_proofs`: `Invariance`, `BooksAlwaysAgree`, `OnePerPair`,
  `GoesForward`.

The inductive invariants, and why the properties alone do not do:

* *IrcServer.* A nickname is unique only if an unused descriptor has none; a
  registered client has one; and a handler loop's client must still be
  registered, and on the channel whose modes it changes, for its next turn.
* *Channels without operators.* `OplessIsFrozen` is about every step, those of a MODE
  included. A MODE changes a channel only if it was begun by an operator, and when
  it finds none any more, it has itself taken the last bit: `ModeInv` says that a MODE
  with letters left has an operator on its channel or a `-o` among the changes done.
* *What clients were told.* `ViewsAgree` speaks of the moments between two
  handlers; inside one the lines already sent and those still due must together
  come to the state. `ViewInv` says so for every moment: each client's picture is
  the channel, except that while a MODE runs the announcements it still owes
  (`CatchesUp`) separate the two, and that JOIN 0 leaves its channels one by one.
  `NobodyConfused` follows: a line that fits the channel fits the picture of it.
* *EventLoop.* `EventsAreCurrent` is preserved because a handler closes only its
  own descriptor, whose events it has taken; the sweeps, which close others, run
  with an empty batch. `NoLostWakeup` needs that a free descriptor has no output.
  The proofs abstract what a handler does to the client map into `Handles` (one
  session moves) and `Sweeps` (any may), and show each action to be one of them.
* *Framing.* A message is clean only if the word being scanned is, and no longer
  than a line only because word and rest of the line together are; the buffer is
  bounded between two reads because the loop over lines leaves neither an LF nor
  more than a line in it, which is what the next read adds to.
* *One stream.* `StreamInv` splits what has arrived into the octets that left the
  buffer and the buffer. The one pass of `LineStream` over the first part stands at
  the beginning of a line, or past its limit while the rest is skipped; its pieces
  are the messages handled and waiting. During a scan the pieces are those of a
  shorter prefix, and the rest of the line makes up the difference. The lemmas
  `WithinLine` and `BeyondLine` say what octets without an LF do to the pass, by
  induction on the octets.
* *ModeString.* The lines fit because the one being built does before each change
  (`FitInv`). Nobody starves because the parameters left are at least as many as
  the letters left that need one, if they were at the start (`StarveInv`); that
  `paramsRequiredFrom` counts these letters is proved by induction along the mode
  string. The lines tell the modes because a reader of the lines built so far is
  always at the modes after the changes rendered so far (`ToldInv`), which holds
  traces of the reader, one for each of the recursive functions it is defined by.
* *ProgramMatcher.* The machine keeps a list of threads and enters an instruction
  once per position; `Accepts` follows single runs and has no marks. `Reachable` is
  shown to be the least set of runs with the first one and closed under `Moves`
  (`ReachableIsLeast`), and the threads that `addThreads` adds to be at the waiting
  instructions of the least closed set that has its calls (`AddThreadsLeast`),
  provided no instruction bears the new stamp yet. The second needs that the calls
  end: those left and twice the instructions not entered go down with every turn
  (`Left`, `TurnsEnd`), and the recursive function has a value for the same reason
  (`LoopExists`). Hence `InStep`: the threads are at exactly the waiting
  instructions some run reaches at this position, and no mark is newer than the
  counter, which is why the next stamp is fresh, until the counter comes round. A
  set of threads that runs empty, or has none at Match in the end, is then a
  refusal (`NobodyWaits`, `AcceptsAtEnd`). What needs no fresh stamp is proved
  without that condition: marks only ever drop threads, so each thread is at a run
  with the slots of that run (`AtRuns`), accepted lines are accepted rightly and
  captured from one run, and no instruction has two threads. `ProgramAssumption`
  asks that no instruction leads outside the code; TLC evaluates it for every
  program the compiler writes in the run. With `MachineDecides`,
  `ReadsTheLanguage` comes down to the compiler alone: `Accepts` of what it writes
  is the language.
* *PingTimeout.* What is bounded is silence at the last sweep; the ages since are
  added to it. `SweepAssumption` says a sweep comes round within the timeout.
* *FileTransfer.* The books agree only if both parties of every transfer are
  open sessions and different ones, if the next id is unknown to everybody, and
  if at most one transfer joins a pair.

Facts about recursive functions rest on `Induction_proofs`: the library's induction
theorems take an operator as their parameter, which the provers cannot instantiate,
so it derives induction on the naturals and on sequences with a set in its place
from the well-foundedness of `<`. A recursive function is shown to exist by a
witness built along the same induction, and to be the only one that takes its steps
(`SameSteps`); a loop whose steps lower a measure has a result (`LoopExists`).

`ParameterAssumption` says of the tables of parameters what the code's types say:
parameters are strings, the empty one is no valid key and no member's nickname, and
a limit that was read and written again reads the same.

Only model-checked: all liveness (`loop_liveness`, `StalledEnds`, and in
`AsOneStream` that every complete message is handled), which is out of the prover's
reach; and, of the grammar engine, what depends on the shape of the trees:

* `ReadsTheLanguage`, `MatchersAgree`: the compiler and the tree walk;
* `ParamsAsSplit`, `HandlersReadWhatIsSent`: the captures of particular
  productions, compiled;
* `RefusedForCause`, `ReadyTerminates`, `BuildsWhatIsWritten`, `LanguagesGrow`: the
  parser, the validator, the tree walk and the meaning of the notation.

All of these are mutually recursive over trees of any shape and written with
RECURSIVE operators, for which the prover has no backend, and induction over such
trees is out of its reach. Which run the captures of the compiled matcher come from
when several accept (the order of the threads) is model-checked only, as part of
`MatchersAgree`.

## 5. What is not modelled

The characters below the tokens of an ABNF file; `bindCommandRules` and
`verifyCommandTable`, which refuse to start a server whose table and grammar
differ (`Commands` has one name for both); comma lists as text, which arrive in
`IrcServer` as lists; wording and numerics of replies beyond those of
`Commands`; the replies of WHO, WHOIS and USERHOST and the lines of NAMES, which
only read; the bot, whose state is the next joke; logs and traces; start-up;
memory exhaustion other than in `acceptClient`; the vendored test reporter. Byte
counts of send queues are lines, and of files a number of at most a few.

## 6. Plan

Done, in this order: the sessions and channels, the event loop with the abstract
`Sessions`, the idle timer, file transfers, MODE strings, the grammar engine; then
`Framing` with the abstract `LineStream`, the text level of the grammar builder,
the command productions and what the handlers read, and the end of the process;
then the proofs of what clients are told, of MODE strings, of one stream and of
the compiled matcher. Left:

1. Proofs: that the captures are those of the run with the highest priority; the
   validator, on an arena of numbered nodes, where induction is on numbers; and what
   `GrammarBuilder` keeps from line to line, with the parser as a constant.
2. A composition of `EventLoop` and `IrcServer` in which teardown, farewell lines
   and descriptor reuse happen together.
3. `Channel::getNamesChunks`, whose lines have a limit as those of MODE do.
