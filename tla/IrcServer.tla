------------------------------ MODULE IrcServer ------------------------------
(***************************************************************************)
(* Sessions and channels of the server: the registration handshake, the    *)
(* channel commands and the teardown of a leaving client, as one state     *)
(* machine over Server::_clients and Server::_channels.                    *)
(*                                                                         *)
(* The process is single threaded: a handler runs to its end before the    *)
(* next event.  A handler that loops over a list (JOIN, PART, MODE) is one *)
(* step per turn of the loop; `job' is its loop state, and while it is not *)
(* Idle nothing else runs.  A command that ends in an error numeric leaves *)
(* this state alone, so its early returns are the guards of the action.    *)
(*                                                                         *)
(* Send buffers are EventLoop's subject.  Here every line that a handler   *)
(* queues is at once heard by its receiver: `view' is what a client that   *)
(* reads its lines must believe about the channels it is on.               *)
(***************************************************************************)
EXTENDS Naturals, Sequences, FiniteSets

CONSTANTS
    Fd,          \* descriptors the kernel hands out; freed ones are reused
    Channel,     \* channel names, after ircToLower
    BadChannel,  \* a name isValidChannelName refuses
    Token,       \* every other parameter a client can send
    ValidNick,   \* tokens isValidNickname accepts
    ValidKey,    \* tokens isValidChannelKey accepts
    Reserved,    \* nicknames an extension reserves (the bot's), folded
    Fold,        \* ircToLower on tokens
    Truncate,    \* a valid nickname cut to MAX_NICKLEN
    LimitOf,     \* parse_long(token, 1, MAX_USERLIMIT); 0 where it fails
    Star,        \* "*", the nickname of a client that has not sent NICK
    Empty,       \* the empty string: no key, no topic, a missing parameter
    Password,    \* the server's password
    Passwords,   \* the passwords clients send
    Topics,      \* the topics clients set, Empty among them to clear it
    MaxClients,  \* MAX_CLIENTS
    JoinLists,   \* the channel lists a JOIN may carry, with a key for each
    PartLists,   \* the channel lists a PART may carry
    ModeStrings  \* the changes a MODE may ask for, in order

Change == [add : BOOLEAN, letter : {"i", "t", "k", "o", "l", "unknown"},
           arg : Token \cup {Empty}]

ASSUME TokenAssumption ==
    /\ Star \notin Token /\ Empty \notin Token /\ Star # Empty
    /\ ValidNick \subseteq Token /\ ValidKey \subseteq Token
    /\ Password \in Token /\ Passwords \subseteq Token
    /\ Topics \subseteq Token \cup {Empty}
    /\ Fold \in [Token \cup {Star, Empty} -> Token \cup {Star, Empty}]
    /\ \A t \in Token : Fold[t] \in Token
    /\ Fold[Star] = Star /\ Fold[Empty] = Empty
    /\ Truncate \in [ValidNick -> ValidNick]
    /\ LimitOf \in [Token \cup {Empty} -> Nat]

ASSUME ListAssumption ==
    /\ BadChannel \notin Channel
    /\ JoinLists \subseteq Seq((Channel \cup {BadChannel}) \X (Token \cup {Empty}))
    /\ PartLists \subseteq Seq(Channel)
    /\ ModeStrings \subseteq Seq(Change)
    /\ MaxClients \in Nat

VARIABLES
    conn,     \* keys of _clients
    tearing,  \* _tearingDown: left its channels, its last lines still draining
    reg,      \* _registered
    pass,     \* _password, Empty until _passSent
    user,     \* _userSet
    nick,     \* _nickname; _nickSet is nick # Star
    chan,     \* _channels; NoChannel where the map has no entry
    job,      \* the handler loop in progress
    view      \* what each client believes from the lines queued to it

session == <<conn, tearing, reg, pass, user, nick>>
vars == <<conn, tearing, reg, pass, user, nick, chan, job, view>>

-----------------------------------------------------------------------------
(* Channel objects.                                                        *)

NoModes == [i |-> FALSE, t |-> FALSE, k |-> Empty, l |-> 0]

NoChannel == [live |-> FALSE, members |-> {}, ops |-> {}, invites |-> {},
              modes |-> NoModes, topic |-> Empty]

NewChannel(c) == [NoChannel EXCEPT !.live = TRUE, !.members = {c}, !.ops = {c}]

removeMember(r, c) == [r EXCEPT !.members = @ \ {c}, !.ops = @ \ {c}]

removeInvite(r, c) == [r EXCEPT !.invites = @ \ {c}]

(* Faulty: an empty channel stays in the map.                              *)
removeIfEmpty_never(r) == r

removeIfEmpty(r) == IF r.members = {} THEN NoChannel ELSE r

ModesType == [i : BOOLEAN, t : BOOLEAN, k : Token \cup {Empty}, l : Nat]

ChannelType == [live : BOOLEAN, members : SUBSET Fd, ops : SUBSET Fd,
                invites : SUBSET Fd, modes : ModesType, topic : Token \cup {Empty}]

(***************************************************************************)
(* A client's picture, built from the lines it was sent: its own nickname, *)
(* and per channel the names, the operators, the modes and the topic.      *)
(* `ok' turns FALSE on a line that makes no sense to it: about a channel   *)
(* it is not on, a nickname it does not know or one that is there already. *)
(***************************************************************************)
Nowhere == [on |-> FALSE, who |-> {}, ops |-> {}, modes |-> NoModes, topic |-> Empty]

Stranger == [me |-> Star, ok |-> TRUE, at |-> [ch \in Channel |-> Nowhere]]

Forget(p, n) == [p EXCEPT !.who = @ \ {n}, !.ops = @ \ {n}]

Swap(S, n, m) == IF n \in S THEN (S \ {n}) \cup {m} ELSE S

Rename(p, n, m) == [p EXCEPT !.who = Swap(@, n, m), !.ops = Swap(@, n, m)]

Knows(v, n) == \E ch \in Channel : n \in v.at[ch].who

SetMode(m, x) ==
    CASE x.letter = "i" -> [m EXCEPT !.i = x.add]
      [] x.letter = "t" -> [m EXCEPT !.t = x.add]
      [] x.letter = "k" -> [m EXCEPT !.k = IF x.add THEN x.arg ELSE Empty]
      [] x.letter = "l" -> [m EXCEPT !.l = IF x.add THEN LimitOf[x.arg] ELSE 0]
      [] OTHER -> m

HearJoin(v, n, ch) ==
    IF n = v.me
    THEN [v EXCEPT !.ok = @ /\ ~v.at[ch].on, !.at[ch] = [Nowhere EXCEPT !.on = TRUE]]
    ELSE [v EXCEPT !.ok = @ /\ v.at[ch].on /\ n \notin v.at[ch].who,
                   !.at[ch].who = @ \cup {n}]

HearPart(v, n, ch) ==
    [v EXCEPT !.ok = @ /\ v.at[ch].on /\ n \in v.at[ch].who,
              !.at[ch] = IF n = v.me THEN Nowhere ELSE Forget(@, n)]

HearQuit(v, n) ==
    [v EXCEPT !.ok = @ /\ Knows(v, n),
              !.at = [ch \in Channel |-> Forget(v.at[ch], n)]]

HearNick(v, n, m) ==
    [v EXCEPT !.ok = @ /\ (n = v.me \/ Knows(v, n)) /\ (n # m => ~Knows(v, m)),
              !.me = IF n = v.me THEN m ELSE @,
              !.at = [ch \in Channel |-> Rename(v.at[ch], n, m)]]

HearMode(v, ch, x) ==
    IF x.letter = "o"
    THEN [v EXCEPT !.ok = @ /\ v.at[ch].on /\ x.arg \in v.at[ch].who,
                   !.at[ch].ops = IF x.add THEN @ \cup {x.arg} ELSE @ \ {x.arg}]
    ELSE [v EXCEPT !.ok = @ /\ v.at[ch].on, !.at[ch].modes = SetMode(@, x)]

HearTopic(v, ch, t) == [v EXCEPT !.ok = @ /\ v.at[ch].on, !.at[ch].topic = t]

HearText(v, n, ch) == [v EXCEPT !.ok = @ /\ v.at[ch].on /\ n \in v.at[ch].who]

(* 331/332, 353 and 324, the replies that follow a client's own JOIN.       *)
HearBurst(v, ch, r) ==
    [v EXCEPT !.at[ch] = [on |-> TRUE, who |-> {nick[m] : m \in r.members},
                          ops |-> {nick[m] : m \in r.ops},
                          modes |-> r.modes, topic |-> r.topic]]

Heard(S, Hear(_)) == [d \in Fd |-> IF d \in S THEN Hear(view[d]) ELSE view[d]]

-----------------------------------------------------------------------------
(* Lookups.                                                                *)

ircEquals(a, b) == Fold[a] = Fold[b]

Live == conn \ tearing

(* Faulty: only registered clients are looked at, as in findClientByNick.  *)
isNickInUse_registered(n, c) == \E d \in (reg \ tearing) \ {c} : ircEquals(nick[d], n)

isNickInUse(n, c) == \E d \in Live \ {c} : ircEquals(nick[d], n)

findClientByNick(n) == {d \in reg \ tearing : ircEquals(nick[d], n)}

findMember(ch, n) == {m \in chan[ch].members : ircEquals(nick[m], n)}

OnChannels(c) == {ch \in Channel : c \in chan[ch].members}

Peers(c) == (UNION {chan[ch].members : ch \in OnChannels(c)}) \ {c}

(* Loop states of the handlers that walk a list.                           *)
Idle == [op |-> "idle"]

JobType ==
    {Idle}
    \cup [op : {"join"}, by : Fd,
          rest : Seq((Channel \cup {BadChannel}) \X (Token \cup {Empty}))]
    \cup [op : {"part"}, by : Fd, rest : Seq(Channel)]
    \cup [op : {"partAll"}, by : Fd, rest : SUBSET Channel]
    \cup [op : {"mode"}, by : Fd, ch : Channel, rest : Seq(Change)
                                                       , done : Seq(Change)]

(* A client whose input is read: connected and not draining its last lines. *)
Ready(c) == job = Idle /\ c \in Live

(* dispatchCommand lets the commands of a registered client through.        *)
Registered(c) == Ready(c) /\ c \in reg

-----------------------------------------------------------------------------
(* Connecting, leaving.                                                    *)

Init ==
    /\ conn = {} /\ tearing = {} /\ reg = {} /\ user = {}
    /\ pass = [c \in Fd |-> Empty]
    /\ nick = [c \in Fd |-> Star]
    /\ chan = [ch \in Channel |-> NoChannel]
    /\ job = Idle
    /\ view = [c \in Fd |-> Stranger]

(* Faulty: the descriptor of a client still draining is handed out again.  *)
acceptClient_reuses(c) ==
    /\ job = Idle
    /\ c \notin Live
    /\ Cardinality(conn) < MaxClients
    /\ conn' = conn \cup {c} /\ tearing' = tearing \ {c}
    /\ UNCHANGED <<reg, pass, user, nick, chan, job, view>>

acceptClient(c) ==
    /\ job = Idle
    /\ c \notin conn
    /\ Cardinality(conn) < MaxClients
    /\ conn' = conn \cup {c}
    /\ UNCHANGED <<tearing, reg, pass, user, nick, chan, job, view>>

(* Faulty: invitations are revoked only where c is a member.               *)
ChannelsWithout_invited(c) ==
    [ch \in Channel |->
        IF c \in chan[ch].members
        THEN removeIfEmpty(removeMember(removeInvite(chan[ch], c), c))
        ELSE chan[ch]]

(* Channels of the server once c is out of them: its invitations go with it *)
(* and a channel it leaves empty is deleted.                                *)
ChannelsWithout(c) ==
    [ch \in Channel |->
        IF c \in chan[ch].members
        THEN removeIfEmpty(removeMember(removeInvite(chan[ch], c), c))
        ELSE removeInvite(chan[ch], c)]

(* Faulty: a QUIT for every shared channel.                                *)
teardownClientState_perChannel(c, n) ==
    LET Shared(d) == {ch \in OnChannels(c) : d \in chan[ch].members}
        Once(v) == HearQuit(v, n)
        Told(d) == IF Cardinality(Shared(d)) > 1 THEN Once(Once(view[d])) ELSE Once(view[d])
    IN  /\ chan' = ChannelsWithout(c)
        /\ view' = [d \in Fd |-> IF d = c THEN Stranger
                                ELSE IF d \in Peers(c) THEN Told(d) ELSE view[d]]

(* Each peer hears one QUIT, however many channels they share.              *)
teardownClientState(c, n) ==
    LET Hear(v) == HearQuit(v, n)
    IN  /\ chan' = ChannelsWithout(c)
        /\ view' = [Heard(Peers(c), Hear) EXCEPT ![c] = Stranger]

(* The Client object is destroyed; its descriptor may come back as another. *)
Forgotten(c) ==
    /\ conn' = conn \ {c} /\ tearing' = tearing \ {c}
    /\ reg' = reg \ {c} /\ user' = user \ {c}
    /\ pass' = [pass EXCEPT ![c] = Empty]
    /\ nick' = [nick EXCEPT ![c] = Star]

finalizeDisconnect(c) ==
    /\ job = Idle
    /\ c \in tearing
    /\ Forgotten(c)
    /\ UNCHANGED <<chan, job, view>>

(* QUIT, a closed connection and a ping timeout: the client leaves its      *)
(* channels at once, the object stays while lines of it wait to be sent.    *)
disconnectClient(c) ==
    /\ Ready(c)
    /\ teardownClientState(c, nick[c])
    /\ \/ Forgotten(c)
       \/ tearing' = tearing \cup {c} /\ UNCHANGED <<conn, reg, pass, user, nick>>
    /\ UNCHANGED job

(* A socket error or an exceeded send queue: nothing is waited for.         *)
disconnectClientNow(c) ==
    /\ Ready(c)
    /\ teardownClientState(c, nick[c])
    /\ Forgotten(c)
    /\ UNCHANGED job

-----------------------------------------------------------------------------
(* Registration.                                                           *)

(* Faulty: PASS is taken after registration, too.                          *)
cmdPass_anytime(c, p) ==
    /\ Ready(c)
    /\ pass' = [pass EXCEPT ![c] = p]
    /\ UNCHANGED <<conn, tearing, reg, user, nick, chan, job, view>>

cmdPass(c, p) ==
    /\ Ready(c)
    /\ c \notin reg
    /\ pass' = [pass EXCEPT ![c] = p]
    /\ UNCHANGED <<conn, tearing, reg, user, nick, chan, job, view>>

(* With both NICK and USER in, the password decides: in, or out after a 464 *)
(* that is still to be sent.                                                *)
completeRegistration(c, n) ==
    \/ /\ pass[c] = Password
       /\ reg' = reg \cup {c}
       /\ view' = [view EXCEPT ![c].me = n]
       /\ UNCHANGED <<tearing, chan>>
    \/ /\ pass[c] # Password
       /\ teardownClientState(c, n)
       /\ tearing' = tearing \cup {c}
       /\ UNCHANGED reg

(* Faulty: the nickname is looked up before it is cut.                     *)
AcceptableNick_uncut(c, raw) ==
    /\ raw \in ValidNick
    /\ ~isNickInUse(raw, c)
    /\ Fold[Truncate[raw]] \notin Reserved

AcceptableNick(c, raw) ==
    /\ raw \in ValidNick
    /\ ~isNickInUse(Truncate[raw], c)
    /\ Fold[Truncate[raw]] \notin Reserved

(* NICK before registration is complete.                                   *)
cmdNickUnregistered(c, raw) ==
    /\ Ready(c) /\ c \notin reg
    /\ AcceptableNick(c, raw)
    /\ nick' = [nick EXCEPT ![c] = Truncate[raw]]
    /\ \/ c \in user /\ completeRegistration(c, Truncate[raw])
       \/ c \notin user /\ UNCHANGED <<tearing, reg, chan, view>>
    /\ UNCHANGED <<conn, pass, user, job>>

(* NICK of a registered client: it and each peer hear the change once.     *)
cmdNickRegistered(c, raw) ==
    LET n == Truncate[raw]
        Hear(v) == HearNick(v, nick[c], n)
    IN  /\ Registered(c)
        /\ AcceptableNick(c, raw)
        /\ nick' = [nick EXCEPT ![c] = n]
        /\ view' = Heard(Peers(c) \cup {c}, Hear)
        /\ UNCHANGED <<conn, tearing, reg, pass, user, chan, job>>

cmdUser(c) ==
    /\ Ready(c)
    /\ c \notin reg
    /\ user' = user \cup {c}
    /\ \/ nick[c] # Star /\ completeRegistration(c, nick[c])
       \/ nick[c] = Star /\ UNCHANGED <<tearing, reg, chan, view>>
    /\ UNCHANGED <<conn, pass, nick, job>>

-----------------------------------------------------------------------------
(* JOIN and PART.                                                          *)

cmdJoin(c, list) ==
    /\ Registered(c)
    /\ job' = [op |-> "join", by |-> c, rest |-> list]
    /\ UNCHANGED <<session, chan, view>>

MayJoin(c, r, key) ==
    /\ r.modes.i => c \in r.invites
    /\ r.modes.k = Empty \/ r.modes.k = key
    /\ r.modes.l > 0 => Cardinality(r.members) < r.modes.l

(* addMember and removeInvite on an existing channel, createChannel else.  *)
Joined(c, r) ==
    IF r.live
    THEN removeInvite([r EXCEPT !.members = @ \cup {c}], c)
    ELSE NewChannel(c)

(* The member hears JOIN with the others and is then told of the channel.  *)
JoinChannel(c, ch, key) ==
    LET r == Joined(c, chan[ch])
        Hear(v) == HearJoin(v, nick[c], ch)
    IN  /\ chan[ch].live => c \notin chan[ch].members /\ MayJoin(c, chan[ch], key)
        /\ chan' = [chan EXCEPT ![ch] = r]
        /\ view' = [Heard(r.members, Hear) EXCEPT ![c] = HearBurst(@, ch, r)]

(* A name already joined is skipped, a closed door is answered, and so is a *)
(* channel that createChannel finds no memory for.                          *)
SkipJoin(c, ch, key) ==
    /\ chan[ch].live => c \in chan[ch].members \/ ~MayJoin(c, chan[ch], key)
    /\ UNCHANGED <<chan, view>>

NextJoin ==
    /\ job.op = "join" /\ job.rest # <<>>
    /\ LET ch == Head(job.rest)[1]
           key == Head(job.rest)[2]
       IN  \/ ch # BadChannel /\ JoinChannel(job.by, ch, key)
           \/ ch # BadChannel /\ SkipJoin(job.by, ch, key)
           \/ ch = BadChannel /\ UNCHANGED <<chan, view>>
    /\ job' = [job EXCEPT !.rest = Tail(@)]
    /\ UNCHANGED session

cmdPart(c, list) ==
    /\ Registered(c)
    /\ job' = [op |-> "part", by |-> c, rest |-> list]
    /\ UNCHANGED <<session, chan, view>>

(* JOIN 0: the channels are listed first, then left one after another.     *)
partAllChannels(c) ==
    /\ Registered(c)
    /\ job' = [op |-> "partAll", by |-> c, rest |-> OnChannels(c)]
    /\ UNCHANGED <<session, chan, view>>

(* PART is sent while the leaver is still a member, so it hears it too.    *)
PartChannel(c, ch) ==
    LET Hear(v) == HearPart(v, nick[c], ch)
    IN  /\ view' = Heard(chan[ch].members, Hear)
        /\ chan' = [chan EXCEPT ![ch] = removeIfEmpty(removeMember(@, c))]

NextPart ==
    /\ job.op = "part" /\ job.rest # <<>>
    /\ LET ch == Head(job.rest)
       IN  \/ job.by \in chan[ch].members /\ PartChannel(job.by, ch)
           \/ job.by \notin chan[ch].members /\ UNCHANGED <<chan, view>>
    /\ job' = [job EXCEPT !.rest = Tail(@)]
    /\ UNCHANGED session

NextPartAll ==
    /\ job.op = "partAll"
    /\ \E ch \in job.rest :
        /\ PartChannel(job.by, ch)
        /\ job' = [job EXCEPT !.rest = @ \ {ch}]
    /\ UNCHANGED session

-----------------------------------------------------------------------------
(* KICK, INVITE, TOPIC, PRIVMSG and NOTICE.                                *)

(* Faulty: the target is removed first and does not hear the KICK.         *)
cmdKick_removesFirst(c, ch, n) ==
    /\ Registered(c)
    /\ c \in chan[ch].members /\ c \in chan[ch].ops
    /\ \E t \in findMember(ch, n) :
        LET Hear(v) == HearPart(v, nick[t], ch)
        IN  /\ view' = Heard(chan[ch].members \ {t}, Hear)
            /\ chan' = [chan EXCEPT ![ch] = removeIfEmpty(removeMember(@, t))]
    /\ UNCHANGED <<session, job>>

(* KICK, too, is sent before the member is removed.                        *)
cmdKick(c, ch, n) ==
    /\ Registered(c)
    /\ c \in chan[ch].members /\ c \in chan[ch].ops
    /\ \E t \in findMember(ch, n) :
        LET Hear(v) == HearPart(v, nick[t], ch)
        IN  /\ view' = Heard(chan[ch].members, Hear)
            /\ chan' = [chan EXCEPT ![ch] = removeIfEmpty(removeMember(@, t))]
    /\ UNCHANGED <<session, job>>

cmdInvite(c, ch, n) ==
    /\ Registered(c)
    /\ c \in chan[ch].members
    /\ chan[ch].modes.i => c \in chan[ch].ops
    /\ \E t \in findClientByNick(n) \ chan[ch].members :
        chan' = [chan EXCEPT ![ch].invites = @ \cup {t}]
    /\ UNCHANGED <<session, job, view>>

cmdTopic(c, ch, t) ==
    LET Hear(v) == HearTopic(v, ch, t)
    IN  /\ Registered(c)
        /\ c \in chan[ch].members
        /\ chan[ch].modes.t => c \in chan[ch].ops
        /\ chan' = [chan EXCEPT ![ch].topic = t]
        /\ view' = Heard(chan[ch].members, Hear)
        /\ UNCHANGED <<session, job>>

(* A line of text to a channel: to every member but its sender.            *)
ChannelText(c, ch) ==
    LET Hear(v) == HearText(v, nick[c], ch)
    IN  /\ Registered(c)
        /\ c \in chan[ch].members
        /\ view' = Heard(chan[ch].members \ {c}, Hear)
        /\ UNCHANGED <<session, chan, job>>

-----------------------------------------------------------------------------
(* MODE on a channel.  Membership and operator status are looked at once,   *)
(* before the loop; the changes made are announced after it, in as many     *)
(* lines as renderModeLines needs (one a change here).                      *)

(* Faulty: any member may change the modes.                                *)
handleChannelMode_anyMember(c, ch, changes) ==
    /\ Registered(c)
    /\ c \in chan[ch].members
    /\ job' = [op |-> "mode", by |-> c, ch |-> ch, rest |-> changes, done |-> <<>>]
    /\ UNCHANGED <<session, chan, view>>

handleChannelMode(c, ch, changes) ==
    /\ Registered(c)
    /\ c \in chan[ch].members /\ c \in chan[ch].ops
    /\ job' = [op |-> "mode", by |-> c, ch |-> ch, rest |-> changes, done |-> <<>>]
    /\ UNCHANGED <<session, chan, view>>

ApplicableMode(x) ==
    CASE x.letter \in {"i", "t"} -> TRUE
      [] x.letter = "k" -> x.add => x.arg \in ValidKey
      [] x.letter = "l" -> x.add => LimitOf[x.arg] > 0
      [] OTHER -> FALSE

(* One turn of the loop, for a letter that needs no member.                *)
ApplyMode(x) ==
    /\ ApplicableMode(x)
    /\ chan' = [chan EXCEPT ![job.ch].modes = SetMode(@, x)]
    /\ job' = [job EXCEPT !.rest = Tail(@), !.done = Append(@, x)]

(* One turn of the loop for +o and -o, with the nickname as it is spelled. *)
ApplyOp(x) ==
    /\ x.letter = "o"
    /\ \E t \in findMember(job.ch, x.arg) :
        /\ chan' = [chan EXCEPT ![job.ch].ops = IF x.add THEN @ \cup {t} ELSE @ \ {t}]
        /\ job' = [job EXCEPT !.rest = Tail(@),
                              !.done = Append(@, [x EXCEPT !.arg = nick[t]])]

RefuseMode(x) ==
    /\ ~ApplicableMode(x)
    /\ x.letter = "o" => findMember(job.ch, x.arg) = {}
    /\ job' = [job EXCEPT !.rest = Tail(@)]
    /\ UNCHANGED chan

NextMode ==
    /\ job.op = "mode" /\ job.rest # <<>>
    /\ LET x == Head(job.rest) IN ApplyMode(x) \/ ApplyOp(x) \/ RefuseMode(x)
    /\ UNCHANGED <<session, view>>

broadcastModeChanges ==
    /\ job.op = "mode" /\ job.rest = <<>>
    /\ job.done # <<>>
    /\ LET Hear(v) == HearMode(v, job.ch, Head(job.done))
       IN  view' = Heard(chan[job.ch].members, Hear)
    /\ job' = [job EXCEPT !.done = Tail(@)]
    /\ UNCHANGED <<session, chan>>

EndOfHandler ==
    /\ job # Idle
    /\ IF job.op = "partAll" THEN job.rest = {} ELSE job.rest = <<>>
    /\ job.op = "mode" => job.done = <<>>
    /\ job' = Idle
    /\ UNCHANGED <<session, chan, view>>

-----------------------------------------------------------------------------
Command(c) ==
    \/ \E p \in Passwords : cmdPass(c, p)
    \/ \E raw \in ValidNick : cmdNickUnregistered(c, raw)
    \/ \E raw \in ValidNick : cmdNickRegistered(c, raw)
    \/ cmdUser(c)
    \/ \E list \in JoinLists : cmdJoin(c, list)
    \/ \E list \in PartLists : cmdPart(c, list)
    \/ partAllChannels(c)
    \/ \E ch \in Channel :
        \/ \E n \in ValidNick : cmdKick(c, ch, n)
        \/ \E n \in ValidNick : cmdInvite(c, ch, n)
        \/ \E t \in Topics : cmdTopic(c, ch, t)
        \/ ChannelText(c, ch)
        \/ \E changes \in ModeStrings : handleChannelMode(c, ch, changes)

Connection(c) ==
    \/ acceptClient(c)
    \/ disconnectClient(c)
    \/ disconnectClientNow(c)
    \/ finalizeDisconnect(c)

Handler ==
    \/ NextJoin
    \/ NextPart
    \/ NextPartAll
    \/ NextMode
    \/ broadcastModeChanges
    \/ EndOfHandler

Next == Handler \/ \E c \in Fd : Command(c) \/ Connection(c)

Spec == Init /\ [][Next]_vars

-----------------------------------------------------------------------------
(* Correctness.                                                            *)

PictureType == [on : BOOLEAN, who : SUBSET (Token \cup {Star}),
                ops : SUBSET (Token \cup {Star}), modes : ModesType,
                topic : Token \cup {Empty}]

ViewType == [me : Token \cup {Star}, ok : BOOLEAN, at : [Channel -> PictureType]]

ServerTypeOK ==
    /\ conn \subseteq Fd /\ tearing \subseteq conn
    /\ reg \subseteq conn /\ user \subseteq conn
    /\ pass \in [Fd -> Token \cup {Empty}]
    /\ nick \in [Fd -> Token \cup {Star}]
    /\ chan \in [Channel -> ChannelType]
    /\ job \in JobType

(* Every variable keeps its type: the maps of Server, the loop state and   *)
(* the clients' pictures; nothing is kept for a client that is gone.       *)
TypeOK == ServerTypeOK /\ view \in [Fd -> ViewType]

(* No two live clients hold nicknames that the server's case folding       *)
(* identifies, registered or not, although a nickname is cut to its length *)
(* limit on the way in and a leaving client gives its own up early         *)
(* (cmdNick, isNickInUse).                                                 *)
NickUnique ==
    \A c, d \in Live : c # d /\ nick[c] # Star => ~ircEquals(nick[c], nick[d])

(* A channel refers only to registered clients that have not begun to      *)
(* leave: no member pointer dangles, and no operator bit or invitation is  *)
(* there for the next connection on the same descriptor to inherit         *)
(* (teardownClientState).  Operators are members; an invitation is used up *)
(* by joining.                                                             *)
NoStaleReference ==
    \A ch \in Channel :
        /\ chan[ch].members \cup chan[ch].invites \subseteq reg \ tearing
        /\ chan[ch].ops \subseteq chan[ch].members
        /\ chan[ch].invites \cap chan[ch].members = {}

(* A channel exists exactly while it has members, whichever way the last   *)
(* one goes: PART, JOIN 0, KICK (of oneself too), or disconnection.  A     *)
(* channel that has gone leaves no mode, topic or invitation behind.       *)
ChannelLivesWithMembers ==
    \A ch \in Channel :
        IF chan[ch].live THEN chan[ch].members # {} ELSE chan[ch] = NoChannel

(* Whoever is registered last gave the server's password, in whatever      *)
(* order and however often PASS, NICK and USER came (completeRegistration, *)
(* cmdPass).                                                               *)
PasswordChecked == \A c \in reg : pass[c] = Password

(* The inductive invariant behind the four above.  A descriptor not in use *)
(* is as the Client constructor will leave it, whoever is registered has a *)
(* nickname, and the client whose handler is running is still there, on    *)
(* the channel whose modes it changes.                                     *)
IInv ==
    /\ ServerTypeOK
    /\ NickUnique
    /\ NoStaleReference
    /\ ChannelLivesWithMembers
    /\ PasswordChecked
    /\ \A c \in Fd \ conn : nick[c] = Star
    /\ \A c \in reg : nick[c] # Star
    /\ job # Idle => job.by \in reg \ tearing
    /\ job.op = "mode" => job.by \in chan[job.ch].members

(* Between two handlers, every registered client's picture of each channel *)
(* is the channel: a member knows exactly the members, operators, modes    *)
(* and topic, and a client that was kicked, parted or never joined knows   *)
(* it is not there.  This is about which lines each handler sends, to      *)
(* whom, and whether before or after the state changes.                    *)
ViewsAgree ==
    job = Idle =>
        \A c \in reg \ tearing :
            /\ view[c].me = nick[c]
            /\ \A ch \in Channel :
                view[c].at[ch] =
                    IF c \in chan[ch].members
                    THEN [on |-> TRUE, who |-> {nick[m] : m \in chan[ch].members},
                          ops |-> {nick[m] : m \in chan[ch].ops},
                          modes |-> chan[ch].modes, topic |-> chan[ch].topic]
                    ELSE Nowhere

(* No client is ever sent a line it cannot place: a QUIT or NICK for       *)
(* somebody it does not share a channel with or has already seen leave     *)
(* (each peer is told once, however many channels are shared), a JOIN for  *)
(* a name already there, a PART, MODE, TOPIC or text for a channel it is   *)
(* not on (broadcastToChannels, teardownClientState, broadcastMessage).    *)
NeverConfused == \A c \in Fd : view[c].ok

(* The MODE that is running was begun by an operator and has itself taken  *)
(* an operator bit: its remaining letters are still obeyed.                *)
TookTheLastBit(ch) ==
    /\ job.op = "mode" /\ job.ch = ch
    /\ \E k \in DOMAIN job.done : job.done[k].letter = "o" /\ ~job.done[k].add

(* A step of one channel that has no operator: nobody becomes one, no mode *)
(* changes, and while it is +i nobody is let in but those invited before.  *)
OplessStep(ch) ==
    chan[ch].live /\ chan[ch].ops = {} /\ ~TookTheLastBit(ch) /\ chan'[ch].live =>
        /\ chan'[ch].ops = {}
        /\ chan'[ch].modes = chan[ch].modes
        /\ chan[ch].modes.i =>
            /\ chan'[ch].invites \subseteq chan[ch].invites
            /\ chan'[ch].members \subseteq chan[ch].members \cup chan[ch].invites

(* A channel whose last operator is gone is frozen until it dies: no MODE  *)
(* begins there, nobody is promoted in the operator's place, and on +i     *)
(* nobody is let in (the operator checks of handleChannelMode, cmdInvite   *)
(* and cmdKick, MayJoin, teardownClientState).  The one MODE that may find *)
(* the channel without an operator is the one that gave the last bit away. *)
OplessIsFrozen == [][\A ch \in Channel : OplessStep(ch)]_vars

-----------------------------------------------------------------------------
(* The life of a session, as Sessions promises it.                         *)
state == [c \in Fd |-> IF c \notin conn THEN "free"
                       ELSE IF c \in tearing THEN "leaving" ELSE "open"]

Life == INSTANCE Sessions WITH Fd <- Fd, state <- state

(* Sessions are opened on free descriptors only, torn down once, and a     *)
(* leaving one never comes back.                                           *)
SessionsAreSafe == Life!SafeSpec
=============================================================================
