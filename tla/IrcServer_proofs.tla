--------------------------- MODULE IrcServer_proofs ---------------------------
(***************************************************************************)
(* NickUnique, NoStaleReference, ChannelLivesWithMembers, PasswordChecked, *)
(* OplessIsFrozen, ViewsAgree and NeverConfused hold for any number of     *)
(* clients, channels and commands, and IrcServer refines Sessions.         *)
(***************************************************************************)
EXTENDS IrcServer, SequenceTheorems, TLAPS

LEMMA InitIInv == Init => IInv
  BY TokenAssumption DEF Init, IInv, ServerTypeOK, NickUnique, NoStaleReference,
     ChannelLivesWithMembers, PasswordChecked, ChannelType, ModesType, NoChannel, NoModes,
     JobType, Idle, Live

(* A nickname is never taken for the "*" of a client without one.          *)
LEMMA FoldStar == \A t \in Token : ~ircEquals(t, Star) /\ ~ircEquals(Star, t)
  BY TokenAssumption DEF ircEquals

-----------------------------------------------------------------------------
(* A channel object that refers to clients of U only and is in order.      *)
Good(r, U) ==
    /\ r \in ChannelType
    /\ r.members \cup r.invites \subseteq U
    /\ r.ops \subseteq r.members
    /\ r.invites \cap r.members = {}
    /\ IF r.live THEN r.members # {} ELSE r = NoChannel

LEMMA NoChannelType == NoChannel \in ChannelType /\ NoModes \in ModesType
  BY DEF ChannelType, ModesType, NoChannel, NoModes

LEMMA NoChannelGood == \A U : Good(NoChannel, U)
  BY NoChannelType DEF Good, NoChannel

LEMMA NewChannelGood ==
  ASSUME NEW U \in SUBSET Fd, NEW c \in U
  PROVE  Good(NewChannel(c), U)
  BY DEF Good, NewChannel, NoChannel, NoModes, ChannelType, ModesType

(* A member out, and the channel deleted if that was the last.             *)
LEMMA LeaveGood ==
  ASSUME NEW U \in SUBSET Fd, NEW c \in Fd, NEW r, Good(r, U)
  PROVE  Good(removeIfEmpty(removeMember(r, c)), U)
<1> DEFINE q == removeMember(r, c)
<1>1. /\ q \in ChannelType
      /\ q.members = r.members \ {c} /\ q.ops = r.ops \ {c}
      /\ q.invites = r.invites /\ q.live = r.live
  BY DEF Good, removeMember, ChannelType
<1>2. CASE q.members = {}
  BY <1>2, NoChannelGood DEF removeIfEmpty
<1>3. CASE q.members # {}
  <2>1. r.members # {}
    BY <1>1, <1>3
  <2>2. r.live
    BY <2>1 DEF Good, NoChannel
  <2>3. QED
    BY <1>1, <1>3, <2>2 DEF Good, removeIfEmpty
<1>4. QED
  BY <1>2, <1>3

LEMMA RemoveInviteGood ==
  ASSUME NEW U \in SUBSET Fd, NEW c \in Fd, NEW r, Good(r, U)
  PROVE  /\ Good(removeInvite(r, c), U)
         /\ removeInvite(r, c).members = r.members
         /\ c \notin removeInvite(r, c).invites
<1> DEFINE q == removeInvite(r, c)
<1>1. /\ q \in ChannelType
      /\ q.members = r.members /\ q.ops = r.ops
      /\ q.invites = r.invites \ {c} /\ q.live = r.live
  BY DEF Good, removeInvite, ChannelType
<1>2. CASE r.live
  BY <1>1, <1>2 DEF Good
<1>3. CASE ~r.live
  <2>1. r = NoChannel /\ r.invites \ {c} = {}
    BY <1>3 DEF Good, NoChannel
  <2>2. q = [NoChannel EXCEPT !.invites = {}]
    BY <2>1 DEF removeInvite
  <2>3. q = NoChannel
    BY <2>2 DEF NoChannel
  <2>4. QED
    BY <1>1, <2>3, NoChannelGood
<1>4. QED
  BY <1>2, <1>3

(* A member of U in, its invitation used up.                               *)
LEMMA JoinedGood ==
  ASSUME NEW U \in SUBSET Fd, NEW c \in U, NEW r, Good(r, U)
  PROVE  Good(Joined(c, r), U) /\ r.members \subseteq Joined(c, r).members
<1>1. CASE r.live
  <2> DEFINE q == removeInvite([r EXCEPT !.members = @ \cup {c}], c)
  <2>1. /\ q \in ChannelType
        /\ q.members = r.members \cup {c} /\ q.ops = r.ops
        /\ q.invites = r.invites \ {c} /\ q.live = r.live
    BY DEF Good, removeInvite, ChannelType
  <2>2. Joined(c, r) = q
    BY <1>1 DEF Joined
  <2>3. Good(q, U)
    BY <1>1, <2>1 DEF Good
  <2>4. QED
    BY <2>1, <2>2, <2>3
<1>2. CASE ~r.live
  <2>1. r.members = {} /\ Joined(c, r) = NewChannel(c)
    BY <1>2 DEF Good, NoChannel, Joined
  <2>2. QED
    BY <2>1, NewChannelGood
<1>3. QED
  BY <1>1, <1>2

-----------------------------------------------------------------------------
(* IInv in three parts, each disturbed by a different kind of action.      *)
Present == reg \ tearing

SessionInv ==
    /\ conn \subseteq Fd /\ tearing \subseteq conn
    /\ reg \subseteq conn /\ user \subseteq conn
    /\ pass \in [Fd -> Token \cup {Empty}]
    /\ nick \in [Fd -> Token \cup {Star}]
    /\ NickUnique
    /\ PasswordChecked
    /\ \A c \in Fd \ conn : nick[c] = Star
    /\ \A c \in reg : nick[c] # Star

ChannelInv ==
    /\ chan = [ch \in Channel |-> chan[ch]]
    /\ \A ch \in Channel : Good(chan[ch], Present)

JobInv ==
    /\ job \in JobType
    /\ job # Idle => job.by \in Present
    /\ job.op = "mode" => job.by \in chan[job.ch].members

LEMMA Parts == IInv <=> SessionInv /\ ChannelInv /\ JobInv
  BY DEF IInv, ServerTypeOK, SessionInv, ChannelInv, JobInv, Good, NoStaleReference,
     ChannelLivesWithMembers, Present

LEMMA PartsPrime == IInv' <=> SessionInv' /\ ChannelInv' /\ JobInv'
  BY DEF IInv, ServerTypeOK, SessionInv, ChannelInv, JobInv, Good, NoStaleReference,
     ChannelLivesWithMembers, Present

LEMMA PresentType == SessionInv => Present \in SUBSET Fd
  BY DEF SessionInv, Present

(* Handlers that leave the sessions alone.                                 *)
LEMMA SessionFrame == SessionInv /\ UNCHANGED session => SessionInv' /\ Present' = Present
  BY DEF SessionInv, session, NickUnique, PasswordChecked, Live, ircEquals, Present

(* Handlers that change one channel object.                                *)
LEMMA ChannelUpdate ==
  ASSUME ChannelInv, Present' = Present, NEW ch \in Channel, NEW q, Good(q, Present),
         chan' = [chan EXCEPT ![ch] = q]
  PROVE  ChannelInv'
  BY DEF ChannelInv

LEMMA ChannelFrame == ChannelInv /\ Present' = Present /\ UNCHANGED chan => ChannelInv'
  BY DEF ChannelInv

(* The loop of an idle server is not running.                              *)
LEMMA IdleFacts == Idle \in JobType /\ Idle.op = "idle"
  BY DEF JobType, Idle

LEMMA JobFrame ==
  ASSUME job = Idle, UNCHANGED job
  PROVE  JobInv'
  BY IdleFacts DEF JobInv

-----------------------------------------------------------------------------
(* Connecting and leaving.                                                 *)

LEMMA GoodWithout ==
  ASSUME NEW U \in SUBSET Fd, NEW c \in Fd, NEW r, Good(r, U),
         c \notin r.members, c \notin r.invites
  PROVE  Good(r, U \ {c})
  BY DEF Good

LEMMA EmptiedOrKept ==
  ASSUME NEW r, NEW c, r \in ChannelType, c \notin r.members, c \notin r.invites
  PROVE  c \notin removeIfEmpty(r).members /\ c \notin removeIfEmpty(r).invites
  BY DEF removeIfEmpty, NoChannel

(* ChannelsWithout leaves nothing of c behind.                             *)
LEMMA TeardownGood ==
  ASSUME SessionInv, ChannelInv, NEW c \in Fd, chan' = ChannelsWithout(c),
         Present' = Present \ {c}
  PROVE  ChannelInv'
<1>1. Present \in SUBSET Fd
  BY PresentType
<1> SUFFICES ASSUME NEW ch \in Channel
             PROVE  Good(chan'[ch], Present \ {c})
  BY DEF ChannelInv, ChannelsWithout
<1> DEFINE r == chan[ch]
           q == removeInvite(r, c)
<1>2. Good(r, Present)
  BY DEF ChannelInv
<1>3. Good(q, Present) /\ q.members = r.members /\ c \notin q.invites
  <2> DEFINE U == Present
  <2>1. U \in SUBSET Fd /\ Good(r, U)
    BY <1>1, <1>2
  <2> HIDE DEF U, r
  <2>2. Good(q, U) /\ q.members = r.members /\ c \notin q.invites
    BY <2>1, RemoveInviteGood
  <2>3. QED
    BY <2>2 DEF U
<1>4. CASE c \in r.members
  <2> DEFINE p == removeMember(q, c)
  <2>1. p \in ChannelType /\ c \notin p.members /\ c \notin p.invites
    BY <1>3 DEF removeMember, Good, ChannelType
  <2>2. Good(removeIfEmpty(p), Present)
    BY <1>1, <1>3, LeaveGood
  <2>3. Good(removeIfEmpty(p), Present \ {c})
    BY <1>1, <2>1, <2>2, EmptiedOrKept, GoodWithout
  <2>4. chan'[ch] = removeIfEmpty(p)
    BY <1>4 DEF ChannelsWithout
  <2>5. QED
    BY <2>3, <2>4
<1>5. CASE c \notin r.members
  <2>1. chan'[ch] = q
    BY <1>5 DEF ChannelsWithout
  <2>2. QED
    BY <1>1, <1>3, <1>5, <2>1, GoodWithout
<1>6. QED
  BY <1>4, <1>5

LEMMA AcceptStep ==
  ASSUME SessionInv, NEW c \in Fd, acceptClient(c)
  PROVE  SessionInv' /\ Present' = Present
  BY FoldStar DEF SessionInv, acceptClient, NickUnique, PasswordChecked, Live, ircEquals, Present

LEMMA ForgottenStep ==
  ASSUME SessionInv, NEW c \in Fd, Forgotten(c)
  PROVE  SessionInv' /\ Present' = Present \ {c}
  BY TokenAssumption DEF SessionInv, Forgotten, NickUnique, PasswordChecked, Live, ircEquals,
     Present

(* The client stops counting as live, and keeps its object.                *)
LEMMA TearingStep ==
  ASSUME SessionInv, NEW c \in conn, tearing' = tearing \cup {c},
         UNCHANGED <<conn, reg, pass, user, nick>>
  PROVE  SessionInv' /\ Present' = Present \ {c}
  BY DEF SessionInv, NickUnique, PasswordChecked, Live, ircEquals, Present

LEMMA DisconnectStep ==
  ASSUME IInv, NEW c \in Fd, disconnectClient(c) \/ disconnectClientNow(c)
  PROVE  IInv'
<1>1. SessionInv /\ ChannelInv /\ JobInv
  BY Parts
<1>2. c \in conn /\ job = Idle /\ UNCHANGED job
  BY DEF disconnectClient, disconnectClientNow, Ready, Live
<1>3. SessionInv' /\ Present' = Present \ {c}
  BY <1>1, <1>2, ForgottenStep, TearingStep DEF disconnectClient, disconnectClientNow
<1>4. chan' = ChannelsWithout(c)
  BY DEF disconnectClient, disconnectClientNow, teardownClientState
<1>5. ChannelInv'
  BY <1>1, <1>3, <1>4, TeardownGood
<1>6. JobInv'
  BY <1>2, JobFrame
<1>7. QED
  BY <1>3, <1>5, <1>6, PartsPrime

LEMMA FinalizeStep ==
  ASSUME IInv, NEW c \in Fd, finalizeDisconnect(c)
  PROVE  IInv'
<1>1. SessionInv /\ ChannelInv /\ JobInv
  BY Parts
<1>2. Forgotten(c) /\ c \in tearing /\ job = Idle /\ UNCHANGED <<chan, job>>
  BY DEF finalizeDisconnect
<1>3. SessionInv' /\ Present' = Present \ {c}
  BY <1>1, <1>2, ForgottenStep
<1>4. Present' = Present
  BY <1>2, <1>3 DEF Present
<1>5. QED
  BY <1>1, <1>2, <1>3, <1>4, ChannelFrame, JobFrame, PartsPrime

-----------------------------------------------------------------------------
(* Registration.                                                           *)

LEMMA PassStep ==
  ASSUME SessionInv, NEW c \in Fd, NEW p \in Passwords, cmdPass(c, p)
  PROVE  SessionInv' /\ Present' = Present
  BY TokenAssumption DEF SessionInv, cmdPass, NickUnique, PasswordChecked, Live, ircEquals,
     Present

(* What AcceptableNick leaves through is nobody else's nickname.           *)
LEMMA NickStep ==
  ASSUME SessionInv, NEW c \in conn, NEW raw \in ValidNick, AcceptableNick(c, raw),
         nick' = [nick EXCEPT ![c] = Truncate[raw]],
         conn' = conn, tearing \subseteq tearing'
  PROVE  /\ nick' \in [Fd -> Token \cup {Star}]
         /\ NickUnique'
         /\ \A d \in Fd \ conn' : nick'[d] = Star
         /\ nick'[c] # Star
         /\ \A d \in reg : nick'[d] # Star
<1>1. Truncate[raw] \in Token /\ Truncate[raw] # Star /\ conn \subseteq Fd
  BY TokenAssumption DEF SessionInv
<1>2. \A d \in Live \ {c} : ~ircEquals(nick[d], Truncate[raw])
  BY DEF AcceptableNick, isNickInUse
<1>3. NickUnique'
  BY <1>1, <1>2 DEF NickUnique, Live, ircEquals, SessionInv
<1>4. QED
  BY <1>1, <1>3 DEF SessionInv

(* NICK and USER: the nickname, the USER flag, and perhaps the last check. *)
LEMMA CompleteStep ==
  ASSUME SessionInv, ChannelInv, NEW c \in Live, c \notin reg, NEW n,
         \/ completeRegistration(c, n)
         \/ UNCHANGED <<tearing, reg, chan>>
  PROVE  /\ tearing \subseteq tearing' /\ tearing' \subseteq conn
         /\ reg' \subseteq conn /\ reg' \subseteq reg \cup {c}
         /\ \A d \in reg' : pass[d] = Password
         /\ ChannelInv'
<1>1. Present \in SUBSET Fd /\ c \in conn /\ conn \subseteq Fd
  BY PresentType DEF Live, SessionInv
<1>2. CASE UNCHANGED <<tearing, reg, chan>>
  BY <1>2, ChannelFrame DEF SessionInv, PasswordChecked, Present
<1>3. CASE pass[c] = Password /\ reg' = reg \cup {c} /\ UNCHANGED <<tearing, chan>>
  <2>1. Present \subseteq Present' /\ Present' \in SUBSET Fd
    BY <1>1, <1>3 DEF Present
  <2>2. ChannelInv'
    BY <1>3, <2>1 DEF ChannelInv, Good
  <2>3. QED
    BY <1>1, <1>3, <2>2 DEF SessionInv, PasswordChecked
<1>4. CASE chan' = ChannelsWithout(c) /\ tearing' = tearing \cup {c} /\ UNCHANGED reg
  <2>1. Present' = Present \ {c}
    BY <1>4 DEF Present
  <2>2. ChannelInv'
    BY <1>1, <1>4, <2>1, TeardownGood
  <2>3. QED
    BY <1>1, <1>4, <2>2 DEF SessionInv, PasswordChecked
<1>5. QED
  BY <1>2, <1>3, <1>4 DEF completeRegistration, teardownClientState

LEMMA NickUnregisteredStep ==
  ASSUME IInv, NEW c \in Fd, NEW raw \in ValidNick, cmdNickUnregistered(c, raw)
  PROVE  IInv'
<1>1. SessionInv /\ ChannelInv /\ JobInv
  BY Parts
<1>2. /\ c \in Live /\ c \in conn /\ c \notin reg /\ job = Idle
      /\ AcceptableNick(c, raw) /\ nick' = [nick EXCEPT ![c] = Truncate[raw]]
      /\ UNCHANGED <<conn, pass, user, job>>
  BY DEF cmdNickUnregistered, Ready, Live
<1>3. \/ completeRegistration(c, Truncate[raw])
      \/ UNCHANGED <<tearing, reg, chan>>
  BY DEF cmdNickUnregistered
<1>4. /\ tearing \subseteq tearing' /\ tearing' \subseteq conn
      /\ reg' \subseteq conn /\ reg' \subseteq reg \cup {c}
      /\ \A d \in reg' : pass[d] = Password
      /\ ChannelInv'
  BY <1>1, <1>2, <1>3, CompleteStep
<1>5. SessionInv'
  BY <1>1, <1>2, <1>4, NickStep DEF SessionInv, PasswordChecked
<1>6. QED
  BY <1>2, <1>4, <1>5, JobFrame, PartsPrime

LEMMA NickRegisteredStep ==
  ASSUME IInv, NEW c \in Fd, NEW raw \in ValidNick, cmdNickRegistered(c, raw)
  PROVE  IInv'
<1>1. SessionInv /\ ChannelInv /\ JobInv
  BY Parts
<1>2. /\ c \in conn /\ job = Idle
      /\ AcceptableNick(c, raw) /\ nick' = [nick EXCEPT ![c] = Truncate[raw]]
      /\ UNCHANGED <<conn, tearing, reg, pass, user, chan, job>>
  BY DEF cmdNickRegistered, Registered, Ready, Live
<1>3. SessionInv'
  BY <1>1, <1>2, NickStep DEF SessionInv, PasswordChecked
<1>4. QED
  BY <1>1, <1>2, <1>3, ChannelFrame, JobFrame, PartsPrime DEF Present

LEMMA UserStep ==
  ASSUME IInv, NEW c \in Fd, cmdUser(c)
  PROVE  IInv'
<1>1. SessionInv /\ ChannelInv /\ JobInv
  BY Parts
<1>2. /\ c \in Live /\ c \in conn /\ c \notin reg /\ job = Idle
      /\ user' = user \cup {c}
      /\ UNCHANGED <<conn, pass, nick, job>>
  BY DEF cmdUser, Ready, Live
<1>3. \/ completeRegistration(c, nick[c]) /\ nick[c] # Star
      \/ UNCHANGED <<tearing, reg, chan>>
  BY DEF cmdUser
<1>4. /\ tearing \subseteq tearing' /\ tearing' \subseteq conn
      /\ reg' \subseteq conn /\ reg' \subseteq reg \cup {c}
      /\ \A d \in reg' : pass[d] = Password
      /\ ChannelInv'
  BY <1>1, <1>2, <1>3, CompleteStep
<1>5. NickUnique' /\ \A d \in reg' : nick'[d] # Star
  BY <1>1, <1>2, <1>3, <1>4 DEF SessionInv, NickUnique, Live, ircEquals
<1>6. SessionInv'
  BY <1>1, <1>2, <1>4, <1>5 DEF SessionInv, PasswordChecked
<1>7. QED
  BY <1>2, <1>4, <1>6, JobFrame, PartsPrime

-----------------------------------------------------------------------------
(* Commands of a registered client, and the turns of their loops.          *)

JoinItem == (Channel \cup {BadChannel}) \X (Token \cup {Empty})

LEMMA JobKinds ==
  ASSUME job \in JobType
  PROVE  /\ job.op = "join" => job \in [op : {"join"}, by : Fd, rest : Seq(JoinItem)]
         /\ job.op = "part" => job \in [op : {"part"}, by : Fd, rest : Seq(Channel)]
         /\ job.op = "partAll" => job \in [op : {"partAll"}, by : Fd, rest : SUBSET Channel]
         /\ job.op = "mode" => job \in [op : {"mode"}, by : Fd, ch : Channel,
                                        rest : Seq(Change), done : Seq(Change)]
         /\ job.op # "idle" => job # Idle
  BY DEF JobType, Idle, JoinItem

LEMMA StartLoop ==
  ASSUME IInv, NEW c \in Fd,
         \/ \E list \in JoinLists : cmdJoin(c, list)
         \/ \E list \in PartLists : cmdPart(c, list)
         \/ partAllChannels(c)
         \/ \E ch \in Channel, x \in ModeStrings : handleChannelMode(c, ch, x)
  PROVE  IInv'
<1>1. SessionInv /\ ChannelInv
  BY Parts
<1>2. UNCHANGED session /\ UNCHANGED chan /\ c \in Present
  BY DEF cmdJoin, cmdPart, partAllChannels, handleChannelMode, Registered, Ready, Live, Present
<1>3. SessionInv' /\ Present' = Present /\ ChannelInv'
  BY <1>1, <1>2, SessionFrame, ChannelFrame
<1>4. JobInv'
  <2>1. CASE \E list \in JoinLists : cmdJoin(c, list)
    BY <1>2, <1>3, <2>1, ListAssumption DEF cmdJoin, JobInv, JobType, Idle
  <2>2. CASE \E list \in PartLists : cmdPart(c, list)
    BY <1>2, <1>3, <2>2, ListAssumption DEF cmdPart, JobInv, JobType, Idle
  <2>3. CASE partAllChannels(c)
    BY <1>2, <1>3, <2>3 DEF partAllChannels, OnChannels, JobInv, JobType, Idle
  <2>4. CASE \E ch \in Channel, x \in ModeStrings : handleChannelMode(c, ch, x)
    BY <1>2, <1>3, <2>4, ListAssumption DEF handleChannelMode, JobInv, JobType, Idle
  <2>5. QED
    BY <2>1, <2>2, <2>3, <2>4
<1>5. QED
  BY <1>3, <1>4, PartsPrime

LEMMA JoinStep ==
  ASSUME IInv, NextJoin
  PROVE  IInv'
<1>1. SessionInv /\ ChannelInv /\ JobInv
  BY Parts
<1>2. SessionInv' /\ Present' = Present /\ Present \in SUBSET Fd
  BY <1>1, SessionFrame, PresentType DEF NextJoin
<1>3. /\ job \in [op : {"join"}, by : Fd, rest : Seq(JoinItem)]
      /\ job.rest # <<>> /\ job.by \in Present
      /\ job' = [job EXCEPT !.rest = Tail(@)]
  BY <1>1, JobKinds DEF NextJoin, JobInv
<1>4. Head(job.rest) \in JoinItem /\ Tail(job.rest) \in Seq(JoinItem)
  BY <1>3, HeadTailProperties
<1>5. job' \in [op : {"join"}, by : Fd, rest : Seq(JoinItem)] /\ job'.by = job.by
  BY <1>3, <1>4
<1>6. JobInv'
  BY <1>2, <1>3, <1>5 DEF JobInv, JobType, JoinItem
<1>7. ChannelInv'
  <2> DEFINE ch == Head(job.rest)[1]
             key == Head(job.rest)[2]
  <2>1. CASE UNCHANGED chan
    BY <1>1, <1>2, <2>1, ChannelFrame
  <2>2. CASE ch # BadChannel /\ JoinChannel(job.by, ch, key)
    <3>1. ch \in Channel
      BY <1>4, <2>2 DEF JoinItem
    <3>2. Good(Joined(job.by, chan[ch]), Present)
      BY <1>1, <1>2, <1>3, <3>1, JoinedGood DEF ChannelInv
    <3>3. chan' = [chan EXCEPT ![ch] = Joined(job.by, chan[ch])]
      BY <2>2 DEF JoinChannel
    <3>4. QED
      BY <1>1, <1>2, <3>1, <3>2, <3>3, ChannelUpdate
  <2>3. QED
    BY <2>1, <2>2 DEF NextJoin, SkipJoin
<1>8. QED
  BY <1>2, <1>6, <1>7, PartsPrime

(* A member leaves, by PART, JOIN 0 or KICK.                               *)
LEMMA LeaveStep ==
  ASSUME SessionInv, ChannelInv, UNCHANGED session, NEW c \in Fd, NEW ch \in Channel,
         chan' = [chan EXCEPT ![ch] = removeIfEmpty(removeMember(@, c))]
  PROVE  ChannelInv'
<1>1. Present' = Present /\ Present \in SUBSET Fd
  BY SessionFrame, PresentType
<1>2. Good(removeIfEmpty(removeMember(chan[ch], c)), Present)
  BY <1>1, LeaveGood DEF ChannelInv
<1>3. QED
  BY <1>1, <1>2, ChannelUpdate

LEMMA PartStep ==
  ASSUME IInv, NextPart
  PROVE  IInv'
<1>1. SessionInv /\ ChannelInv /\ JobInv
  BY Parts
<1>2. SessionInv' /\ Present' = Present /\ Present \in SUBSET Fd /\ UNCHANGED session
  BY <1>1, SessionFrame, PresentType DEF NextPart
<1>3. /\ job \in [op : {"part"}, by : Fd, rest : Seq(Channel)]
      /\ job.rest # <<>> /\ job.by \in Present
      /\ job' = [job EXCEPT !.rest = Tail(@)]
  BY <1>1, JobKinds DEF NextPart, JobInv
<1>4. Head(job.rest) \in Channel /\ Tail(job.rest) \in Seq(Channel)
  BY <1>3, HeadTailProperties
<1>5. job' \in [op : {"part"}, by : Fd, rest : Seq(Channel)] /\ job'.by = job.by
  BY <1>3, <1>4
<1>6. JobInv'
  BY <1>2, <1>3, <1>5 DEF JobInv, JobType
<1>7. ChannelInv'
  BY <1>1, <1>2, <1>3, <1>4, ChannelFrame, LeaveStep DEF NextPart, PartChannel
<1>8. QED
  BY <1>2, <1>6, <1>7, PartsPrime

LEMMA PartAllStep ==
  ASSUME IInv, NextPartAll
  PROVE  IInv'
<1>1. SessionInv /\ ChannelInv /\ JobInv
  BY Parts
<1>2. SessionInv' /\ Present' = Present /\ Present \in SUBSET Fd /\ UNCHANGED session
  BY <1>1, SessionFrame, PresentType DEF NextPartAll
<1>3. /\ job \in [op : {"partAll"}, by : Fd, rest : SUBSET Channel]
      /\ job.by \in Present
  BY <1>1, JobKinds DEF NextPartAll, JobInv
<1>4. PICK ch \in job.rest : /\ PartChannel(job.by, ch)
                             /\ job' = [job EXCEPT !.rest = @ \ {ch}]
  BY DEF NextPartAll
<1>5. job' \in [op : {"partAll"}, by : Fd, rest : SUBSET Channel] /\ job'.by = job.by
  BY <1>3, <1>4
<1>6. JobInv'
  BY <1>2, <1>3, <1>5 DEF JobInv, JobType
<1>7. ChannelInv'
  BY <1>1, <1>2, <1>3, <1>4, LeaveStep DEF PartChannel
<1>8. QED
  BY <1>2, <1>6, <1>7, PartsPrime

(* INVITE, TOPIC and MODE touch a channel that has members.                *)
LEMMA TouchGood ==
  ASSUME NEW U \in SUBSET Fd, NEW r, Good(r, U), r.members # {}, NEW q \in ChannelType,
         q.live = r.live, q.members = r.members,
         q.ops \subseteq q.members,
         q.invites \subseteq U \ q.members
  PROVE  Good(q, U)
<1>1. r.live
  BY DEF Good, NoChannel
<1>2. QED
  BY <1>1 DEF Good

LEMMA KickStep ==
  ASSUME IInv, NEW c \in Fd, NEW ch \in Channel, NEW n, cmdKick(c, ch, n)
  PROVE  IInv'
<1>1. SessionInv /\ ChannelInv
  BY Parts
<1>2. SessionInv' /\ UNCHANGED session /\ job = Idle /\ UNCHANGED job
  BY <1>1, SessionFrame DEF cmdKick, Registered, Ready
<1>3. PICK t \in Fd : chan' = [chan EXCEPT ![ch] = removeIfEmpty(removeMember(@, t))]
  BY <1>1, PresentType DEF cmdKick, findMember, ChannelInv, Good
<1>4. QED
  BY <1>1, <1>2, <1>3, LeaveStep, JobFrame, PartsPrime

LEMMA InviteStep ==
  ASSUME IInv, NEW c \in Fd, NEW ch \in Channel, NEW n, cmdInvite(c, ch, n)
  PROVE  IInv'
<1>1. SessionInv /\ ChannelInv
  BY Parts
<1>2. SessionInv' /\ Present' = Present /\ job = Idle /\ UNCHANGED job
  BY <1>1, SessionFrame DEF cmdInvite, Registered, Ready
<1>3. PICK t \in Present \ chan[ch].members :
        chan' = [chan EXCEPT ![ch].invites = @ \cup {t}]
  BY DEF cmdInvite, findClientByNick, Present
<1> DEFINE r == chan[ch]
           q == [r EXCEPT !.invites = @ \cup {t}]
<1>4. Present \in SUBSET Fd /\ Good(r, Present) /\ r.members # {}
  BY <1>1, PresentType DEF ChannelInv, cmdInvite
<1>5. /\ q \in ChannelType /\ q.live = r.live /\ q.members = r.members
      /\ q.ops = r.ops /\ q.invites = r.invites \cup {t}
  BY <1>3, <1>4 DEF Good, ChannelType
<1>6. Good(q, Present)
  <2>1. q.ops \subseteq q.members /\ q.invites \subseteq Present \ q.members
    BY <1>3, <1>4, <1>5 DEF Good
  <2>2. QED
    BY <1>4, <1>5, <2>1, TouchGood
<1>7. chan' = [chan EXCEPT ![ch] = q]
  BY <1>3
<1>8. ChannelInv'
  BY <1>1, <1>2, <1>6, <1>7, ChannelUpdate
<1>9. QED
  BY <1>2, <1>8, JobFrame, PartsPrime

LEMMA TopicStep ==
  ASSUME IInv, NEW c \in Fd, NEW ch \in Channel, NEW t \in Topics, cmdTopic(c, ch, t)
  PROVE  IInv'
<1>1. SessionInv /\ ChannelInv
  BY Parts
<1>2. SessionInv' /\ Present' = Present /\ job = Idle /\ UNCHANGED job
  BY <1>1, SessionFrame DEF cmdTopic, Registered, Ready
<1> DEFINE r == chan[ch]
           q == [r EXCEPT !.topic = t]
<1>3. chan' = [chan EXCEPT ![ch] = q]
  BY DEF cmdTopic
<1>4. Present \in SUBSET Fd /\ Good(r, Present) /\ r.members # {}
  BY <1>1, PresentType DEF ChannelInv, cmdTopic
<1>5. /\ q \in ChannelType /\ q.live = r.live /\ q.members = r.members
      /\ q.ops = r.ops /\ q.invites = r.invites
  BY <1>4, TokenAssumption DEF Good, ChannelType
<1>6. Good(q, Present)
  <2>1. q.ops \subseteq q.members /\ q.invites \subseteq Present \ q.members
    BY <1>4, <1>5 DEF Good
  <2>2. QED
    BY <1>4, <1>5, <2>1, TouchGood
<1>7. ChannelInv'
  BY <1>1, <1>2, <1>3, <1>6, ChannelUpdate
<1>8. QED
  BY <1>2, <1>7, JobFrame, PartsPrime

LEMMA SetModeType ==
  ASSUME NEW m \in ModesType, NEW x \in Change
  PROVE  SetMode(m, x) \in ModesType
<1>1. x.add \in BOOLEAN /\ LimitOf[x.arg] \in Nat /\ x.arg \in Token \cup {Empty}
  BY TokenAssumption DEF Change
<1>2. CASE x.letter = "i" \/ x.letter = "t"
  BY <1>1, <1>2 DEF SetMode, ModesType
<1>3. CASE x.letter = "k"
  BY <1>1, <1>3 DEF SetMode, ModesType
<1>4. CASE x.letter = "l"
  BY <1>1, <1>4 DEF SetMode, ModesType
<1>5. CASE x.letter \notin {"i", "t", "k", "l"}
  BY <1>5 DEF SetMode
<1>6. QED
  BY <1>2, <1>3, <1>4, <1>5

ModeJob == [op : {"mode"}, by : Fd, ch : Channel, rest : Seq(Change), done : Seq(Change)]

(* One turn of the MODE loop.  The one who asked is still on the channel,   *)
(* so the channel is not about to disappear.                               *)
LEMMA ModeStep ==
  ASSUME IInv, NextMode
  PROVE  IInv'
<1>1. SessionInv /\ ChannelInv /\ JobInv
  BY Parts
<1>2. SessionInv' /\ Present' = Present /\ Present \in SUBSET Fd
  BY <1>1, SessionFrame, PresentType DEF NextMode
<1>3. /\ job \in ModeJob /\ job.rest # <<>>
      /\ job.by \in Present /\ job.by \in chan[job.ch].members
  BY <1>1, JobKinds DEF NextMode, JobInv, ModeJob
<1> DEFINE r == chan[job.ch]
           x == Head(job.rest)
<1>4. x \in Change /\ Tail(job.rest) \in Seq(Change)
  BY <1>3, HeadTailProperties DEF ModeJob
<1>5. job.ch \in Channel /\ Good(r, Present) /\ r.members # {}
  BY <1>1, <1>3 DEF ChannelInv, ModeJob
<1>6. SUFFICES /\ job' \in ModeJob /\ job'.by = job.by /\ job'.ch = job.ch
               /\ ChannelInv' /\ chan'[job.ch].members = r.members
  <2>1. JobInv'
    BY <1>2, <1>3, <1>6 DEF JobInv, JobType, ModeJob
  <2>2. QED
    BY <1>2, <1>6, <2>1, PartsPrime
<1>7. CASE ApplyMode(x)
  <2> DEFINE q == [r EXCEPT !.modes = SetMode(@, x)]
  <2>1. job' \in ModeJob /\ job'.by = job.by /\ job'.ch = job.ch
    BY <1>3, <1>4, <1>7, AppendProperties DEF ApplyMode, ModeJob
  <2>2. SetMode(r.modes, x) \in ModesType
    BY <1>4, <1>5, SetModeType DEF Good, ChannelType
  <2>3. /\ q \in ChannelType /\ q.live = r.live /\ q.members = r.members
        /\ q.ops = r.ops /\ q.invites = r.invites
    BY <1>5, <2>2 DEF Good, ChannelType
  <2>4. q.ops \subseteq q.members /\ q.invites \subseteq Present \ q.members
    BY <1>5, <2>3 DEF Good
  <2>5. Good(q, Present)
    BY <1>2, <1>5, <2>3, <2>4, TouchGood
  <2>6. chan' = [chan EXCEPT ![job.ch] = q]
    BY <1>7 DEF ApplyMode
  <2>7. chan'[job.ch].members = r.members
    BY <1>1, <1>5, <2>3, <2>6 DEF ChannelInv
  <2>8. QED
    BY <1>1, <1>2, <1>5, <2>1, <2>5, <2>6, <2>7, ChannelUpdate
<1>8. CASE ApplyOp(x)
  <2>1. PICK t \in findMember(job.ch, x.arg) :
          /\ chan' = [chan EXCEPT ![job.ch].ops = IF x.add THEN @ \cup {t} ELSE @ \ {t}]
          /\ job' = [job EXCEPT !.rest = Tail(@),
                                !.done = Append(@, [x EXCEPT !.arg = nick[t]])]
    BY <1>8 DEF ApplyOp
  <2> DEFINE q == [r EXCEPT !.ops = IF x.add THEN @ \cup {t} ELSE @ \ {t}]
  <2>2. t \in r.members /\ t \in Fd /\ t \in reg
    BY <1>5, <1>2 DEF findMember, Good, Present
  <2>3. nick[t] \in Token
    BY <1>1, <2>2 DEF SessionInv
  <2>4. [x EXCEPT !.arg = nick[t]] \in Change
    BY <1>4, <2>3 DEF Change
  <2>5. job' \in ModeJob /\ job'.by = job.by /\ job'.ch = job.ch
    BY <1>3, <1>4, <2>1, <2>4, AppendProperties DEF ModeJob
  <2>6. /\ q \in ChannelType /\ q.live = r.live /\ q.members = r.members
        /\ q.ops \subseteq r.ops \cup {t} /\ q.invites = r.invites
    BY <1>5, <2>2 DEF Good, ChannelType
  <2>7. q.ops \subseteq q.members /\ q.invites \subseteq Present \ q.members
    BY <1>5, <2>2, <2>6 DEF Good
  <2>8. Good(q, Present)
    BY <1>2, <1>5, <2>6, <2>7, TouchGood
  <2>9. chan' = [chan EXCEPT ![job.ch] = q]
    BY <2>1
  <2>10. chan'[job.ch].members = r.members
    BY <1>1, <1>5, <2>6, <2>9 DEF ChannelInv
  <2>11. QED
    BY <1>1, <1>2, <1>5, <2>5, <2>8, <2>9, <2>10, ChannelUpdate
<1>9. CASE RefuseMode(x)
  BY <1>1, <1>2, <1>3, <1>4, <1>9, ChannelFrame DEF RefuseMode, ModeJob
<1>10. QED
  BY <1>7, <1>8, <1>9 DEF NextMode

LEMMA BroadcastStep ==
  ASSUME IInv, broadcastModeChanges
  PROVE  IInv'
<1>1. SessionInv /\ ChannelInv /\ JobInv
  BY Parts
<1>2. SessionInv' /\ Present' = Present /\ UNCHANGED chan
  BY <1>1, SessionFrame DEF broadcastModeChanges
<1>3. /\ job \in ModeJob /\ job.done # <<>> /\ job' = [job EXCEPT !.done = Tail(@)]
      /\ job.by \in Present /\ job.by \in chan[job.ch].members
  BY <1>1, JobKinds DEF broadcastModeChanges, JobInv, ModeJob
<1>4. Tail(job.done) \in Seq(Change)
  BY <1>3, HeadTailProperties DEF ModeJob
<1>5. job' \in ModeJob /\ job'.by = job.by /\ job'.ch = job.ch
  BY <1>3, <1>4 DEF ModeJob
<1>6. JobInv'
  BY <1>2, <1>3, <1>5 DEF JobInv, JobType, ModeJob
<1>7. QED
  BY <1>1, <1>2, <1>6, ChannelFrame, PartsPrime

LEMMA EndStep ==
  ASSUME IInv, EndOfHandler
  PROVE  IInv'
<1>1. SessionInv' /\ ChannelInv'
  BY Parts, SessionFrame, ChannelFrame DEF EndOfHandler
<1>2. JobInv'
  BY IdleFacts DEF EndOfHandler, JobInv
<1>3. QED
  BY <1>1, <1>2, PartsPrime

(* Actions of which only the sessions, or only the clients' pictures, see   *)
(* anything.                                                               *)
LEMMA OtherSteps ==
  ASSUME IInv, NEW c \in Fd,
         \/ acceptClient(c)
         \/ \E p \in Passwords : cmdPass(c, p)
         \/ \E ch \in Channel : ChannelText(c, ch)
  PROVE  IInv'
<1>1. SessionInv /\ ChannelInv /\ JobInv
  BY Parts
<1>2. SessionInv' /\ Present' = Present
  BY <1>1, AcceptStep, PassStep, SessionFrame DEF ChannelText
<1>3. job = Idle /\ UNCHANGED <<chan, job>>
  BY DEF acceptClient, cmdPass, ChannelText, Registered, Ready
<1>4. QED
  BY <1>1, <1>2, <1>3, ChannelFrame, JobFrame, PartsPrime

LEMMA NextIInv == IInv /\ [Next]_vars => IInv'
<1> SUFFICES ASSUME IInv, [Next]_vars
             PROVE  IInv'
  OBVIOUS
<1>1. CASE Handler
  BY <1>1, JoinStep, PartStep, PartAllStep, ModeStep, BroadcastStep, EndStep DEF Handler
<1>2. ASSUME NEW c \in Fd, Command(c)
      PROVE  IInv'
  BY <1>2, OtherSteps, NickUnregisteredStep, NickRegisteredStep, UserStep, StartLoop,
     KickStep, InviteStep, TopicStep DEF Command
<1>3. ASSUME NEW c \in Fd, Connection(c)
      PROVE  IInv'
  BY <1>3, OtherSteps, DisconnectStep, FinalizeStep DEF Connection
<1>4. CASE UNCHANGED vars
  <2>1. UNCHANGED session /\ UNCHANGED <<chan, job>>
    BY <1>4 DEF vars, session
  <2>2. SessionInv' /\ Present' = Present /\ ChannelInv'
    BY <2>1, Parts, SessionFrame, ChannelFrame
  <2>3. JobInv'
    BY <2>1, <2>2, Parts DEF JobInv
  <2>4. QED
    BY <2>2, <2>3, PartsPrime
<1>5. QED
  BY <1>1, <1>2, <1>3, <1>4 DEF Next

-----------------------------------------------------------------------------
(* The inductive invariant holds of every reachable state.                 *)
THEOREM Invariance == Spec => []IInv
<1>1. Init => IInv
  BY InitIInv
<1>2. IInv /\ [Next]_vars => IInv'
  BY NextIInv
<1>3. QED
  BY <1>1, <1>2, PTL DEF Spec

(* However many clients connect and in whatever order they send NICK and   *)
(* leave, no two live ones hold nicknames the case folding identifies      *)
(* (cmdNick, isNickInUse).                                                 *)
THEOREM UniqueNicknames == Spec => []NickUnique
<1>1. IInv => NickUnique
  BY DEF IInv
<1>2. QED
  BY <1>1, Invariance, PTL

(* No channel ever refers to a client that is leaving or gone, by a member *)
(* pointer, an operator bit or an invitation (teardownClientState).        *)
THEOREM NoDanglingClients == Spec => []NoStaleReference
<1>1. IInv => NoStaleReference
  BY DEF IInv
<1>2. QED
  BY <1>1, Invariance, PTL

(* A channel is in the map exactly while it has members, and a channel     *)
(* created anew inherits nothing (removeChannel, createChannel).           *)
THEOREM ChannelsLiveWithMembers == Spec => []ChannelLivesWithMembers
<1>1. IInv => ChannelLivesWithMembers
  BY DEF IInv
<1>2. QED
  BY <1>1, Invariance, PTL

(* No order or repetition of PASS, NICK and USER registers a client whose  *)
(* last PASS is not the server's password (completeRegistration).          *)
THEOREM NoEntryWithoutPassword == Spec => []PasswordChecked
<1>1. IInv => PasswordChecked
  BY DEF IInv
<1>2. QED
  BY <1>1, Invariance, PTL

-----------------------------------------------------------------------------
(* Sessions.                                                               *)

(* Every step of the server moves every session as Sessions allows.        *)
THEOREM ServerImplementsSessions == Spec => SessionsAreSafe
<1> DEFINE Moves == \A c \in Fd : /\ c \notin conn => c \notin conn' \/ c \notin tearing'
                                  /\ c \in tearing => c \notin conn' \/ c \in tearing'
<1>1. Init => Life!Init
  BY DEF Init, Life!Init, state
<1>2. IInv /\ [Next]_vars => [Life!Next]_state
  <2> SUFFICES ASSUME IInv, [Next]_vars
               PROVE  Life!Next
    OBVIOUS
  <2>1. tearing \subseteq conn
    BY DEF IInv, ServerTypeOK
  <2>2. Moves
    <3>1. CASE UNCHANGED session
      BY <2>1, <3>1 DEF session
    <3>2. ASSUME NEW c \in Fd, Connection(c)
          PROVE  Moves
      BY <2>1, <3>2 DEF Connection, acceptClient, disconnectClient, disconnectClientNow,
         finalizeDisconnect, Forgotten, Ready, Live
    <3>3. ASSUME NEW c \in Fd, UNCHANGED conn, c \in conn,
                 UNCHANGED tearing \/ tearing' = tearing \cup {c}
          PROVE  Moves
      BY <2>1, <3>3
    <3>4. ASSUME NEW c \in Fd, Command(c)
          PROVE  \/ UNCHANGED session
                 \/ /\ UNCHANGED conn /\ c \in conn
                    /\ UNCHANGED tearing \/ tearing' = tearing \cup {c}
      BY <3>4 DEF Command, cmdPass, cmdNickUnregistered, cmdNickRegistered, cmdUser,
         completeRegistration, cmdJoin, cmdPart, partAllChannels, cmdKick, cmdInvite,
         cmdTopic, ChannelText, handleChannelMode, Registered, Ready, Live
    <3>5. CASE Handler
      BY <3>1, <3>5 DEF Handler, NextJoin, NextPart, NextPartAll, NextMode,
         broadcastModeChanges, EndOfHandler
    <3>6. CASE UNCHANGED vars
      BY <3>1, <3>6 DEF vars, session
    <3>7. QED
      BY <3>1, <3>2, <3>3, <3>4, <3>5, <3>6 DEF Next
  <2>3. state' \in [Fd -> {"free", "open", "leaving"}]
    BY DEF state
  <2>4. ASSUME NEW c \in Fd
        PROVE  state'[c] = state[c] \/ <<state[c], state'[c]>> \in Life!Move
    BY <2>1, <2>2 DEF state, Life!Move
  <2>5. QED
    BY <2>3, <2>4 DEF Life!Next
<1>3. QED
  BY <1>1, <1>2, Invariance, PTL DEF Spec, SessionsAreSafe, Life!SafeSpec

-----------------------------------------------------------------------------
(* Channels without an operator.                                           *)

(* From channel object r to q nothing is opened.                           *)
Frozen(r, q) ==
    /\ q.ops = {}
    /\ q.modes = r.modes
    /\ r.modes.i => /\ q.invites \subseteq r.invites
                    /\ q.members \subseteq r.members \cup r.invites

LEMMA FrozenSame == \A r : r.ops = {} => Frozen(r, r)
  BY DEF Frozen

LEMMA FrozenLeave ==
  ASSUME NEW r \in ChannelType, r.ops = {}, NEW c,
         removeIfEmpty(removeMember(r, c)).live
  PROVE  Frozen(r, removeIfEmpty(removeMember(r, c)))
<1>1. removeIfEmpty(removeMember(r, c)) = removeMember(r, c)
  BY DEF removeIfEmpty, NoChannel
<1>2. QED
  BY <1>1 DEF Frozen, removeMember, ChannelType

LEMMA FrozenTeardown ==
  ASSUME NEW r \in ChannelType, r.ops = {}, NEW c
  PROVE  /\ Frozen(r, removeInvite(r, c))
         /\ removeIfEmpty(removeMember(removeInvite(r, c), c)).live =>
                Frozen(r, removeIfEmpty(removeMember(removeInvite(r, c), c)))
<1> DEFINE q == removeInvite(r, c)
<1>1. /\ q \in ChannelType /\ q.ops = {} /\ q.modes = r.modes
      /\ q.members = r.members /\ q.invites \subseteq r.invites
  BY DEF removeInvite, ChannelType
<1>2. QED
  BY <1>1, FrozenLeave DEF Frozen

LEMMA FrozenJoin ==
  ASSUME NEW r \in ChannelType, r.live, r.ops = {}, NEW c, NEW key, MayJoin(c, r, key)
  PROVE  Frozen(r, Joined(c, r))
<1>1. Joined(c, r) = removeInvite([r EXCEPT !.members = @ \cup {c}], c)
  BY DEF Joined
<1>2. QED
  BY <1>1 DEF Frozen, removeInvite, MayJoin, ChannelType

(* The MODE that is running was begun by an operator: the channel still    *)
(* has one, or the letters are all read, or one of those read took a bit.  *)
ModeInv == job.op = "mode" => \/ chan[job.ch].ops # {}
                              \/ job.rest = <<>>
                              \/ TookTheLastBit(job.ch)

LEMMA InitModeInv == Init => ModeInv
  BY DEF Init, ModeInv, Idle

(* One turn of the loop: only -o takes a bit, and it is then on record.    *)
LEMMA NextModeModeInv ==
  ASSUME IInv, ModeInv, NextMode
  PROVE  ModeInv'
<1>1. /\ job \in ModeJob /\ job.rest # <<>>
      /\ chan \in [Channel -> ChannelType] /\ job.ch \in Channel
  BY JobKinds DEF IInv, ServerTypeOK, NextMode, ModeJob
<1> DEFINE r == chan[job.ch]
           x == Head(job.rest)
<1>2. x \in Change /\ r \in ChannelType
  BY <1>1, HeadTailProperties DEF ModeJob
<1>3. r.ops # {} \/ TookTheLastBit(job.ch)
  BY <1>1 DEF ModeInv, NextMode
(* What is on record stays there.                                          *)
<1>4. ASSUME NEW y \in Change, job' = [job EXCEPT !.rest = Tail(@), !.done = Append(@, y)]
      PROVE  /\ TookTheLastBit(job.ch) => TookTheLastBit(job.ch)'
             /\ y.letter = "o" /\ ~y.add => TookTheLastBit(job.ch)'
             /\ job'.ch = job.ch
  <2>1. job'.op = "mode" /\ job'.ch = job.ch /\ job'.done = Append(job.done, y)
    BY <1>1, <1>4 DEF ModeJob
  <2>2. /\ job.done \in Seq(Change)
        /\ DOMAIN job.done = 1 .. Len(job.done) /\ Len(job.done) \in Nat
        /\ DOMAIN job'.done = 1 .. Len(job.done) + 1
        /\ job'.done[Len(job.done) + 1] = y
        /\ \A k \in DOMAIN job.done : job'.done[k] = job.done[k]
    BY <1>1, <2>1, AppendProperties, LenProperties DEF ModeJob
  <2>3. QED
    BY <2>1, <2>2 DEF TookTheLastBit
<1>5. CASE ApplyMode(x)
  <2>1. chan'[job.ch].ops = r.ops
    BY <1>1, <1>2, <1>5 DEF ApplyMode, ChannelType
  <2>2. job' = [job EXCEPT !.rest = Tail(@), !.done = Append(@, x)]
    BY <1>5 DEF ApplyMode
  <2>3. QED
    BY <1>2, <1>3, <1>4, <2>1, <2>2 DEF ModeInv
<1>6. CASE ApplyOp(x)
  <2>1. PICK t \in findMember(job.ch, x.arg) :
          /\ chan' = [chan EXCEPT ![job.ch].ops = IF x.add THEN @ \cup {t} ELSE @ \ {t}]
          /\ job' = [job EXCEPT !.rest = Tail(@),
                                !.done = Append(@, [x EXCEPT !.arg = nick[t]])]
    BY <1>6 DEF ApplyOp
  <2> DEFINE y == [x EXCEPT !.arg = nick[t]]
  <2>2. x.letter = "o"
    BY <1>6 DEF ApplyOp
  <2>3. nick[t] \in Token
    BY <1>1, <2>1 DEF findMember, IInv, ServerTypeOK, NoStaleReference
  <2>4. y \in Change /\ y.letter = "o" /\ y.add = x.add
    BY <1>2, <2>2, <2>3 DEF Change
  <2>5. CASE x.add
    <3>1. t \in chan'[job.ch].ops
      BY <1>1, <1>2, <2>1, <2>5 DEF ChannelType
    <3>2. QED
      BY <1>4, <2>1, <2>4, <3>1 DEF ModeInv
  <2>6. CASE ~x.add
    BY <1>4, <2>1, <2>4, <2>6 DEF ModeInv
  <2>7. QED
    BY <1>2, <2>5, <2>6 DEF Change
<1>7. CASE RefuseMode(x)
  BY <1>1, <1>3, <1>7 DEF RefuseMode, ModeInv, ModeJob, TookTheLastBit
<1>8. QED
  BY <1>5, <1>6, <1>7 DEF NextMode

LEMMA NextModeInv == IInv /\ ModeInv /\ [Next]_vars => ModeInv'
<1> SUFFICES ASSUME IInv, ModeInv, [Next]_vars
             PROVE  ModeInv'
  OBVIOUS
<1>1. CASE UNCHANGED <<chan, job>>
  BY <1>1 DEF ModeInv, TookTheLastBit
<1>2. CASE job'.op # "mode"
  BY <1>2 DEF ModeInv
<1>3. CASE job = Idle /\ UNCHANGED job
  BY <1>2, <1>3, IdleFacts
<1>4. CASE Handler
  <2>1. CASE NextJoin \/ NextPart \/ NextPartAll
    BY <1>2, <2>1, JobKinds DEF NextJoin, NextPart, NextPartAll, IInv, ServerTypeOK
  <2>2. CASE broadcastModeChanges
    <3>1. job \in ModeJob
      BY <2>2, JobKinds DEF broadcastModeChanges, IInv, ServerTypeOK, ModeJob
    <3>2. QED
      BY <2>2, <3>1 DEF broadcastModeChanges, ModeInv, ModeJob
  <2>3. CASE EndOfHandler
    BY <1>2, <2>3, IdleFacts DEF EndOfHandler
  <2>4. QED
    BY <1>4, <2>1, <2>2, <2>3, NextModeModeInv DEF Handler
<1>5. ASSUME NEW c \in Fd, Connection(c)
      PROVE  ModeInv'
  <2>1. job = Idle /\ UNCHANGED job
    BY <1>5 DEF Connection, acceptClient, disconnectClient, disconnectClientNow,
       finalizeDisconnect, Ready
  <2>2. QED
    BY <1>3, <2>1
<1>6. ASSUME NEW c \in Fd, Command(c)
      PROVE  ModeInv'
  <2>1. ASSUME NEW ch \in Channel, NEW x \in ModeStrings, handleChannelMode(c, ch, x)
        PROVE  ModeInv'
    BY <2>1 DEF handleChannelMode, ModeInv
  <2>2. CASE cmdUser(c) \/ \E n \in ValidNick : cmdNickUnregistered(c, n)
    BY <1>3, <2>2 DEF cmdUser, cmdNickUnregistered, Ready
  <2>3. CASE \/ \E list \in JoinLists : cmdJoin(c, list)
             \/ \E list \in PartLists : cmdPart(c, list)
             \/ partAllChannels(c)
    BY <1>2, <2>3 DEF cmdJoin, cmdPart, partAllChannels
  <2>4. CASE \/ \E p \in Passwords : cmdPass(c, p)
             \/ \E n \in ValidNick : cmdNickRegistered(c, n)
    BY <1>3, <2>4 DEF cmdPass, cmdNickRegistered, Registered, Ready
  <2>5. ASSUME NEW ch \in Channel,
               \/ \E n \in ValidNick : cmdKick(c, ch, n)
               \/ \E n \in ValidNick : cmdInvite(c, ch, n)
               \/ \E t \in Topics : cmdTopic(c, ch, t)
               \/ ChannelText(c, ch)
        PROVE  ModeInv'
    <3>1. CASE \E n \in ValidNick : cmdKick(c, ch, n)
      BY <1>3, <3>1 DEF cmdKick, Registered, Ready
    <3>2. CASE \E n \in ValidNick : cmdInvite(c, ch, n)
      BY <1>3, <3>2 DEF cmdInvite, Registered, Ready
    <3>3. CASE \E t \in Topics : cmdTopic(c, ch, t)
      BY <1>3, <3>3 DEF cmdTopic, Registered, Ready
    <3>4. CASE ChannelText(c, ch)
      BY <1>3, <3>4 DEF ChannelText, Registered, Ready
    <3>5. QED
      BY <2>5, <3>1, <3>2, <3>3, <3>4
  <2>6. QED
    BY <1>6, <2>1, <2>2, <2>3, <2>4, <2>5 DEF Command
<1>7. CASE UNCHANGED vars
  BY <1>1, <1>7 DEF vars
<1>8. QED
  BY <1>4, <1>5, <1>6, <1>7 DEF Next

(* No handler promotes a member of a channel that has lost its last        *)
(* operator, begins a MODE there, or lets anybody into it while it is +i   *)
(* but those invited before (handleChannelMode, cmdJoin, cmdKick,          *)
(* cmdInvite, teardown).                                                   *)
THEOREM OplessChannelsAreFrozen == Spec => OplessIsFrozen
<1> DEFINE Opless(ch) == /\ chan[ch].live /\ chan[ch].ops = {} /\ ~TookTheLastBit(ch)
                         /\ chan'[ch].live
           Keep == \A ch \in Channel : Opless(ch) => Frozen(chan[ch], chan'[ch])
<1>1. IInv /\ ModeInv /\ [Next]_vars => [Keep]_vars
  <2> SUFFICES ASSUME IInv, ModeInv, Next, NEW ch \in Channel, Opless(ch)
               PROVE  Frozen(chan[ch], chan'[ch])
    OBVIOUS
  <2> DEFINE r == chan[ch]
  <2>1. r \in ChannelType /\ r.live /\ r.ops = {} /\ chan \in [Channel -> ChannelType]
    BY DEF IInv, ServerTypeOK
  <2>2. CASE chan'[ch] = r
    BY <2>1, <2>2, FrozenSame
  <2>3. ASSUME NEW c, chan' = ChannelsWithout(c)
        PROVE  Frozen(r, chan'[ch])
    BY <2>1, <2>3, FrozenTeardown DEF ChannelsWithout
  <2>4. ASSUME NEW c, NEW x \in Channel,
               chan' = [chan EXCEPT ![x] = removeIfEmpty(removeMember(@, c))]
        PROVE  Frozen(r, chan'[ch])
    BY <2>1, <2>2, <2>4, FrozenLeave
  <2>5. CASE NextJoin
    <3>1. CASE UNCHANGED chan
      BY <2>2, <3>1
    <3>2. ASSUME NEW x, NEW key, JoinChannel(job.by, x, key)
          PROVE  Frozen(r, chan'[ch])
      <4>1. chan' = [chan EXCEPT ![x] = Joined(job.by, chan[x])]
        BY <3>2 DEF JoinChannel
      <4>2. CASE x # ch
        BY <2>1, <2>2, <4>1, <4>2
      <4>3. CASE x = ch
        BY <2>1, <3>2, <4>1, <4>3, FrozenJoin DEF JoinChannel
      <4>4. QED
        BY <4>2, <4>3
    <3>3. QED
      BY <2>5, <3>1, <3>2 DEF NextJoin, SkipJoin
  <2>6. CASE NextPart \/ NextPartAll
    <3>1. job \in JobType
      BY DEF IInv, ServerTypeOK
    <3>2. CASE NextPart
      <4>1. Head(job.rest) \in Channel
        BY <3>1, <3>2, JobKinds, HeadTailProperties DEF NextPart
      <4>2. QED
        BY <2>2, <2>4, <3>2, <4>1 DEF NextPart, PartChannel
    <3>3. CASE NextPartAll
      BY <2>4, <3>1, <3>3, JobKinds DEF NextPartAll, PartChannel
    <3>4. QED
      BY <2>6, <3>2, <3>3
  <2>7. CASE NextMode \/ broadcastModeChanges \/ EndOfHandler
    <3>1. CASE NextMode
      <4>1. job.ch # ch
        BY <3>1 DEF NextMode, ModeInv
      <4>2. chan'[ch] = r
        BY <2>1, <3>1, <4>1 DEF NextMode, ApplyMode, ApplyOp, RefuseMode
      <4>3. QED
        BY <2>2, <4>2
    <3>2. QED
      BY <2>2, <2>7, <3>1 DEF broadcastModeChanges, EndOfHandler
  <2>8. ASSUME NEW c \in Fd, Connection(c)
        PROVE  Frozen(r, chan'[ch])
    BY <2>2, <2>3, <2>8 DEF Connection, acceptClient, disconnectClient, disconnectClientNow,
       finalizeDisconnect, teardownClientState
  <2>9. ASSUME NEW c \in Fd, Command(c)
        PROVE  Frozen(r, chan'[ch])
    <3>1. CASE UNCHANGED chan
      BY <2>2, <3>1
    <3>2. ASSUME NEW x \in Channel, NEW n, cmdKick(c, x, n)
          PROVE  Frozen(r, chan'[ch])
      BY <2>4, <3>2 DEF cmdKick
    <3>3. ASSUME NEW x \in Channel, NEW n, cmdInvite(c, x, n)
          PROVE  Frozen(r, chan'[ch])
      <4>1. CASE x # ch
        BY <2>1, <2>2, <3>3, <4>1 DEF cmdInvite
      <4>2. CASE x = ch
        <5>1. ~r.modes.i
          BY <2>1, <3>3, <4>2 DEF cmdInvite
        <5>2. PICK t : chan' = [chan EXCEPT ![ch].invites = @ \cup {t}]
          BY <3>3, <4>2 DEF cmdInvite
        <5>3. chan'[ch].ops = {} /\ chan'[ch].modes = r.modes
          BY <2>1, <5>2 DEF ChannelType
        <5>4. QED
          BY <5>1, <5>3 DEF Frozen
      <4>3. QED
        BY <4>1, <4>2
    <3>4. ASSUME NEW x \in Channel, NEW t, cmdTopic(c, x, t)
          PROVE  Frozen(r, chan'[ch])
      BY <2>1, <2>2, <3>4 DEF cmdTopic, Frozen, ChannelType
    <3>5. QED
      BY <2>3, <2>9, <3>1, <3>2, <3>3, <3>4 DEF Command, cmdPass, cmdNickUnregistered,
         cmdNickRegistered, cmdUser, completeRegistration, teardownClientState, cmdJoin,
         cmdPart, partAllChannels, ChannelText, handleChannelMode
  <2>10. QED
    BY <2>5, <2>6, <2>7, <2>8, <2>9 DEF Next, Handler
<1>2. [Keep]_vars => [\A ch \in Channel : OplessStep(ch)]_vars
  BY DEF OplessStep, Frozen
<1> HIDE DEF Keep
<1>3. QED
  BY <1>1, <1>2, Invariance, InitModeInv, NextModeInv, PTL DEF Spec, OplessIsFrozen

-----------------------------------------------------------------------------
(***************************************************************************)
(* ViewsAgree and NeverConfused: every line a handler queues makes sense   *)
(* to the client that reads it, and who reads them all knows the channels. *)
(***************************************************************************)

(* What a channel object r looks like to a member, where N has the         *)
(* nicknames, and to client d.                                             *)
Names(N, S) == {N[m] : m \in S}

Shown(N, r) == [on |-> TRUE, who |-> Names(N, r.members), ops |-> Names(N, r.ops),
                modes |-> r.modes, topic |-> r.topic]

Picture(N, r, d) == IF d \in r.members THEN Shown(N, r) ELSE Nowhere

Nicks == [Fd -> Token \cup {Star}]

Distinct(N, S) == \A a, b \in S : N[a] = N[b] => a = b

-----------------------------------------------------------------------------
(* Pictures.                                                               *)

LEMMA PictureEqual ==
  ASSUME NEW p \in PictureType, NEW q \in PictureType,
         p.on = q.on, p.who = q.who, p.ops = q.ops, p.modes = q.modes, p.topic = q.topic
  PROVE  p = q
  BY DEF PictureType

LEMMA NamesType ==
  ASSUME NEW N \in Nicks, NEW S \in SUBSET Fd
  PROVE  Names(N, S) \in SUBSET (Token \cup {Star})
  BY DEF Names, Nicks

LEMMA NowhereType == Nowhere \in PictureType /\ Stranger \in ViewType
<1>1. Nowhere \in PictureType
  BY DEF Nowhere, PictureType, NoModes, ModesType
<1>2. QED
  BY <1>1 DEF Stranger, ViewType

LEMMA ShownType ==
  ASSUME NEW N \in Nicks, NEW r \in ChannelType
  PROVE  Shown(N, r) \in PictureType
<1>1. r.members \in SUBSET Fd /\ r.ops \in SUBSET Fd /\ r.modes \in ModesType
      /\ r.topic \in Token \cup {Empty}
  BY DEF ChannelType
<1>2. QED
  BY <1>1, NamesType DEF Shown, PictureType

LEMMA NamesAdd ==
  ASSUME NEW N, NEW S, NEW c
  PROVE  Names(N, S \cup {c}) = Names(N, S) \cup {N[c]}
  BY DEF Names

LEMMA NamesRemove ==
  ASSUME NEW N, NEW S, NEW c, Distinct(N, S \cup {c})
  PROVE  Names(N, S \ {c}) = Names(N, S) \ {N[c]}
  BY DEF Names, Distinct

(* A member less, and the names of those who stay.                         *)
LEMMA ShownLeave ==
  ASSUME NEW N \in Nicks, NEW r \in ChannelType, NEW c \in r.members, NEW d \in r.members,
         d # c, r.ops \subseteq r.members, Distinct(N, r.members)
  PROVE  Picture(N, removeIfEmpty(removeMember(r, c)), d) = Forget(Shown(N, r), N[c])
<1> DEFINE q == removeMember(r, c)
           p == Shown(N, r)
<1>1. /\ q \in ChannelType
      /\ q.members = r.members \ {c} /\ q.ops = r.ops \ {c}
      /\ q.modes = r.modes /\ q.topic = r.topic
  BY DEF removeMember, ChannelType
<1>2. removeIfEmpty(q) = q /\ d \in q.members
  BY <1>1 DEF removeIfEmpty
<1>3. Names(N, q.members) = p.who \ {N[c]} /\ Names(N, q.ops) = p.ops \ {N[c]}
  <2>1. Distinct(N, r.members \cup {c}) /\ Distinct(N, r.ops \cup {c})
    BY DEF Distinct
  <2>2. QED
    BY <1>1, <2>1, NamesRemove DEF Shown
<1>4. p \in PictureType /\ Shown(N, q) \in PictureType
  BY <1>1, ShownType
<1>5. /\ Forget(p, N[c]) \in PictureType
      /\ Forget(p, N[c]).who = p.who \ {N[c]} /\ Forget(p, N[c]).ops = p.ops \ {N[c]}
      /\ Forget(p, N[c]).on = p.on /\ Forget(p, N[c]).modes = p.modes
      /\ Forget(p, N[c]).topic = p.topic
  BY <1>4 DEF Forget, PictureType
<1>6. Shown(N, q) = Forget(p, N[c])
  <2>1. Shown(N, q).on = p.on /\ Shown(N, q).modes = p.modes /\ Shown(N, q).topic = p.topic
    BY <1>1 DEF Shown
  <2>2. Shown(N, q).who = p.who \ {N[c]} /\ Shown(N, q).ops = p.ops \ {N[c]}
    BY <1>3 DEF Shown
  <2>3. QED
    BY <1>4, <1>5, <2>1, <2>2, PictureEqual
<1>7. QED
  BY <1>2, <1>6 DEF Picture

-----------------------------------------------------------------------------
(* What one line does to what a client knows: it makes sense, and channel  *)
(* ch now looks like p.                                                    *)
Turned(v, w, ch, p) ==
    /\ w \in ViewType
    /\ w.me = v.me /\ w.ok
    /\ w.at[ch] = p
    /\ \A x \in Channel \ {ch} : w.at[x] = v.at[x]

LEMMA ForgetType ==
  ASSUME NEW p \in PictureType, NEW n
  PROVE  Forget(p, n) \in PictureType
  BY DEF Forget, PictureType

LEMMA HearPartView ==
  ASSUME NEW v \in ViewType, NEW ch \in Channel, NEW n,
         v.ok, v.at[ch].on, n \in v.at[ch].who
  PROVE  Turned(v, HearPart(v, n, ch), ch, IF n = v.me THEN Nowhere ELSE Forget(v.at[ch], n))
<1> DEFINE p == IF n = v.me THEN Nowhere ELSE Forget(v.at[ch], n)
           w == [v EXCEPT !.ok = @ /\ v.at[ch].on /\ n \in v.at[ch].who, !.at[ch] = p]
<1>1. v.at \in [Channel -> PictureType]
  BY DEF ViewType
<1>2. p \in PictureType
  BY <1>1, ForgetType, NowhereType
<1>3. HearPart(v, n, ch) = w
  BY <1>1 DEF HearPart, ViewType
<1>4. w.at = [v.at EXCEPT ![ch] = p] /\ w.me = v.me /\ w.ok
  BY DEF ViewType
<1> HIDE DEF p
<1>5. w \in ViewType
  BY <1>1, <1>2 DEF ViewType
<1>6. QED
  BY <1>1, <1>3, <1>4, <1>5 DEF Turned, p

LEMMA HearTopicView ==
  ASSUME NEW v \in ViewType, NEW ch \in Channel, NEW t \in Token \cup {Empty},
         v.ok, v.at[ch].on
  PROVE  Turned(v, HearTopic(v, ch, t), ch, [v.at[ch] EXCEPT !.topic = t])
<1> DEFINE p == [v.at[ch] EXCEPT !.topic = t]
           w == [v EXCEPT !.ok = @ /\ v.at[ch].on, !.at[ch] = p]
<1>1. v.at \in [Channel -> PictureType]
  BY DEF ViewType
<1>2. p \in PictureType
  BY <1>1 DEF PictureType
<1>3. HearTopic(v, ch, t) = w
  BY <1>1 DEF HearTopic, ViewType
<1>4. w.at = [v.at EXCEPT ![ch] = p] /\ w.me = v.me /\ w.ok
  BY DEF ViewType
<1> HIDE DEF p
<1>5. w \in ViewType
  BY <1>1, <1>2 DEF ViewType
<1>6. QED
  BY <1>1, <1>3, <1>4, <1>5 DEF Turned, p

(* The JOIN of another client.                                             *)
LEMMA HearJoinView ==
  ASSUME NEW v \in ViewType, NEW ch \in Channel, NEW n \in Token \cup {Star},
         v.ok, n # v.me, v.at[ch].on, n \notin v.at[ch].who
  PROVE  Turned(v, HearJoin(v, n, ch), ch, [v.at[ch] EXCEPT !.who = @ \cup {n}])
<1> DEFINE p == [v.at[ch] EXCEPT !.who = @ \cup {n}]
           w == [v EXCEPT !.ok = @ /\ v.at[ch].on /\ n \notin v.at[ch].who, !.at[ch] = p]
<1>1. v.at \in [Channel -> PictureType]
  BY DEF ViewType
<1>2. p \in PictureType
  BY <1>1 DEF PictureType
<1>3. HearJoin(v, n, ch) = w
  BY <1>1 DEF HearJoin, ViewType
<1>4. w.at = [v.at EXCEPT ![ch] = p] /\ w.me = v.me /\ w.ok
  BY DEF ViewType
<1> HIDE DEF p
<1>5. w \in ViewType
  BY <1>1, <1>2 DEF ViewType
<1>6. QED
  BY <1>1, <1>3, <1>4, <1>5 DEF Turned, p

(* The own JOIN, with the replies that follow it.                          *)
LEMMA HearBurstView ==
  ASSUME NEW v \in ViewType, NEW ch \in Channel, NEW r \in ChannelType, nick \in Nicks,
         v.ok, ~v.at[ch].on
  PROVE  Turned(v, HearBurst(HearJoin(v, v.me, ch), ch, r), ch, Shown(nick, r))
<1> DEFINE u == [v EXCEPT !.ok = @ /\ ~v.at[ch].on, !.at[ch] = [Nowhere EXCEPT !.on = TRUE]]
           w == [u EXCEPT !.at[ch] = Shown(nick, r)]
<1>1. v.at \in [Channel -> PictureType] /\ Shown(nick, r) \in PictureType
  BY ShownType DEF ViewType
<1>2. [Nowhere EXCEPT !.on = TRUE] \in PictureType
  BY NowhereType DEF PictureType
<1>3. HearJoin(v, v.me, ch) = u
  BY DEF HearJoin
<1>4. HearBurst(u, ch, r) = w
  BY DEF HearBurst, Shown, Names
<1>5. /\ u \in ViewType /\ u.me = v.me /\ u.ok
      /\ u.at = [v.at EXCEPT ![ch] = [Nowhere EXCEPT !.on = TRUE]]
  BY <1>1, <1>2 DEF ViewType
<1> HIDE DEF u
<1>6. w \in ViewType /\ w.me = u.me /\ w.ok = u.ok /\ w.at = [u.at EXCEPT ![ch] = Shown(nick, r)]
  BY <1>1, <1>5 DEF ViewType
<1> HIDE DEF w
<1>7. QED
  BY <1>1, <1>3, <1>4, <1>5, <1>6 DEF Turned

-----------------------------------------------------------------------------
(* What the lines of a MODE loop still to be sent will do to a picture.    *)
Changed(p, x) ==
    IF x.letter = "o"
    THEN [p EXCEPT !.ops = IF x.add THEN @ \cup {x.arg} ELSE @ \ {x.arg}]
    ELSE [p EXCEPT !.modes = SetMode(@, x)]

Behind(ch) == job.op = "mode" /\ job.ch = ch

(* The members of a channel whose MODE changes are not announced yet share *)
(* a picture h[0]; the announcements lead from it to the channel by way of *)
(* the pictures h[1], h[2], ..., with the same names in each.              *)
CatchesUp(N, V, ch, r, done) ==
    \E h \in [0 .. Len(done) -> PictureType] :
        /\ \A d \in r.members : V[d].at[ch] = h[0]
        /\ h[Len(done)] = Shown(N, r)
        /\ \A k \in 1 .. Len(done) : h[k] = Changed(h[k - 1], done[k])
        /\ \A k \in 0 .. Len(done) : h[k].on /\ h[k].who = Names(N, r.members)
        /\ \A k \in 1 .. Len(done) :
                done[k].letter = "o" => done[k].arg \in Names(N, r.members)

(* The inductive invariant behind ViewsAgree and NeverConfused.  Who has   *)
(* not registered, or has begun to leave, has been told nothing that       *)
(* counts; JOIN 0 still has only channels to leave that its client is on.  *)
ViewInv ==
    /\ view \in [Fd -> ViewType]
    /\ \A d \in Fd : view[d].ok
    /\ \A d \in Fd \ Present : view[d] = Stranger
    /\ \A d \in Present : view[d].me = nick[d]
    /\ \A d \in Present, ch \in Channel :
            ~Behind(ch) \/ d \notin chan[ch].members =>
                view[d].at[ch] = Picture(nick, chan[ch], d)
    /\ \A ch \in Channel : Behind(ch) => CatchesUp(nick, view, ch, chan[ch], job.done)
    /\ job.op = "partAll" => \A ch \in job.rest : job.by \in chan[ch].members

LEMMA Basics ==
  ASSUME IInv
  PROVE  /\ nick \in Nicks /\ Present \in SUBSET Fd /\ Distinct(nick, Present)
         /\ chan \in [Channel -> ChannelType]
         /\ \A ch \in Channel :
                /\ chan[ch].members \subseteq Present
                /\ chan[ch].ops \subseteq chan[ch].members
                /\ chan[ch].members = {} => chan[ch] = NoChannel
         /\ \A d \in Present : nick[d] \in Token
  BY DEF IInv, ServerTypeOK, Nicks, Present, Distinct, NickUnique, ircEquals, Live,
     NoStaleReference, ChannelLivesWithMembers

(* A step that changes what one channel is, and of what clients know only  *)
(* what they know of that channel.                                         *)
LEMMA OneChannel ==
  ASSUME IInv, ViewInv, UNCHANGED session, job.op # "mode", job'.op # "mode",
         job'.op = "partAll" => \A x \in job'.rest : job'.by \in chan'[x].members,
         NEW ch \in Channel, NEW q, chan' = [chan EXCEPT ![ch] = q],
         view' = [d \in Fd |-> view'[d]],
         \A d \in Fd \ Present : view'[d] = view[d],
         \A d \in Present : Turned(view[d], view'[d], ch, Picture(nick, q, d))
  PROVE  ViewInv'
<1>1. /\ Present \in SUBSET Fd /\ chan \in [Channel -> ChannelType]
      /\ Present' = Present /\ nick' = nick
  BY Basics DEF session, Present
<1>2. view' \in [Fd -> ViewType] /\ \A d \in Fd : view'[d].ok
  <2>1. \A d \in Fd : view'[d] \in ViewType /\ view'[d].ok
    BY <1>1 DEF ViewInv, Turned
  <2>2. QED
    BY <2>1
<1>3. \A d \in Fd \ Present' : view'[d] = Stranger
  BY <1>1 DEF ViewInv
<1>4. \A d \in Present' : view'[d].me = nick'[d]
  BY <1>1 DEF ViewInv, Turned
<1>5. ASSUME NEW d \in Present', NEW x \in Channel
      PROVE  view'[d].at[x] = Picture(nick', chan'[x], d)
  <2>1. CASE x = ch
    BY <1>1, <2>1 DEF Turned
  <2>2. CASE x # ch
    <3>1. view'[d].at[x] = view[d].at[x] /\ chan'[x] = chan[x]
      BY <1>1, <2>2 DEF Turned
    <3>2. QED
      BY <1>1, <3>1 DEF ViewInv, Behind
  <2>3. QED
    BY <2>1, <2>2
<1>6. QED
  BY <1>2, <1>3, <1>4, <1>5 DEF ViewInv, Behind

(* A step that only moves a handler's loop on, outside MODE.               *)
LEMMA ViewFrame ==
  ASSUME IInv, ViewInv, UNCHANGED <<session, chan, view>>, job.op # "mode", job'.op # "mode",
         job'.op = "partAll" => \A x \in job'.rest : job'.by \in chan'[x].members
  PROVE  ViewInv'
<1>1. Present' = Present /\ nick' = nick /\ chan' = chan /\ view' = view
  BY DEF session, Present
<1>2. QED
  BY <1>1 DEF ViewInv, Behind

(* Who hears nothing of it and was not on the channel, is not on it now.   *)
LEMMA Unmoved ==
  ASSUME IInv, ViewInv, NEW d \in Present, NEW ch \in Channel, NEW q,
         d \notin chan[ch].members, d \notin q.members
  PROVE  Turned(view[d], view[d], ch, Picture(nick, q, d))
<1>1. d \in Fd /\ view[d] \in ViewType /\ view[d].ok
  BY Basics DEF ViewInv
<1>2. view[d].at[ch] = Picture(nick, chan[ch], d)
  BY DEF ViewInv
<1>3. QED
  BY <1>1, <1>2 DEF Turned, Picture

(* PART, JOIN 0 and KICK: the members are told, the leaver too, and then   *)
(* it is taken out.                                                        *)
LEMMA LeaveView ==
  ASSUME IInv, ViewInv, UNCHANGED session, job.op # "mode", job'.op # "mode",
         job'.op = "partAll" => \A x \in job'.rest : job'.by \in chan'[x].members,
         NEW ch \in Channel, NEW c \in chan[ch].members,
         chan' = [chan EXCEPT ![ch] = removeIfEmpty(removeMember(@, c))],
         view' = [d \in Fd |-> IF d \in chan[ch].members
                               THEN HearPart(view[d], nick[c], ch) ELSE view[d]]
  PROVE  ViewInv'
<1> DEFINE r == chan[ch]
           q == removeIfEmpty(removeMember(r, c))
<1>1. /\ nick \in Nicks /\ Present \in SUBSET Fd /\ Distinct(nick, Present)
      /\ r \in ChannelType /\ r.members \subseteq Present /\ r.ops \subseteq r.members
  BY Basics
<1>2. q.members = r.members \ {c}
  BY <1>1 DEF removeIfEmpty, removeMember, NoChannel, ChannelType
<1>3. ASSUME NEW d \in Present
      PROVE  Turned(view[d], view'[d], ch, Picture(nick, q, d))
  <2>1. /\ d \in Fd /\ view[d] \in ViewType /\ view[d].ok /\ view[d].me = nick[d]
        /\ view[d].at[ch] = Picture(nick, r, d)
    BY <1>1 DEF ViewInv, Behind
  <2>2. CASE d \notin r.members
    BY <1>1, <1>2, <2>2, Unmoved
  <2>3. CASE d \in r.members
    <3>1. view[d].at[ch] = Shown(nick, r) /\ view'[d] = HearPart(view[d], nick[c], ch)
      BY <2>1, <2>3 DEF Picture
    <3>2. view[d].at[ch].on /\ nick[c] \in view[d].at[ch].who
      BY <3>1 DEF Shown, Names
    <3>3. Turned(view[d], view'[d], ch,
                 IF nick[c] = view[d].me THEN Nowhere ELSE Forget(view[d].at[ch], nick[c]))
      BY <2>1, <3>1, <3>2, HearPartView
    <3>4. CASE d = c
      BY <1>2, <2>1, <3>3, <3>4 DEF Picture
    <3>5. CASE d # c
      <4>1. nick[c] # view[d].me
        BY <1>1, <2>1, <3>5 DEF Distinct
      <4>2. Distinct(nick, r.members)
        BY <1>1 DEF Distinct
      <4>3. Picture(nick, q, d) = Forget(Shown(nick, r), nick[c])
        BY <1>1, <2>3, <3>5, <4>2, ShownLeave
      <4>4. QED
        BY <3>1, <3>3, <4>1, <4>3
    <3>6. QED
      BY <3>4, <3>5
  <2>4. QED
    BY <2>2, <2>3
<1>4. \A d \in Fd \ Present : view'[d] = view[d]
  BY <1>1
<1>5. chan' = [chan EXCEPT ![ch] = q] /\ view' = [d \in Fd |-> view'[d]]
  OBVIOUS
<1> HIDE DEF q
<1>6. QED
  BY <1>3, <1>4, <1>5, OneChannel

LEMMA PartView ==
  ASSUME IInv, ViewInv, NextPart
  PROVE  ViewInv'
<1>1. /\ job \in [op : {"part"}, by : Fd, rest : Seq(Channel)] /\ job.rest # <<>>
      /\ job' = [job EXCEPT !.rest = Tail(@)] /\ UNCHANGED session
  BY JobKinds DEF NextPart, IInv, ServerTypeOK
<1>2. job.op = "part" /\ job'.op = "part" /\ Head(job.rest) \in Channel
  BY <1>1, HeadTailProperties
<1>3. CASE UNCHANGED <<chan, view>>
  BY <1>1, <1>2, <1>3, ViewFrame
<1>4. CASE job.by \in chan[Head(job.rest)].members /\ PartChannel(job.by, Head(job.rest))
  BY <1>1, <1>2, <1>4, LeaveView DEF PartChannel, Heard
<1>5. QED
  BY <1>3, <1>4 DEF NextPart

LEMMA PartAllView ==
  ASSUME IInv, ViewInv, NextPartAll
  PROVE  ViewInv'
<1>1. job \in [op : {"partAll"}, by : Fd, rest : SUBSET Channel] /\ UNCHANGED session
  BY JobKinds DEF NextPartAll, IInv, ServerTypeOK
<1>2. PICK ch \in job.rest : /\ PartChannel(job.by, ch)
                             /\ job' = [job EXCEPT !.rest = @ \ {ch}]
  BY DEF NextPartAll
<1>3. /\ job.op = "partAll" /\ job'.op = "partAll" /\ job'.by = job.by
      /\ job'.rest = job.rest \ {ch} /\ ch \in Channel
  BY <1>1, <1>2
<1>4. \A x \in job.rest : job.by \in chan[x].members
  BY <1>3 DEF ViewInv
<1>5. \A x \in job'.rest : job'.by \in chan'[x].members
  BY <1>1, <1>2, <1>3, <1>4, Basics DEF PartChannel
<1>6. QED
  BY <1>1, <1>2, <1>3, <1>4, <1>5, LeaveView DEF PartChannel, Heard

LEMMA KickView ==
  ASSUME IInv, ViewInv, NEW c \in Fd, NEW ch \in Channel, NEW n, cmdKick(c, ch, n)
  PROVE  ViewInv'
<1>1. job = Idle /\ UNCHANGED <<session, job>>
  BY DEF cmdKick, Registered, Ready
<1>2. job.op = "idle" /\ job'.op = "idle"
  BY <1>1, IdleFacts
<1>3. PICK t \in chan[ch].members :
        /\ view' = [d \in Fd |-> IF d \in chan[ch].members
                                 THEN HearPart(view[d], nick[t], ch) ELSE view[d]]
        /\ chan' = [chan EXCEPT ![ch] = removeIfEmpty(removeMember(@, t))]
  BY DEF cmdKick, Heard, findMember
<1>4. QED
  BY <1>1, <1>2, <1>3, LeaveView

LEMMA TopicView ==
  ASSUME IInv, ViewInv, NEW c \in Fd, NEW ch \in Channel, NEW t \in Topics,
         cmdTopic(c, ch, t)
  PROVE  ViewInv'
<1> DEFINE r == chan[ch]
           q == [r EXCEPT !.topic = t]
<1>1. job = Idle /\ UNCHANGED <<session, job>> /\ t \in Token \cup {Empty}
  BY TokenAssumption DEF cmdTopic, Registered, Ready
<1>2. job.op = "idle" /\ job'.op = "idle"
  BY <1>1, IdleFacts
<1>3. /\ nick \in Nicks /\ Present \in SUBSET Fd
      /\ r \in ChannelType /\ r.members \subseteq Present
  BY Basics
<1>4. /\ chan' = [chan EXCEPT ![ch] = q]
      /\ view' = [d \in Fd |-> IF d \in r.members THEN HearTopic(view[d], ch, t) ELSE view[d]]
  BY DEF cmdTopic, Heard
<1>5. /\ q \in ChannelType /\ q.members = r.members /\ q.ops = r.ops
      /\ q.modes = r.modes /\ q.topic = t
  BY <1>1, <1>3 DEF ChannelType
<1> HIDE DEF q
<1>6. Shown(nick, q) = [Shown(nick, r) EXCEPT !.topic = t]
  <2> DEFINE p == Shown(nick, r)
  <2>1. p \in PictureType /\ Shown(nick, q) \in PictureType
    BY <1>3, <1>5, ShownType
  <2>2. /\ Shown(nick, q).on = p.on /\ Shown(nick, q).who = p.who
        /\ Shown(nick, q).ops = p.ops /\ Shown(nick, q).modes = p.modes
        /\ Shown(nick, q).topic = t
    BY <1>5 DEF Shown
  <2>3. QED
    BY <2>1, <2>2 DEF PictureType
<1>7. ASSUME NEW d \in Present
      PROVE  Turned(view[d], view'[d], ch, Picture(nick, q, d))
  <2>1. /\ d \in Fd /\ view[d] \in ViewType /\ view[d].ok
        /\ view[d].at[ch] = Picture(nick, r, d)
    BY <1>2, <1>3 DEF ViewInv, Behind
  <2>2. CASE d \notin r.members
    BY <1>3, <1>4, <1>5, <2>1, <2>2, Unmoved
  <2>3. CASE d \in r.members
    <3>1. view[d].at[ch] = Shown(nick, r) /\ view'[d] = HearTopic(view[d], ch, t)
      BY <1>4, <2>1, <2>3 DEF Picture
    <3>2. view[d].at[ch].on
      BY <3>1 DEF Shown
    <3>3. Turned(view[d], view'[d], ch, [view[d].at[ch] EXCEPT !.topic = t])
      BY <1>1, <2>1, <3>1, <3>2, HearTopicView
    <3>4. QED
      BY <1>5, <1>6, <2>3, <3>1, <3>3 DEF Picture
  <2>4. QED
    BY <2>2, <2>3
<1>8. \A d \in Fd \ Present : view'[d] = view[d]
  BY <1>3, <1>4
<1>9. view' = [d \in Fd |-> view'[d]]
  BY <1>4
<1>10. QED
  BY <1>1, <1>2, <1>4, <1>7, <1>8, <1>9, OneChannel

(* A text to a channel its receivers are on, from a member they know.      *)
LEMMA TextView ==
  ASSUME IInv, ViewInv, NEW c \in Fd, NEW ch \in Channel, ChannelText(c, ch)
  PROVE  ViewInv'
<1>1. job = Idle /\ UNCHANGED <<session, chan, job>> /\ c \in chan[ch].members
  BY DEF ChannelText, Registered, Ready
<1>2. job.op = "idle" /\ job'.op = "idle"
  BY <1>1, IdleFacts
<1>3. view' = [d \in Fd |-> IF d \in chan[ch].members \ {c}
                            THEN HearText(view[d], nick[c], ch) ELSE view[d]]
  BY DEF ChannelText, Heard
<1>4. ASSUME NEW d \in chan[ch].members
      PROVE  HearText(view[d], nick[c], ch) = view[d]
  <2>1. d \in Fd /\ d \in Present /\ view[d] \in ViewType /\ view[d].ok
    BY Basics DEF ViewInv
  <2>2. view[d].at[ch] = Shown(nick, chan[ch])
    BY <1>2, <2>1 DEF ViewInv, Behind, Picture
  <2>3. view[d].at[ch].on /\ nick[c] \in view[d].at[ch].who
    BY <1>1, <2>2 DEF Shown, Names
  <2>4. QED
    BY <2>1, <2>3 DEF HearText, ViewType
<1>5. view \in [Fd -> ViewType]
  BY DEF ViewInv
<1>6. view' = view
  BY <1>3, <1>4, <1>5
<1>7. QED
  BY <1>1, <1>2, <1>6, ViewFrame

(* A member more, as those who were there before see it.                   *)
LEMMA ShownJoin ==
  ASSUME NEW N \in Nicks, NEW r \in ChannelType, NEW c \in Fd, r.live
  PROVE  /\ Joined(c, r).members = r.members \cup {c}
         /\ Shown(N, Joined(c, r)) = [Shown(N, r) EXCEPT !.who = @ \cup {N[c]}]
<1> DEFINE q == Joined(c, r)
           p == Shown(N, r)
<1>1. /\ q \in ChannelType
      /\ q.members = r.members \cup {c} /\ q.ops = r.ops
      /\ q.modes = r.modes /\ q.topic = r.topic
  BY DEF Joined, removeInvite, ChannelType
<1> HIDE DEF q
<1>2. p \in PictureType /\ Shown(N, q) \in PictureType
  BY <1>1, ShownType
<1>3. /\ Shown(N, q).on = p.on /\ Shown(N, q).who = p.who \cup {N[c]}
      /\ Shown(N, q).ops = p.ops /\ Shown(N, q).modes = p.modes
      /\ Shown(N, q).topic = p.topic
  <2>1. Names(N, r.members \cup {c}) = Names(N, r.members) \cup {N[c]}
    BY NamesAdd
  <2>2. QED
    BY <1>1, <2>1 DEF Shown
<1>4. Shown(N, q) = [p EXCEPT !.who = @ \cup {N[c]}]
  BY <1>2, <1>3 DEF PictureType
<1>5. QED
  BY <1>1, <1>4 DEF q

(* The members are told of the newcomer, who is told of the channel.       *)
LEMMA JoinChannelView ==
  ASSUME IInv, ViewInv, UNCHANGED session, job.op = "join", job'.op = "join",
         NEW c \in Present, NEW ch \in Channel, NEW key, JoinChannel(c, ch, key)
  PROVE  ViewInv'
<1> DEFINE r == chan[ch]
           q == Joined(c, r)
<1>1. /\ nick \in Nicks /\ Present \in SUBSET Fd /\ Distinct(nick, Present)
      /\ r \in ChannelType /\ r.members \subseteq Present
      /\ r.members = {} => r = NoChannel
      /\ \A d \in Present : nick[d] \in Token
  BY Basics
<1>2. c \in Fd /\ c \notin r.members
  <2>1. r.live => c \notin r.members
    BY DEF JoinChannel
  <2>2. ~r.live => r = NoChannel
    BY DEF IInv, ChannelLivesWithMembers
  <2>3. QED
    BY <1>1, <2>1, <2>2 DEF NoChannel
<1>3. Good(q, Present) /\ q.members = r.members \cup {c}
  <2>1. Good(r, Present)
    BY Parts DEF ChannelInv
  <2>2. Good(q, Present)
    BY <1>1, <2>1, JoinedGood
  <2>3. CASE r.live
    BY <1>1, <1>2, <2>2, <2>3, ShownJoin
  <2>4. CASE ~r.live
    <3>1. r.members = {} /\ q = NewChannel(c)
      BY <2>1, <2>4 DEF Good, NoChannel, Joined
    <3>2. QED
      BY <2>2, <3>1 DEF NewChannel, NoChannel
  <2>5. QED
    BY <2>3, <2>4
<1>4. q \in ChannelType
  BY <1>3 DEF Good
<1>5. /\ chan' = [chan EXCEPT ![ch] = q]
      /\ view' = [[d \in Fd |-> IF d \in q.members THEN HearJoin(view[d], nick[c], ch)
                                ELSE view[d]]
                  EXCEPT ![c] = HearBurst(@, ch, q)]
  BY DEF JoinChannel, Heard
<1>6. ASSUME NEW d \in Present
      PROVE  Turned(view[d], view'[d], ch, Picture(nick, q, d))
  <2>1. /\ d \in Fd /\ view[d] \in ViewType /\ view[d].ok /\ view[d].me = nick[d]
        /\ view[d].at[ch] = Picture(nick, r, d)
    BY <1>1 DEF ViewInv, Behind
  <2>2. CASE d = c
    <3>1. view[d].at[ch] = Nowhere /\ ~view[d].at[ch].on
      BY <1>2, <2>1, <2>2 DEF Picture, Nowhere
    <3>2. view'[d] = HearBurst(HearJoin(view[d], view[d].me, ch), ch, q)
      BY <1>2, <1>3, <1>5, <2>1, <2>2
    <3>3. Turned(view[d], view'[d], ch, Shown(nick, q))
      BY <1>1, <1>4, <2>1, <3>1, <3>2, HearBurstView
    <3>4. QED
      BY <1>3, <2>2, <3>3 DEF Picture
  <2>3. CASE d \in r.members /\ d # c
    <3>1. r.live
      BY <2>3 DEF IInv, ChannelLivesWithMembers, NoChannel
    <3>2. view[d].at[ch] = Shown(nick, r) /\ view'[d] = HearJoin(view[d], nick[c], ch)
      BY <1>3, <1>5, <2>1, <2>3 DEF Picture
    <3>3. view[d].at[ch].on /\ nick[c] \notin view[d].at[ch].who /\ nick[c] # view[d].me
      BY <1>1, <1>2, <2>1, <2>3, <3>2 DEF Shown, Names, Distinct
    <3>4. Turned(view[d], view'[d], ch, [view[d].at[ch] EXCEPT !.who = @ \cup {nick[c]}])
      BY <1>1, <2>1, <3>2, <3>3, HearJoinView
    <3>5. Shown(nick, q) = [Shown(nick, r) EXCEPT !.who = @ \cup {nick[c]}]
      BY <1>1, <1>2, <3>1, ShownJoin
    <3>6. QED
      BY <1>3, <2>3, <3>2, <3>4, <3>5 DEF Picture
  <2>4. CASE d \notin q.members
    <3>1. view'[d] = view[d] /\ d \notin r.members
      BY <1>3, <1>5, <2>1, <2>4
    <3>2. QED
      BY <2>4, <3>1, Unmoved
  <2>5. QED
    BY <1>3, <2>2, <2>3, <2>4
<1>7. \A d \in Fd \ Present : view'[d] = view[d]
  BY <1>1, <1>3, <1>5
<1>8. view' = [d \in Fd |-> view'[d]]
  BY <1>5
<1>9. job.op # "mode" /\ job'.op # "mode" /\ job'.op # "partAll"
  OBVIOUS
<1> HIDE DEF q
<1>10. QED
  BY <1>5, <1>6, <1>7, <1>8, <1>9, OneChannel

LEMMA JoinView ==
  ASSUME IInv, ViewInv, NextJoin
  PROVE  ViewInv'
<1>1. /\ job \in [op : {"join"}, by : Fd, rest : Seq(JoinItem)] /\ job.rest # <<>>
      /\ job' = [job EXCEPT !.rest = Tail(@)] /\ UNCHANGED session
  BY JobKinds DEF NextJoin, IInv, ServerTypeOK
<1>2. job.op = "join" /\ job'.op = "join" /\ Head(job.rest) \in JoinItem
  BY <1>1, HeadTailProperties
<1>3. job.by \in Present
  BY <1>2, IdleFacts DEF IInv, Present
<1> DEFINE ch == Head(job.rest)[1]
           key == Head(job.rest)[2]
<1>4. CASE UNCHANGED <<chan, view>>
  BY <1>1, <1>2, <1>4, ViewFrame
<1>5. CASE ch # BadChannel /\ JoinChannel(job.by, ch, key)
  <2>1. ch \in Channel
    BY <1>2, <1>5 DEF JoinItem
  <2> HIDE DEF ch, key
  <2>2. QED
    BY <1>1, <1>2, <1>3, <1>5, <2>1, JoinChannelView
<1>6. QED
  BY <1>4, <1>5 DEF NextJoin, SkipJoin

-----------------------------------------------------------------------------
(* Steps that many channels see: a client leaves the server, takes another *)
(* nickname, or registers.                                                 *)

(* v is what client d ought to know.                                       *)
Right(N, C, v, d) ==
    /\ v \in ViewType
    /\ v.ok /\ v.me = N[d]
    /\ \A ch \in Channel : v.at[ch] = Picture(N, C[ch], d)

LEMMA IdleViews ==
  ASSUME IInv, ViewInv, job = Idle, NEW d \in Present
  PROVE  Right(nick, chan, view[d], d)
<1>1. d \in Fd /\ job.op = "idle"
  BY Basics, IdleFacts
<1>2. QED
  BY <1>1 DEF ViewInv, Right, Behind

LEMMA RightViews ==
  ASSUME job' = Idle, Present' \subseteq Fd,
         view' = [d \in Fd |-> view'[d]],
         \A d \in Fd \ Present' : view'[d] = Stranger,
         \A d \in Present' : Right(nick', chan', view'[d], d)
  PROVE  ViewInv'
<1>1. job'.op = "idle"
  BY IdleFacts
<1>2. \A d \in Fd : view'[d] \in ViewType /\ view'[d].ok
  <2>1. Stranger \in ViewType /\ Stranger.ok
    BY NowhereType DEF Stranger
  <2>2. QED
    BY <2>1 DEF Right
<1>3. view' \in [Fd -> ViewType]
  BY <1>2
<1>4. QED
  BY <1>1, <1>2, <1>3 DEF ViewInv, Right, Behind

Without(r, c) ==
    IF c \in r.members THEN removeIfEmpty(removeMember(removeInvite(r, c), c))
    ELSE removeInvite(r, c)

LEMMA NamesSame ==
  ASSUME NEW N, NEW M, NEW S, \A m \in S : M[m] = N[m]
  PROVE  Names(M, S) = Names(N, S)
  BY DEF Names

(* The channel without c, if that was no member.                           *)
LEMMA PictureSame ==
  ASSUME NEW N, NEW M, NEW r \in ChannelType, NEW c, NEW d,
         c \notin r.members, r.ops \subseteq r.members, \A m \in r.members : M[m] = N[m]
  PROVE  /\ Picture(M, Without(r, c), d) = Picture(N, r, d)
         /\ Picture(M, r, d) = Picture(N, r, d)
<1> DEFINE q == removeInvite(r, c)
<1>1. /\ q.members = r.members /\ q.ops = r.ops
      /\ q.modes = r.modes /\ q.topic = r.topic
  BY DEF removeInvite, ChannelType
<1>2. Names(M, r.members) = Names(N, r.members) /\ Names(M, r.ops) = Names(N, r.ops)
  BY NamesSame
<1>3. Without(r, c) = q
  BY DEF Without
<1> HIDE DEF q
<1>4. Shown(M, q) = Shown(N, r) /\ Shown(M, r) = Shown(N, r)
  BY <1>1, <1>2 DEF Shown
<1>5. QED
  BY <1>1, <1>3, <1>4 DEF Picture

LEMMA ForgetUnknown ==
  ASSUME NEW p \in PictureType, NEW n, n \notin p.who, n \notin p.ops
  PROVE  Forget(p, n) = p
<1>1. p.who \ {n} = p.who /\ p.ops \ {n} = p.ops
  OBVIOUS
<1>2. QED
  BY <1>1 DEF Forget, PictureType

LEMMA ForgetNowhere ==
  ASSUME NEW n
  PROVE  Forget(Nowhere, n) = Nowhere
<1>1. n \notin Nowhere.who /\ n \notin Nowhere.ops
  BY DEF Nowhere
<1>2. QED
  BY <1>1, NowhereType, ForgetUnknown

LEMMA PeersAre ==
  ASSUME NEW c, NEW d
  PROVE  d \in Peers(c) <=> /\ d # c
                            /\ \E ch \in Channel : c \in chan[ch].members /\ d \in chan[ch].members
<1> DEFINE U == {chan[ch].members : ch \in OnChannels(c)}
<1>1. (\E M \in U : d \in M) <=> \E ch \in OnChannels(c) : d \in chan[ch].members
  OBVIOUS
<1>2. Peers(c) = (UNION U) \ {c}
  BY DEF Peers
<1> HIDE DEF U
<1>3. d \in Peers(c) <=> d # c /\ d \in UNION U
  BY <1>2
<1>4. QED
  BY <1>1, <1>3 DEF OnChannels

(* The channel without c, as d sees it who has heard the QUIT.             *)
LEMMA PictureWithout ==
  ASSUME NEW N \in Nicks, NEW M \in Nicks, NEW r \in ChannelType, NEW c, NEW d, d # c,
         r.ops \subseteq r.members, Distinct(N, r.members \cup {c}),
         \A m \in r.members \ {c} : M[m] = N[m]
  PROVE  Picture(M, Without(r, c), d) = Forget(Picture(N, r, d), N[c])
<1>1. CASE c \in r.members
  <2> DEFINE q == removeInvite(r, c)
             s == removeIfEmpty(removeMember(q, c))
  <2>1. /\ q \in ChannelType /\ q.members = r.members /\ q.ops = r.ops
        /\ q.modes = r.modes /\ q.topic = r.topic
    BY DEF removeInvite, ChannelType
  <2>2. Without(r, c) = s
    BY <1>1 DEF Without
  <2>3. s \in ChannelType /\ s.members = r.members \ {c} /\ s.ops \subseteq s.members
    BY <2>1, NoChannelType DEF removeIfEmpty, removeMember, NoChannel, ChannelType
  <2>4. Picture(M, s, d) = Picture(N, s, d)
    <3>1. \A m \in s.members : M[m] = N[m]
      BY <2>3
    <3>2. c \notin s.members
      BY <2>3
    <3>3. QED
      BY <2>3, <3>1, <3>2, PictureSame
  <2>5. Shown(N, q) = Shown(N, r)
    BY <2>1 DEF Shown
  <2>6. CASE d \in r.members
    <3>1. Picture(N, s, d) = Forget(Shown(N, q), N[c])
      <4>1. c \in q.members /\ d \in q.members /\ q.ops \subseteq q.members
            /\ Distinct(N, q.members)
        BY <1>1, <2>1, <2>6 DEF Distinct
      <4>2. QED
        BY <2>1, <4>1, ShownLeave
    <3>2. QED
      BY <2>2, <2>4, <2>5, <2>6, <3>1 DEF Picture
  <2>7. CASE d \notin r.members
    BY <2>2, <2>3, <2>7, ForgetNowhere DEF Picture
  <2>8. QED
    BY <2>6, <2>7
<1>2. CASE c \notin r.members
  <2>1. Picture(M, Without(r, c), d) = Picture(N, r, d)
    BY <1>2, PictureSame
  <2>2. CASE d \in r.members
    <3>1. N[c] \notin Names(N, r.members) /\ N[c] \notin Names(N, r.ops)
      BY <1>2 DEF Names, Distinct
    <3>2. Shown(N, r) \in PictureType
      BY ShownType
    <3>3. N[c] \notin Shown(N, r).who /\ N[c] \notin Shown(N, r).ops
      BY <3>1 DEF Shown
    <3>4. QED
      BY <2>1, <2>2, <3>2, <3>3, ForgetUnknown DEF Picture
  <2>3. CASE d \notin r.members
    BY <2>1, <2>3, ForgetNowhere DEF Picture
  <2>4. QED
    BY <2>2, <2>3
<1>3. QED
  BY <1>1, <1>2

LEMMA HearQuitView ==
  ASSUME NEW v \in ViewType, NEW n, v.ok, Knows(v, n)
  PROVE  LET w == HearQuit(v, n)
         IN  /\ w \in ViewType /\ w.ok /\ w.me = v.me
             /\ \A ch \in Channel : w.at[ch] = Forget(v.at[ch], n)
<1> DEFINE at == [ch \in Channel |-> Forget(v.at[ch], n)]
<1>1. at \in [Channel -> PictureType]
  BY ForgetType DEF ViewType
<1>2. HearQuit(v, n) = [v EXCEPT !.ok = @ /\ Knows(v, n), !.at = at]
  BY DEF HearQuit
<1>3. \A ch \in Channel : at[ch] = Forget(v.at[ch], n)
  OBVIOUS
<1> HIDE DEF at
<1>4. QED
  BY <1>1, <1>2, <1>3 DEF ViewType

(* A client is out of its channels and its peers have heard one QUIT, by   *)
(* whatever way it came to that; from here on it is told nothing.          *)
LEMMA TeardownView ==
  ASSUME IInv, ViewInv, job = Idle, UNCHANGED job, NEW c \in Fd, NEW n,
         c \in Present => n = nick[c], teardownClientState(c, n),
         Present' = Present \ {c}, nick' \in Nicks, \A d \in Fd \ {c} : nick'[d] = nick[d]
  PROVE  ViewInv'
<1>1. /\ nick \in Nicks /\ Present \in SUBSET Fd /\ Distinct(nick, Present)
      /\ chan \in [Channel -> ChannelType]
      /\ \A ch \in Channel : chan[ch].members \subseteq Present
                             /\ chan[ch].ops \subseteq chan[ch].members
  BY Basics
<1>2. chan' = [ch \in Channel |-> Without(chan[ch], c)]
  BY DEF teardownClientState, ChannelsWithout, Without
<1>3. view' = [[d \in Fd |-> IF d \in Peers(c) THEN HearQuit(view[d], n) ELSE view[d]]
               EXCEPT ![c] = Stranger]
  BY DEF teardownClientState, Heard
<1>4. Peers(c) \subseteq Present \ {c}
  BY <1>1, PeersAre
<1>5. ASSUME NEW d \in Fd \ Present'
      PROVE  view'[d] = Stranger
  <2>1. CASE d = c
    BY <1>3, <2>1
  <2>2. CASE d # c
    <3>1. d \notin Present /\ d \notin Peers(c)
      BY <1>4, <2>2
    <3>2. QED
      BY <1>3, <2>2, <3>1 DEF ViewInv
  <2>3. QED
    BY <2>1, <2>2
<1>6. ASSUME NEW d \in Present'
      PROVE  Right(nick', chan', view'[d], d)
  <2>1. d \in Fd /\ d \in Present /\ d # c /\ nick'[d] = nick[d]
    BY <1>1
  <2>2. Right(nick, chan, view[d], d)
    BY <2>1, IdleViews
  <2>3. ASSUME NEW ch \in Channel
        PROVE  \A m \in chan[ch].members \ {c} : nick'[m] = nick[m]
    BY <1>1
  <2>4. CASE d \in Peers(c)
    <3>1. PICK ch \in Channel : c \in chan[ch].members /\ d \in chan[ch].members
      BY <2>4, PeersAre
    <3>2. c \in Present /\ n = nick[c]
      BY <1>1, <3>1
    <3>3. Knows(view[d], n)
      <4>1. view[d].at[ch] = Shown(nick, chan[ch])
        BY <2>2, <3>1 DEF Right, Picture
      <4>2. n \in view[d].at[ch].who
        BY <3>1, <3>2, <4>1 DEF Shown, Names
      <4>3. QED
        BY <4>2 DEF Knows
    <3>4. view'[d] = HearQuit(view[d], n)
      BY <1>3, <2>1, <2>4
    <3>5. /\ view'[d] \in ViewType /\ view'[d].ok /\ view'[d].me = view[d].me
          /\ \A x \in Channel : view'[d].at[x] = Forget(view[d].at[x], n)
      BY <2>2, <3>3, <3>4, HearQuitView DEF Right
    <3>6. ASSUME NEW x \in Channel
          PROVE  view'[d].at[x] = Picture(nick', chan'[x], d)
      <4>1. Distinct(nick, chan[x].members \cup {c})
        BY <1>1, <3>2 DEF Distinct
      <4>2. Picture(nick', Without(chan[x], c), d) = Forget(Picture(nick, chan[x], d), nick[c])
        BY <1>1, <2>1, <2>3, <4>1, PictureWithout
      <4>3. QED
        BY <1>2, <2>2, <3>2, <3>5, <4>2 DEF Right
    <3>7. QED
      BY <2>1, <2>2, <3>5, <3>6 DEF Right
  <2>5. CASE d \notin Peers(c)
    <3>1. view'[d] = view[d]
      BY <1>3, <2>1, <2>5
    <3>2. ASSUME NEW x \in Channel
          PROVE  view[d].at[x] = Picture(nick', chan'[x], d)
      <4>1. CASE c \in chan[x].members
        <5>1. d \notin chan[x].members
          BY <2>1, <2>5, <4>1, PeersAre
        <5>2. Without(chan[x], c).members \subseteq chan[x].members
          BY <1>1, <4>1 DEF Without, removeIfEmpty, removeMember, removeInvite, NoChannel,
             ChannelType
        <5>3. QED
          BY <1>2, <2>2, <5>1, <5>2 DEF Right, Picture
      <4>2. CASE c \notin chan[x].members
        <5>1. \A m \in chan[x].members : nick'[m] = nick[m]
          BY <2>3, <4>2
        <5>2. Picture(nick', Without(chan[x], c), d) = Picture(nick, chan[x], d)
          BY <1>1, <4>2, <5>1, PictureSame
        <5>3. QED
          BY <1>2, <2>2, <5>2 DEF Right
      <4>3. QED
        BY <4>1, <4>2
    <3>3. QED
      BY <2>1, <2>2, <3>1, <3>2 DEF Right
  <2>6. QED
    BY <2>4, <2>5
<1>7. view' = [d \in Fd |-> view'[d]] /\ Present' \subseteq Fd /\ job' = Idle
  BY <1>1, <1>3
<1>8. QED
  BY <1>5, <1>6, <1>7, RightViews

LEMMA DisconnectView ==
  ASSUME IInv, ViewInv, NEW c \in Fd, disconnectClient(c) \/ disconnectClientNow(c)
  PROVE  ViewInv'
<1>1. SessionInv
  BY Parts
<1>2. /\ c \in conn /\ job = Idle /\ UNCHANGED job
      /\ teardownClientState(c, nick[c])
      /\ Forgotten(c) \/ (tearing' = tearing \cup {c} /\ UNCHANGED <<conn, reg, pass, user, nick>>)
  BY DEF disconnectClient, disconnectClientNow, Ready, Live
<1>3. Present' = Present \ {c} /\ nick' \in Nicks
  BY <1>1, <1>2, ForgottenStep, TearingStep DEF SessionInv, Nicks
<1>4. \A d \in Fd \ {c} : nick'[d] = nick[d]
  BY <1>1, <1>2 DEF Forgotten, SessionInv
<1>5. QED
  BY <1>2, <1>3, <1>4, TeardownView

(* A step that no channel and no registered client sees.                   *)
LEMMA UnseenView ==
  ASSUME IInv, ViewInv, job = Idle, UNCHANGED <<chan, job, view>>, Present' = Present,
         nick' \in Nicks, \A d \in Present : nick'[d] = nick[d]
  PROVE  ViewInv'
<1>1. /\ Present \in SUBSET Fd /\ chan \in [Channel -> ChannelType]
      /\ \A ch \in Channel : chan[ch].members \subseteq Present
                             /\ chan[ch].ops \subseteq chan[ch].members
  BY Basics
<1>2. \A d \in Fd \ Present' : view'[d] = Stranger
  BY DEF ViewInv
<1>3. ASSUME NEW d \in Present'
      PROVE  Right(nick', chan', view'[d], d)
  <2>1. Right(nick, chan, view[d], d)
    BY IdleViews
  <2>2. ASSUME NEW ch \in Channel
        PROVE  Picture(nick', chan[ch], d) = Picture(nick, chan[ch], d)
    <3>1. Names(nick', chan[ch].members) = Names(nick, chan[ch].members)
          /\ Names(nick', chan[ch].ops) = Names(nick, chan[ch].ops)
      BY <1>1, NamesSame
    <3>2. QED
      BY <3>1 DEF Picture, Shown
  <2>3. QED
    BY <2>1, <2>2 DEF Right
<1>4. view' = [d \in Fd |-> view'[d]]
  BY DEF ViewInv
<1>5. QED
  BY <1>1, <1>2, <1>3, <1>4, RightViews

LEMMA FinalizeView ==
  ASSUME IInv, ViewInv, NEW c \in Fd, finalizeDisconnect(c)
  PROVE  ViewInv'
<1>1. SessionInv /\ Forgotten(c) /\ c \in tearing /\ job = Idle /\ UNCHANGED <<chan, job, view>>
  BY Parts DEF finalizeDisconnect
<1>2. SessionInv' /\ Present' = Present \ {c} /\ c \notin Present
  BY <1>1, ForgottenStep DEF Present
<1>3. Present' = Present
  BY <1>2
<1>4. nick' \in Nicks /\ \A d \in Present : nick'[d] = nick[d]
  BY <1>1, <1>2, PresentType DEF Forgotten, SessionInv, Nicks
<1>5. QED
  BY <1>1, <1>3, <1>4, UnseenView

(* The client is let in, and knows its nickname; or it is torn down before *)
(* it was anywhere.                                                        *)
LEMMA CompleteView ==
  ASSUME IInv, ViewInv, job = Idle, UNCHANGED job, NEW c \in Live, c \notin reg,
         NEW n, completeRegistration(c, n),
         nick' \in Nicks, nick'[c] = n, \A d \in Fd \ {c} : nick'[d] = nick[d]
  PROVE  ViewInv'
<1>1. /\ Present \in SUBSET Fd /\ chan \in [Channel -> ChannelType]
      /\ \A ch \in Channel : chan[ch].members \subseteq Present
                             /\ chan[ch].ops \subseteq chan[ch].members
  BY Basics
<1>2. c \in Fd /\ c \notin Present /\ c \notin tearing
  BY DEF IInv, ServerTypeOK, Live, Present
<1>3. CASE /\ reg' = reg \cup {c} /\ view' = [view EXCEPT ![c].me = n]
           /\ UNCHANGED <<tearing, chan>>
  <2>1. Present' = Present \cup {c}
    BY <1>2, <1>3 DEF Present
  <2>2. view \in [Fd -> ViewType] /\ view[c] = Stranger
    BY <1>2 DEF ViewInv
  <2>3. view' = [d \in Fd |-> view'[d]] /\ \A d \in Fd \ {c} : view'[d] = view[d]
    BY <1>3, <2>2
  <2>4. \A d \in Fd \ Present' : view'[d] = Stranger
    BY <2>1, <2>3 DEF ViewInv
  <2>5. ASSUME NEW d \in Present
        PROVE  Right(nick', chan', view'[d], d)
    <3>1. Right(nick, chan, view[d], d) /\ d \in Fd /\ d # c
      BY <1>1, <1>2, IdleViews
    <3>2. ASSUME NEW ch \in Channel
          PROVE  Picture(nick', chan[ch], d) = Picture(nick, chan[ch], d)
      <4>1. /\ Names(nick', chan[ch].members) = Names(nick, chan[ch].members)
            /\ Names(nick', chan[ch].ops) = Names(nick, chan[ch].ops)
        BY <1>1, <1>2, NamesSame
      <4>2. QED
        BY <4>1 DEF Picture, Shown
    <3>3. QED
      BY <1>3, <2>3, <3>1, <3>2 DEF Right
  <2>6. Right(nick', chan', view'[c], c)
    <3>1. n \in Token \cup {Star}
      BY <1>2 DEF Nicks
    <3>2. /\ view'[c] = [Stranger EXCEPT !.me = n]
      BY <1>2, <1>3, <2>2
    <3>3. /\ view'[c] \in ViewType /\ view'[c].ok /\ view'[c].me = n
          /\ view'[c].at = Stranger.at
      BY <3>1, <3>2, NowhereType DEF ViewType, Stranger
    <3>4. \A ch \in Channel : view'[c].at[ch] = Nowhere /\ c \notin chan[ch].members
      BY <1>1, <1>2, <3>3 DEF Stranger
    <3>5. QED
      BY <1>3, <3>3, <3>4 DEF Right, Picture
  <2>7. Present' \subseteq Fd /\ job' = Idle
    BY <1>1, <1>2, <2>1
  <2>8. QED
    BY <2>1, <2>3, <2>4, <2>5, <2>6, <2>7, RightViews
<1>4. CASE teardownClientState(c, n) /\ tearing' = tearing \cup {c} /\ UNCHANGED reg
  <2>1. Present' = Present \ {c}
    BY <1>4 DEF Present
  <2>2. QED
    BY <1>2, <1>4, <2>1, TeardownView
<1>5. QED
  BY <1>3, <1>4 DEF completeRegistration

LEMMA UserView ==
  ASSUME IInv, ViewInv, NEW c \in Fd, cmdUser(c)
  PROVE  ViewInv'
<1>1. c \in Live /\ c \notin reg /\ job = Idle /\ UNCHANGED <<conn, pass, nick, job>>
  BY DEF cmdUser, Ready
<1>2. nick \in Nicks
  BY Basics
<1>3. CASE completeRegistration(c, nick[c])
  BY <1>1, <1>2, <1>3, CompleteView
<1>4. CASE UNCHANGED <<tearing, reg, chan, view>>
  BY <1>1, <1>2, <1>4, UnseenView DEF Present
<1>5. QED
  BY <1>3, <1>4 DEF cmdUser

LEMMA NickUnregisteredView ==
  ASSUME IInv, ViewInv, NEW c \in Fd, NEW raw \in ValidNick, cmdNickUnregistered(c, raw)
  PROVE  ViewInv'
<1>1. /\ c \in Live /\ c \notin reg /\ job = Idle
      /\ nick' = [nick EXCEPT ![c] = Truncate[raw]]
      /\ UNCHANGED <<conn, pass, user, job>>
  BY DEF cmdNickUnregistered, Ready
<1>2. /\ nick' \in Nicks /\ nick'[c] = Truncate[raw]
      /\ \A d \in Fd \ {c} : nick'[d] = nick[d]
  BY <1>1, Basics, TokenAssumption DEF Nicks
<1>3. CASE completeRegistration(c, Truncate[raw])
  BY <1>1, <1>2, <1>3, CompleteView
<1>4. CASE UNCHANGED <<tearing, reg, chan, view>>
  <2>1. Present' = Present /\ c \notin Present /\ Present \in SUBSET Fd
    BY <1>1, <1>4, Basics DEF Present
  <2>2. \A d \in Present : nick'[d] = nick[d]
    BY <1>2, <2>1
  <2>3. QED
    BY <1>1, <1>2, <1>4, <2>1, <2>2, UnseenView
<1>5. QED
  BY <1>3, <1>4 DEF cmdNickUnregistered

LEMMA NamesSwap ==
  ASSUME NEW N \in Nicks, NEW P \in SUBSET Fd, Distinct(N, P), NEW c \in P, NEW n,
         NEW M, M[c] = n, \A m \in P \ {c} : M[m] = N[m], NEW S \in SUBSET P
  PROVE  Names(M, S) = Swap(Names(N, S), N[c], n)
<1>1. M[c] = n /\ \A m \in P \ {c} : M[m] = N[m]
  OBVIOUS
<1>2. N[c] \in Names(N, S) <=> c \in S
  BY DEF Names, Distinct
<1>3. CASE c \in S
  <2>1. Names(M, S) = Names(M, S \ {c}) \cup {n}
    BY <1>1, <1>3 DEF Names
  <2>2. Names(M, S \ {c}) = Names(N, S \ {c})
    <3>1. \A m \in S \ {c} : M[m] = N[m]
      BY <1>1
    <3>2. QED
      BY <3>1, NamesSame
  <2>3. Names(N, S \ {c}) = Names(N, S) \ {N[c]}
    <3>1. Distinct(N, S \cup {c})
      BY DEF Distinct
    <3>2. QED
      BY <3>1, NamesRemove
  <2>4. QED
    BY <1>2, <1>3, <2>1, <2>2, <2>3 DEF Swap
<1>4. CASE c \notin S
  <2>1. \A m \in S : M[m] = N[m]
    BY <1>1, <1>4
  <2>2. QED
    BY <1>2, <1>4, <2>1, NamesSame DEF Swap
<1>5. QED
  BY <1>3, <1>4

LEMMA RenameFields ==
  ASSUME NEW p \in PictureType, NEW o, NEW n \in Token \cup {Star}
  PROVE  /\ Rename(p, o, n) \in PictureType
         /\ Rename(p, o, n).on = p.on /\ Rename(p, o, n).modes = p.modes
         /\ Rename(p, o, n).topic = p.topic
         /\ Rename(p, o, n).who = Swap(p.who, o, n) /\ Rename(p, o, n).ops = Swap(p.ops, o, n)
<1>1. /\ Swap(p.who, o, n) \in SUBSET (Token \cup {Star})
      /\ Swap(p.ops, o, n) \in SUBSET (Token \cup {Star})
  BY DEF Swap, PictureType
<1>2. QED
  BY <1>1 DEF Rename, PictureType

(* A channel after the change of a nickname, as one sees it who heard it.  *)
LEMMA PictureRenamed ==
  ASSUME NEW N \in Nicks, NEW P \in SUBSET Fd, Distinct(N, P), NEW c \in P,
         NEW n \in Token \cup {Star}, NEW M \in Nicks,
         M[c] = n, \A m \in P \ {c} : M[m] = N[m],
         NEW r \in ChannelType, r.members \subseteq P, r.ops \subseteq P, NEW d
  PROVE  Picture(M, r, d) = Rename(Picture(N, r, d), N[c], n)
<1>1. CASE d \in r.members
  <2> DEFINE p == Shown(N, r)
             q == Shown(M, r)
             s == Rename(p, N[c], n)
  <2>1. p \in PictureType /\ q \in PictureType
    BY ShownType
  <2>2. /\ s \in PictureType /\ s.on = p.on /\ s.modes = p.modes /\ s.topic = p.topic
        /\ s.who = Swap(p.who, N[c], n) /\ s.ops = Swap(p.ops, N[c], n)
    BY <2>1, RenameFields
  <2>3. Names(M, r.members) = Swap(Names(N, r.members), N[c], n)
    <3>1. r.members \in SUBSET P
      OBVIOUS
    <3>2. QED
      BY <3>1, NamesSwap
  <2>4. Names(M, r.ops) = Swap(Names(N, r.ops), N[c], n)
    <3>1. r.ops \in SUBSET P
      OBVIOUS
    <3>2. QED
      BY <3>1, NamesSwap
  <2>5. /\ q.on = p.on /\ q.modes = p.modes /\ q.topic = p.topic
        /\ q.who = Swap(p.who, N[c], n) /\ q.ops = Swap(p.ops, N[c], n)
    BY <2>3, <2>4 DEF Shown
  <2>6. q = s
    BY <2>1, <2>2, <2>5, PictureEqual
  <2>7. QED
    BY <1>1, <2>6 DEF Picture
<1>2. CASE d \notin r.members
  <2> DEFINE s == Rename(Nowhere, N[c], n)
  <2>1. /\ s \in PictureType /\ s.on = Nowhere.on /\ s.modes = Nowhere.modes
        /\ s.topic = Nowhere.topic
        /\ s.who = Swap(Nowhere.who, N[c], n) /\ s.ops = Swap(Nowhere.ops, N[c], n)
    BY NowhereType, RenameFields
  <2>2. Swap(Nowhere.who, N[c], n) = Nowhere.who /\ Swap(Nowhere.ops, N[c], n) = Nowhere.ops
    BY DEF Swap, Nowhere
  <2>3. s = Nowhere
    BY <2>1, <2>2, NowhereType, PictureEqual
  <2>4. QED
    BY <1>2, <2>3 DEF Picture
<1>3. QED
  BY <1>1, <1>2

LEMMA HearNickView ==
  ASSUME NEW v \in ViewType, NEW o, NEW n \in Token \cup {Star}, v.ok,
         o = v.me \/ Knows(v, o), o # n => ~Knows(v, n)
  PROVE  LET w == HearNick(v, o, n)
         IN  /\ w \in ViewType /\ w.ok /\ w.me = IF o = v.me THEN n ELSE v.me
             /\ \A ch \in Channel : w.at[ch] = Rename(v.at[ch], o, n)
<1> DEFINE at == [ch \in Channel |-> Rename(v.at[ch], o, n)]
           me == IF o = v.me THEN n ELSE v.me
           ok == v.ok /\ (o = v.me \/ Knows(v, o)) /\ (o # n => ~Knows(v, n))
<1>1. at \in [Channel -> PictureType] /\ me \in Token \cup {Star} /\ ok = TRUE
  BY RenameFields DEF ViewType
<1>2. HearNick(v, o, n) = [v EXCEPT !.ok = ok, !.me = me, !.at = at]
  BY DEF HearNick
<1>3. \A ch \in Channel : at[ch] = Rename(v.at[ch], o, n)
  OBVIOUS
<1> HIDE DEF at, me, ok
<1>4. /\ HearNick(v, o, n) \in ViewType /\ HearNick(v, o, n).ok
      /\ HearNick(v, o, n).me = me /\ HearNick(v, o, n).at = at
  BY <1>1, <1>2 DEF ViewType
<1>5. QED
  BY <1>3, <1>4 DEF me

(* NICK of a registered client: it and its peers hear it once, and nobody  *)
(* they know has the new nickname.                                         *)
LEMMA NickRegisteredView ==
  ASSUME IInv, ViewInv, NEW c \in Fd, NEW raw \in ValidNick, cmdNickRegistered(c, raw)
  PROVE  ViewInv'
<1> DEFINE n == Truncate[raw]
           o == nick[c]
<1>1. /\ job = Idle /\ c \in Present /\ AcceptableNick(c, raw)
      /\ nick' = [nick EXCEPT ![c] = n]
      /\ UNCHANGED <<conn, tearing, reg, pass, user, chan, job>>
  BY DEF cmdNickRegistered, Registered, Ready, Live, Present
<1>2. view' = [d \in Fd |-> IF d \in Peers(c) \cup {c} THEN HearNick(view[d], o, n) ELSE view[d]]
  BY DEF cmdNickRegistered, Heard
<1>3. /\ nick \in Nicks /\ Present \in SUBSET Fd /\ Distinct(nick, Present)
      /\ chan \in [Channel -> ChannelType]
      /\ \A ch \in Channel : chan[ch].members \subseteq Present
                             /\ chan[ch].ops \subseteq chan[ch].members
  BY Basics
<1>4. n \in Token /\ nick' \in Nicks /\ nick'[c] = n /\ \A d \in Fd \ {c} : nick'[d] = nick[d]
  BY <1>1, <1>3, TokenAssumption DEF Nicks
<1>5. \A d \in Present \ {c} : nick[d] # n
  BY <1>1 DEF AcceptableNick, isNickInUse, ircEquals, Present, Live, IInv, ServerTypeOK
<1>6. Present' = Present /\ chan' = chan /\ job' = Idle
  BY <1>1 DEF Present
<1> HIDE DEF n
<1>7. ASSUME NEW d \in Present, o # n
      PROVE  ~Knows(view[d], n)
  <2>1. Right(nick, chan, view[d], d)
    BY <1>1, IdleViews
  <2>2. ASSUME NEW ch \in Channel
        PROVE  n \notin view[d].at[ch].who
    <3>1. CASE d \in chan[ch].members
      <4>1. view[d].at[ch].who = Names(nick, chan[ch].members)
        <5>1. view[d].at[ch] = Shown(nick, chan[ch])
          BY <2>1, <3>1 DEF Right, Picture
        <5>2. QED
          BY <5>1 DEF Shown
      <4>2. QED
        BY <1>3, <1>5, <1>7, <4>1 DEF Names
    <3>2. CASE d \notin chan[ch].members
      BY <2>1, <3>2 DEF Right, Picture, Nowhere
    <3>3. QED
      BY <3>1, <3>2
  <2>3. QED
    BY <2>2 DEF Knows
<1>8. ASSUME NEW d \in Present
      PROVE  Right(nick', chan', view'[d], d)
  <2>1. Right(nick, chan, view[d], d) /\ d \in Fd
    BY <1>1, <1>3, IdleViews
  <2>2. CASE d \in Peers(c) \cup {c}
    <3>1. view'[d] = HearNick(view[d], o, n)
      BY <1>2, <2>1, <2>2
    <3>2. o = view[d].me \/ Knows(view[d], o)
      <4>1. CASE d = c
        BY <2>1, <4>1 DEF Right
      <4>2. CASE d # c
        <5>1. PICK ch \in Channel : c \in chan[ch].members /\ d \in chan[ch].members
          BY <2>2, <4>2, PeersAre
        <5>2. view[d].at[ch].who = Names(nick, chan[ch].members)
          <6>1. view[d].at[ch] = Shown(nick, chan[ch])
            BY <2>1, <5>1 DEF Right, Picture
          <6>2. QED
            BY <6>1 DEF Shown
        <5>3. o \in view[d].at[ch].who
          BY <5>1, <5>2 DEF Names
        <5>4. QED
          BY <5>3 DEF Knows
      <4>3. QED
        BY <4>1, <4>2
    <3>3. /\ view'[d] \in ViewType /\ view'[d].ok
          /\ view'[d].me = IF o = view[d].me THEN n ELSE view[d].me
          /\ \A ch \in Channel : view'[d].at[ch] = Rename(view[d].at[ch], o, n)
      <4>1. view[d] \in ViewType /\ view[d].ok /\ n \in Token \cup {Star}
        BY <1>4, <2>1 DEF Right
      <4>2. o # n => ~Knows(view[d], n)
        BY <1>7
      <4>3. QED
        BY <3>1, <3>2, <4>1, <4>2, HearNickView
    <3>4. view'[d].me = nick'[d]
      BY <1>1, <1>3, <1>4, <2>1, <3>3 DEF Right, Distinct
    <3>5. ASSUME NEW ch \in Channel
          PROVE  view'[d].at[ch] = Picture(nick', chan[ch], d)
      <4>1. /\ chan[ch] \in ChannelType /\ chan[ch].members \subseteq Present
            /\ chan[ch].ops \subseteq Present /\ n \in Token \cup {Star}
            /\ \A m \in Present \ {c} : nick'[m] = nick[m]
            /\ nick \in Nicks /\ Present \in SUBSET Fd /\ Distinct(nick, Present)
            /\ c \in Present /\ nick' \in Nicks /\ nick'[c] = n
        BY <1>1, <1>3, <1>4
      <4>2. Picture(nick', chan[ch], d) = Rename(Picture(nick, chan[ch], d), o, n)
        BY <4>1, PictureRenamed
      <4>3. QED
        BY <2>1, <3>3, <4>2 DEF Right
    <3>6. QED
      BY <1>6, <3>3, <3>4, <3>5 DEF Right
  <2>3. CASE d \notin Peers(c) \cup {c}
    <3>1. view'[d] = view[d] /\ nick'[d] = nick[d]
      BY <1>2, <1>4, <2>1, <2>3
    <3>2. ASSUME NEW ch \in Channel
          PROVE  Picture(nick', chan[ch], d) = Picture(nick, chan[ch], d)
      <4>1. CASE d \in chan[ch].members
        <5>1. c \notin chan[ch].members
          BY <2>3, <4>1, PeersAre
        <5>2. \A m \in chan[ch].members : nick'[m] = nick[m]
          BY <1>3, <1>4, <5>1
        <5>3. chan[ch] \in ChannelType /\ chan[ch].ops \subseteq chan[ch].members
          BY <1>3
        <5>4. QED
          BY <5>1, <5>2, <5>3, PictureSame
      <4>2. CASE d \notin chan[ch].members
        BY <4>2 DEF Picture
      <4>3. QED
        BY <4>1, <4>2
    <3>3. QED
      BY <1>6, <2>1, <3>1, <3>2 DEF Right
  <2>4. QED
    BY <2>2, <2>3
<1>9. \A d \in Fd \ Present' : view'[d] = Stranger
  <2>1. Peers(c) \cup {c} \subseteq Present
    BY <1>1, <1>3, PeersAre
  <2>2. QED
    BY <1>2, <1>6, <2>1 DEF ViewInv
<1>10. view' = [d \in Fd |-> view'[d]]
  BY <1>2
<1>11. QED
  BY <1>3, <1>6, <1>8, <1>9, <1>10, RightViews

-----------------------------------------------------------------------------
(* MODE: the changes are made first and announced one after another.       *)

LEMMA ChangedFields ==
  ASSUME NEW p \in PictureType, NEW x \in Change, x.letter = "o" => x.arg \in Token \cup {Star}
  PROVE  /\ Changed(p, x) \in PictureType
         /\ Changed(p, x).on = p.on /\ Changed(p, x).who = p.who
         /\ Changed(p, x).topic = p.topic
         /\ Changed(p, x).modes = IF x.letter = "o" THEN p.modes ELSE SetMode(p.modes, x)
         /\ Changed(p, x).ops = IF x.letter # "o" THEN p.ops
                                ELSE IF x.add THEN p.ops \cup {x.arg} ELSE p.ops \ {x.arg}
<1>1. CASE x.letter = "o"
  BY <1>1 DEF Changed, PictureType
<1>2. CASE x.letter # "o"
  <2>1. SetMode(p.modes, x) \in ModesType
    BY SetModeType DEF PictureType
  <2>2. QED
    BY <1>2, <2>1 DEF Changed, PictureType
<1>3. QED
  BY <1>1, <1>2

LEMMA HearModeView ==
  ASSUME NEW v \in ViewType, NEW ch \in Channel, NEW x \in Change,
         v.ok, v.at[ch].on, x.letter = "o" => x.arg \in v.at[ch].who
  PROVE  Turned(v, HearMode(v, ch, x), ch, Changed(v.at[ch], x))
<1>1. v.at \in [Channel -> PictureType]
  BY DEF ViewType
<1> DEFINE p == Changed(v.at[ch], x)
<1>2. p \in PictureType
  <2>1. x.letter = "o" => x.arg \in Token \cup {Star}
    BY <1>1 DEF PictureType
  <2>2. QED
    BY <1>1, <2>1, ChangedFields
<1>3. HearMode(v, ch, x) = [v EXCEPT !.ok = TRUE, !.at = [v.at EXCEPT ![ch] = p]]
  BY <1>1 DEF HearMode, Changed, ViewType
<1> HIDE DEF p
<1> DEFINE w == [v EXCEPT !.ok = TRUE, !.at = [v.at EXCEPT ![ch] = p]]
<1>4. w \in ViewType /\ w.me = v.me /\ w.ok /\ w.at = [v.at EXCEPT ![ch] = p]
  BY <1>1, <1>2 DEF ViewType
<1> HIDE DEF w
<1>5. QED
  BY <1>1, <1>3, <1>4 DEF Turned, p, w

(* No announcement is due.                                                 *)
LEMMA CatchStart ==
  ASSUME NEW N \in Nicks, NEW V, NEW ch, NEW r \in ChannelType
  PROVE  CatchesUp(N, V, ch, r, << >>) <=> \A d \in r.members : V[d].at[ch] = Shown(N, r)
<1> DEFINE p == Shown(N, r)
           h == [k \in 0 .. 0 |-> p]
<1>1. p \in PictureType /\ p.on /\ p.who = Names(N, r.members) /\ Len(<< >>) = 0
  BY ShownType DEF Shown
<1>2. ASSUME \A d \in r.members : V[d].at[ch] = p
      PROVE  CatchesUp(N, V, ch, r, << >>)
  <2>1. h \in [0 .. Len(<< >>) -> PictureType] /\ h[0] = p
    BY <1>1
  <2> HIDE DEF p, h
  <2>2. QED
    BY <1>1, <1>2, <2>1 DEF CatchesUp, p
<1>3. ASSUME CatchesUp(N, V, ch, r, << >>)
      PROVE  \A d \in r.members : V[d].at[ch] = p
  BY <1>1, <1>3 DEF CatchesUp
<1>4. QED
  BY <1>2, <1>3

(* A change more.                                                          *)
LEMMA CatchAppend ==
  ASSUME NEW N, NEW V, NEW ch, NEW r, NEW q, NEW done \in Seq(Change), NEW y \in Change,
         CatchesUp(N, V, ch, r, done), q.members = r.members,
         Shown(N, q) \in PictureType, Shown(N, q) = Changed(Shown(N, r), y),
         y.letter = "o" => y.arg \in Names(N, r.members)
  PROVE  CatchesUp(N, V, ch, q, Append(done, y))
<1>1. PICK h \in [0 .. Len(done) -> PictureType] :
        /\ \A d \in r.members : V[d].at[ch] = h[0]
        /\ h[Len(done)] = Shown(N, r)
        /\ \A k \in 1 .. Len(done) : h[k] = Changed(h[k - 1], done[k])
        /\ \A k \in 0 .. Len(done) : h[k].on /\ h[k].who = Names(N, r.members)
        /\ \A k \in 1 .. Len(done) :
                done[k].letter = "o" => done[k].arg \in Names(N, r.members)
  BY DEF CatchesUp
<1> DEFINE n == Len(done)
           s == Append(done, y)
           g == [k \in 0 .. n + 1 |-> IF k <= n THEN h[k] ELSE Shown(N, q)]
<1>2. /\ n \in Nat /\ Len(s) = n + 1 /\ s[n + 1] = y
      /\ \A k \in 1 .. n : s[k] = done[k]
  BY AppendProperties
<1> HIDE DEF s
<1>3. g \in [0 .. Len(s) -> PictureType]
  BY <1>2
<1>4. /\ \A k \in 0 .. n : g[k] = h[k]
      /\ g[n + 1] = Shown(N, q)
  BY <1>2
<1> HIDE DEF g, n
<1>5. \A d \in q.members : V[d].at[ch] = g[0]
  BY <1>1, <1>2, <1>4 DEF n
<1>6. ASSUME NEW k \in 1 .. Len(s)
      PROVE  g[k] = Changed(g[k - 1], s[k])
  <2>1. CASE k \in 1 .. n
    BY <1>1, <1>2, <1>4, <2>1 DEF n
  <2>2. CASE k = n + 1
    BY <1>1, <1>2, <1>4, <2>2 DEF n
  <2>3. QED
    BY <1>2, <2>1, <2>2
<1>7. ASSUME NEW k \in 0 .. Len(s)
      PROVE  g[k].on /\ g[k].who = Names(N, q.members)
  <2>1. CASE k \in 0 .. n
    BY <1>1, <1>4, <2>1 DEF n
  <2>2. CASE k = n + 1
    BY <1>4, <2>2 DEF Shown
  <2>3. QED
    BY <1>2, <2>1, <2>2
<1>8. ASSUME NEW k \in 1 .. Len(s), s[k].letter = "o"
      PROVE  s[k].arg \in Names(N, q.members)
  <2>1. CASE k \in 1 .. n
    BY <1>1, <1>2, <1>8, <2>1 DEF n
  <2>2. CASE k = n + 1
    BY <1>2, <1>8, <2>2
  <2>3. QED
    BY <1>2, <2>1, <2>2
<1>9. QED
  BY <1>2, <1>3, <1>4, <1>5, <1>6, <1>7, <1>8 DEF CatchesUp, s

(* An announcement less.                                                   *)
LEMMA CatchTail ==
  ASSUME NEW N, NEW V, NEW W, NEW ch, NEW r, NEW done \in Seq(Change), done # << >>,
         CatchesUp(N, V, ch, r, done),
         \A d \in r.members : W[d].at[ch] = Changed(V[d].at[ch], Head(done))
  PROVE  CatchesUp(N, W, ch, r, Tail(done))
<1>1. PICK h \in [0 .. Len(done) -> PictureType] :
        /\ \A d \in r.members : V[d].at[ch] = h[0]
        /\ h[Len(done)] = Shown(N, r)
        /\ \A k \in 1 .. Len(done) : h[k] = Changed(h[k - 1], done[k])
        /\ \A k \in 0 .. Len(done) : h[k].on /\ h[k].who = Names(N, r.members)
        /\ \A k \in 1 .. Len(done) :
                done[k].letter = "o" => done[k].arg \in Names(N, r.members)
  BY DEF CatchesUp
<1> DEFINE n == Len(done) - 1
           s == Tail(done)
           g == [k \in 0 .. n |-> h[k + 1]]
<1>2. /\ n \in Nat /\ Len(done) = n + 1 /\ Len(s) = n /\ Head(done) = done[1]
      /\ \A k \in 1 .. n : s[k] = done[k + 1]
  <2>1. Len(done) \in Nat /\ Len(done) # 0
    BY EmptySeq
  <2>2. QED
    BY <2>1, HeadTailProperties
<1> HIDE DEF n, s
<1>3. g \in [0 .. Len(s) -> PictureType] /\ \A k \in 0 .. n : g[k] = h[k + 1]
  BY <1>2
<1> HIDE DEF g
<1>4. g[0] = Changed(h[0], Head(done))
  BY <1>1, <1>2, <1>3
<1>5. \A d \in r.members : W[d].at[ch] = g[0]
  BY <1>1, <1>4
<1>6. g[Len(s)] = Shown(N, r)
  BY <1>1, <1>2, <1>3
<1>7. ASSUME NEW k \in 1 .. Len(s)
      PROVE  /\ g[k] = Changed(g[k - 1], s[k])
             /\ s[k].letter = "o" => s[k].arg \in Names(N, r.members)
  <2>1. k \in 1 .. n /\ k - 1 \in 0 .. n /\ k + 1 \in 1 .. Len(done) /\ k \in 0 .. n
        /\ (k + 1) - 1 = k /\ (k - 1) + 1 = k
    BY <1>2
  <2>2. h[k + 1] = Changed(h[k], done[k + 1])
    BY <1>1, <2>1
  <2>3. QED
    BY <1>1, <1>2, <1>3, <2>1, <2>2
<1>8. \A k \in 0 .. Len(s) : g[k].on /\ g[k].who = Names(N, r.members)
  BY <1>1, <1>2, <1>3
<1>9. QED
  BY <1>3, <1>5, <1>6, <1>7, <1>8 DEF CatchesUp, s

(* A turn of the MODE loop, or one of its announcements.                   *)
LEMMA ModeViews ==
  ASSUME IInv, ViewInv, UNCHANGED session, job \in ModeJob, job' \in ModeJob, job'.ch = job.ch,
         NEW q, chan' = [chan EXCEPT ![job.ch] = q], q.members = chan[job.ch].members,
         view' = [d \in Fd |-> view'[d]],
         \A d \in Fd \ q.members : view'[d] = view[d],
         \A d \in q.members : \E p : Turned(view[d], view'[d], job.ch, p),
         CatchesUp(nick, view', job.ch, q, job'.done)
  PROVE  ViewInv'
<1> DEFINE ch == job.ch
<1>1. /\ Present \in SUBSET Fd /\ chan \in [Channel -> ChannelType]
      /\ \A x \in Channel : chan[x].members \subseteq Present
      /\ Present' = Present /\ nick' = nick
  BY Basics DEF session, Present
<1>2. ch \in Channel /\ job.op = "mode" /\ job'.op = "mode" /\ q.members \subseteq Present
  BY <1>1 DEF ModeJob
<1>3. \A d \in Fd : /\ view'[d] \in ViewType /\ view'[d].ok /\ view'[d].me = view[d].me
                    /\ \A x \in Channel \ {ch} : view'[d].at[x] = view[d].at[x]
  BY DEF ViewInv, Turned
<1>4. view' \in [Fd -> ViewType]
  BY <1>3
<1>5. \A d \in Fd \ Present' : view'[d] = Stranger
  BY <1>1, <1>2 DEF ViewInv
<1>6. \A d \in Present' : view'[d].me = nick'[d]
  BY <1>1, <1>3 DEF ViewInv
<1>7. ASSUME NEW d \in Present', NEW x \in Channel, x # ch \/ d \notin chan'[x].members
      PROVE  view'[d].at[x] = Picture(nick', chan'[x], d)
  <2>1. CASE x # ch
    <3>1. view'[d].at[x] = view[d].at[x] /\ chan'[x] = chan[x] /\ d \in Fd
      BY <1>1, <1>3, <2>1
    <3>2. QED
      BY <1>1, <2>1, <3>1 DEF ViewInv, Behind
  <2>2. CASE x = ch
    <3>1. d \notin q.members /\ d \in Fd /\ chan'[x] = q
      BY <1>1, <1>2, <1>7, <2>2
    <3>2. view'[d] = view[d]
      BY <3>1
    <3>3. view[d].at[x] = Nowhere
      BY <1>1, <2>2, <3>1 DEF ViewInv, Picture
    <3>4. QED
      BY <3>1, <3>2, <3>3 DEF Picture
  <2>3. QED
    BY <2>1, <2>2
<1>8. chan'[ch] = q
  BY <1>1, <1>2
<1>9. QED
  BY <1>1, <1>2, <1>3, <1>4, <1>5, <1>6, <1>7, <1>8 DEF ViewInv, Behind

(* What a change does to a channel, it does to the picture of it.          *)
LEMMA ShownSetMode ==
  ASSUME NEW N \in Nicks, NEW r \in ChannelType, NEW x \in Change, x.letter # "o"
  PROVE  LET q == [r EXCEPT !.modes = SetMode(@, x)]
         IN  /\ q.members = r.members /\ Shown(N, q) \in PictureType
             /\ Shown(N, q) = Changed(Shown(N, r), x)
<1> DEFINE q == [r EXCEPT !.modes = SetMode(@, x)]
           p == Shown(N, r)
<1>1. SetMode(r.modes, x) \in ModesType
  BY SetModeType DEF ChannelType
<1>2. /\ q \in ChannelType /\ q.members = r.members /\ q.ops = r.ops
      /\ q.modes = SetMode(r.modes, x) /\ q.topic = r.topic
  BY <1>1 DEF ChannelType
<1> HIDE DEF q
<1>3. p \in PictureType /\ Shown(N, q) \in PictureType
  BY <1>2, ShownType
<1>4. /\ Shown(N, q).on = p.on /\ Shown(N, q).who = p.who /\ Shown(N, q).ops = p.ops
      /\ Shown(N, q).modes = SetMode(p.modes, x) /\ Shown(N, q).topic = p.topic
  BY <1>2 DEF Shown
<1> HIDE DEF p
<1>5. Shown(N, q) = Changed(p, x)
  <2>1. /\ Changed(p, x) \in PictureType /\ Changed(p, x).on = p.on
        /\ Changed(p, x).who = p.who /\ Changed(p, x).topic = p.topic
        /\ Changed(p, x).modes = SetMode(p.modes, x) /\ Changed(p, x).ops = p.ops
    BY <1>3, ChangedFields
  <2>2. QED
    BY <1>3, <1>4, <2>1, PictureEqual
<1>6. QED
  BY <1>2, <1>3, <1>5 DEF p, q

LEMMA ShownSetOp ==
  ASSUME NEW N \in Nicks, NEW r \in ChannelType, NEW x \in Change, x.letter = "o",
         NEW t \in r.members, x.arg = N[t], r.ops \subseteq r.members, Distinct(N, r.members)
  PROVE  LET q == [r EXCEPT !.ops = IF x.add THEN @ \cup {t} ELSE @ \ {t}]
         IN  /\ q.members = r.members /\ Shown(N, q) \in PictureType
             /\ Shown(N, q) = Changed(Shown(N, r), x)
<1> DEFINE q == [r EXCEPT !.ops = IF x.add THEN @ \cup {t} ELSE @ \ {t}]
           p == Shown(N, r)
<1>1. t \in Fd /\ N[t] \in Token \cup {Star}
  BY DEF ChannelType, Nicks
<1>2. /\ q \in ChannelType /\ q.members = r.members /\ q.modes = r.modes /\ q.topic = r.topic
      /\ q.ops = IF x.add THEN r.ops \cup {t} ELSE r.ops \ {t}
  BY <1>1 DEF ChannelType
<1> HIDE DEF q
<1>3. p \in PictureType /\ Shown(N, q) \in PictureType
  BY <1>2, ShownType
<1>4. Names(N, q.ops) = IF x.add THEN Names(N, r.ops) \cup {N[t]} ELSE Names(N, r.ops) \ {N[t]}
  <2>1. Distinct(N, r.ops \cup {t})
    BY DEF Distinct
  <2>2. Names(N, r.ops \cup {t}) = Names(N, r.ops) \cup {N[t]}
    BY NamesAdd
  <2>3. Names(N, r.ops \ {t}) = Names(N, r.ops) \ {N[t]}
    BY <2>1, NamesRemove
  <2>4. QED
    BY <1>2, <2>2, <2>3
<1>5. /\ Shown(N, q).on = p.on /\ Shown(N, q).who = p.who
      /\ Shown(N, q).ops = IF x.add THEN p.ops \cup {x.arg} ELSE p.ops \ {x.arg}
      /\ Shown(N, q).modes = p.modes /\ Shown(N, q).topic = p.topic
  BY <1>2, <1>4 DEF Shown
<1> HIDE DEF p
<1>6. Shown(N, q) = Changed(p, x)
  <2>1. /\ Changed(p, x) \in PictureType /\ Changed(p, x).on = p.on
        /\ Changed(p, x).who = p.who /\ Changed(p, x).topic = p.topic
        /\ Changed(p, x).modes = p.modes
        /\ Changed(p, x).ops = IF x.add THEN p.ops \cup {x.arg} ELSE p.ops \ {x.arg}
    BY <1>1, <1>3, ChangedFields
  <2>2. QED
    BY <1>3, <1>5, <2>1, PictureEqual
<1>7. QED
  BY <1>2, <1>3, <1>6 DEF p, q

LEMMA ModeView ==
  ASSUME IInv, ViewInv, NextMode
  PROVE  ViewInv'
<1> DEFINE r == chan[job.ch]
           x == Head(job.rest)
<1>1. job \in ModeJob /\ job.rest # << >> /\ UNCHANGED <<session, view>>
  BY JobKinds DEF NextMode, IInv, ServerTypeOK, ModeJob
<1>2. /\ job.ch \in Channel /\ job.done \in Seq(Change)
      /\ x \in Change /\ Tail(job.rest) \in Seq(Change)
  BY <1>1, HeadTailProperties DEF ModeJob
<1>3. /\ nick \in Nicks /\ Present \in SUBSET Fd /\ Distinct(nick, Present)
      /\ r \in ChannelType /\ r.members \subseteq Present /\ r.ops \subseteq r.members
      /\ chan \in [Channel -> ChannelType]
  BY <1>2, Basics
<1>4. CatchesUp(nick, view, job.ch, r, job.done)
  BY <1>1, <1>2 DEF ViewInv, Behind, ModeJob
<1>5. /\ view' = [d \in Fd |-> view'[d]] /\ \A d \in Fd : view'[d] = view[d]
      /\ \A d \in r.members : \E p : Turned(view[d], view'[d], job.ch, p)
  <2>1. view \in [Fd -> ViewType] /\ \A d \in Fd : view[d].ok
    BY DEF ViewInv
  <2>2. \A d \in r.members : Turned(view[d], view[d], job.ch, view[d].at[job.ch])
    BY <1>3, <2>1 DEF Turned
  <2>3. QED
    BY <1>1, <2>1, <2>2
<1>6. ASSUME NEW q, chan' = [chan EXCEPT ![job.ch] = q], q.members = r.members,
             NEW y \in Change, y.letter = "o" => y.arg \in Names(nick, r.members),
             job' = [job EXCEPT !.rest = Tail(@), !.done = Append(@, y)],
             Shown(nick, q) \in PictureType, Shown(nick, q) = Changed(Shown(nick, r), y)
      PROVE  ViewInv'
  <2>1. /\ job' \in ModeJob /\ job'.ch = job.ch /\ job'.done = Append(job.done, y)
    BY <1>1, <1>2, <1>6, AppendProperties DEF ModeJob
  <2>2. CatchesUp(nick, view, job.ch, q, job'.done)
    BY <1>2, <1>4, <1>6, <2>1, CatchAppend
  <2>3. CatchesUp(nick, view', job.ch, q, job'.done)
    BY <1>1, <2>2
  <2>4. QED
    BY <1>1, <1>5, <1>6, <2>1, <2>3, ModeViews
<1>7. CASE ApplyMode(x)
  <2> DEFINE q == [r EXCEPT !.modes = SetMode(@, x)]
  <2>1. x.letter # "o"
    BY <1>7 DEF ApplyMode, ApplicableMode
  <2>2. /\ chan' = [chan EXCEPT ![job.ch] = q]
        /\ job' = [job EXCEPT !.rest = Tail(@), !.done = Append(@, x)]
    BY <1>7 DEF ApplyMode
  <2>3. /\ q.members = r.members /\ Shown(nick, q) \in PictureType
        /\ Shown(nick, q) = Changed(Shown(nick, r), x)
    BY <1>2, <1>3, <2>1, ShownSetMode
  <2> HIDE DEF q, x
  <2>4. QED
    BY <1>2, <1>6, <2>1, <2>2, <2>3
<1>8. CASE ApplyOp(x)
  <2>1. PICK t \in findMember(job.ch, x.arg) :
          /\ chan' = [chan EXCEPT ![job.ch].ops = IF x.add THEN @ \cup {t} ELSE @ \ {t}]
          /\ job' = [job EXCEPT !.rest = Tail(@),
                                !.done = Append(@, [x EXCEPT !.arg = nick[t]])]
    BY <1>8 DEF ApplyOp
  <2> DEFINE y == [x EXCEPT !.arg = nick[t]]
             q == [r EXCEPT !.ops = IF y.add THEN @ \cup {t} ELSE @ \ {t}]
  <2>2. t \in r.members /\ nick[t] \in Token
    BY <1>3, <2>1, Basics DEF findMember
  <2>3. y \in Change /\ y.letter = "o" /\ y.arg = nick[t] /\ y.add = x.add
    BY <1>2, <1>8, <2>2 DEF Change, ApplyOp
  <2>4. chan' = [chan EXCEPT ![job.ch] = q]
    BY <2>1, <2>3
  <2>5. job' = [job EXCEPT !.rest = Tail(@), !.done = Append(@, y)]
    BY <2>1
  <2> HIDE DEF y
  <2>6. Distinct(nick, r.members) /\ y.arg \in Names(nick, r.members)
    BY <1>3, <2>2, <2>3 DEF Distinct, Names
  <2>7. /\ q.members = r.members /\ Shown(nick, q) \in PictureType
        /\ Shown(nick, q) = Changed(Shown(nick, r), y)
    BY <1>3, <2>2, <2>3, <2>6, ShownSetOp
  <2> HIDE DEF q
  <2>8. QED
    BY <1>6, <2>3, <2>4, <2>5, <2>6, <2>7
<1>9. CASE RefuseMode(x)
  <2>1. chan' = chan /\ job' = [job EXCEPT !.rest = Tail(@)]
    BY <1>9 DEF RefuseMode
  <2>2. chan' = [chan EXCEPT ![job.ch] = r] /\ job' \in ModeJob /\ job'.ch = job.ch
        /\ job'.done = job.done
    BY <1>1, <1>2, <1>3, <2>1 DEF ModeJob
  <2>3. CatchesUp(nick, view', job.ch, r, job'.done)
    BY <1>1, <1>4, <2>2
  <2>4. QED
    BY <1>1, <1>5, <2>2, <2>3, ModeViews
<1>10. QED
  BY <1>7, <1>8, <1>9 DEF NextMode

LEMMA BroadcastView ==
  ASSUME IInv, ViewInv, broadcastModeChanges
  PROVE  ViewInv'
<1> DEFINE r == chan[job.ch]
           x == Head(job.done)
<1>1. /\ job \in ModeJob /\ job.done # << >> /\ UNCHANGED <<session, chan>>
      /\ job' = [job EXCEPT !.done = Tail(@)]
      /\ view' = [d \in Fd |-> IF d \in r.members THEN HearMode(view[d], job.ch, x) ELSE view[d]]
  BY JobKinds DEF broadcastModeChanges, IInv, ServerTypeOK, ModeJob, Heard
<1>2. /\ job.ch \in Channel /\ job.done \in Seq(Change) /\ job.op = "mode"
      /\ x \in Change /\ Tail(job.done) \in Seq(Change)
  BY <1>1, HeadTailProperties DEF ModeJob
<1>3. /\ Present \in SUBSET Fd /\ r \in ChannelType /\ r.members \subseteq Present
      /\ chan \in [Channel -> ChannelType]
  BY <1>2, Basics
<1>4. CatchesUp(nick, view, job.ch, r, job.done)
  BY <1>2 DEF ViewInv, Behind
<1>5. ASSUME NEW d \in r.members
      PROVE  Turned(view[d], view'[d], job.ch, Changed(view[d].at[job.ch], x))
  <2>1. d \in Fd /\ view[d] \in ViewType /\ view[d].ok
    BY <1>3 DEF ViewInv
  <2>2. /\ view[d].at[job.ch].on
        /\ x.letter = "o" => x.arg \in view[d].at[job.ch].who
    <3>1. PICK h : /\ \A e \in r.members : view[e].at[job.ch] = h[0]
                   /\ \A k \in 0 .. Len(job.done) :
                            h[k].on /\ h[k].who = Names(nick, r.members)
                   /\ \A k \in 1 .. Len(job.done) :
                            job.done[k].letter = "o" => job.done[k].arg \in Names(nick, r.members)
      BY <1>4 DEF CatchesUp
    <3>2. Len(job.done) \in Nat /\ Len(job.done) # 0 /\ x = job.done[1]
      BY <1>1, <1>2, EmptySeq, HeadTailProperties
    <3>3. 0 \in 0 .. Len(job.done) /\ 1 \in 1 .. Len(job.done)
      BY <3>2
    <3>4. QED
      BY <3>1, <3>2, <3>3
  <2>3. Turned(view[d], HearMode(view[d], job.ch, x), job.ch, Changed(view[d].at[job.ch], x))
    BY <1>2, <2>1, <2>2, HearModeView
  <2>4. QED
    BY <1>1, <2>1, <2>3
<1>6. job' \in ModeJob /\ job'.ch = job.ch /\ job'.done = Tail(job.done)
  BY <1>1, <1>2 DEF ModeJob
<1>7. CatchesUp(nick, view', job.ch, r, Tail(job.done))
  <2>1. \A d \in r.members : view'[d].at[job.ch] = Changed(view[d].at[job.ch], x)
    BY <1>5 DEF Turned
  <2>2. QED
    BY <1>1, <1>2, <1>4, <2>1, CatchTail
<1>8. /\ chan' = [chan EXCEPT ![job.ch] = r] /\ view' = [d \in Fd |-> view'[d]]
      /\ \A d \in Fd \ r.members : view'[d] = view[d]
  BY <1>1, <1>3
<1>9. \A d \in r.members : \E p : Turned(view[d], view'[d], job.ch, p)
  BY <1>5
<1>10. QED
  BY <1>1, <1>6, <1>7, <1>8, <1>9, ModeViews

-----------------------------------------------------------------------------
(* The other steps.                                                        *)

LEMMA InitView == Init => ViewInv
<1> SUFFICES ASSUME Init PROVE ViewInv
  OBVIOUS
<1>1. /\ view = [d \in Fd |-> Stranger] /\ Present = {} /\ job.op = "idle"
  BY IdleFacts DEF Init, Present
<1>2. Stranger \in ViewType /\ Stranger.ok
  BY NowhereType DEF Stranger
<1>3. QED
  BY <1>1, <1>2 DEF ViewInv, Behind

LEMMA AcceptView ==
  ASSUME IInv, ViewInv, NEW c \in Fd, acceptClient(c)
  PROVE  ViewInv'
<1>1. Present' = Present /\ job = Idle /\ UNCHANGED <<nick, chan, job, view>>
  BY Parts, AcceptStep DEF acceptClient
<1>2. QED
  BY <1>1, Basics, UnseenView

LEMMA PassView ==
  ASSUME IInv, ViewInv, NEW c \in Fd, NEW p \in Passwords, cmdPass(c, p)
  PROVE  ViewInv'
<1>1. Present' = Present /\ job = Idle /\ UNCHANGED <<nick, chan, job, view>>
  BY Parts, PassStep DEF cmdPass, Ready
<1>2. QED
  BY <1>1, Basics, UnseenView

(* An invitation shows in no picture of the channel.                       *)
LEMMA InviteView ==
  ASSUME IInv, ViewInv, NEW c \in Fd, NEW ch \in Channel, NEW n, cmdInvite(c, ch, n)
  PROVE  ViewInv'
<1>1. job = Idle /\ UNCHANGED <<session, job, view>>
  BY DEF cmdInvite, Registered, Ready
<1>2. job.op = "idle" /\ job'.op = "idle"
  BY <1>1, IdleFacts
<1>3. PICK t : chan' = [chan EXCEPT ![ch].invites = @ \cup {t}]
  BY DEF cmdInvite
<1> DEFINE r == chan[ch]
           q == [r EXCEPT !.invites = @ \cup {t}]
<1>4. r \in ChannelType /\ Present \in SUBSET Fd
  BY Basics
<1>5. /\ q.members = r.members /\ q.ops = r.ops /\ q.modes = r.modes /\ q.topic = r.topic
      /\ chan' = [chan EXCEPT ![ch] = q]
  BY <1>3, <1>4 DEF ChannelType
<1> HIDE DEF q
<1>6. ASSUME NEW d \in Present
      PROVE  Turned(view[d], view'[d], ch, Picture(nick, q, d))
  <2>1. /\ d \in Fd /\ view[d] \in ViewType /\ view[d].ok
        /\ view[d].at[ch] = Picture(nick, r, d)
    BY <1>2, <1>4 DEF ViewInv, Behind
  <2>2. Picture(nick, q, d) = Picture(nick, r, d)
    BY <1>5 DEF Picture, Shown
  <2>3. QED
    BY <1>1, <2>1, <2>2 DEF Turned
<1>7. view' = [d \in Fd |-> view'[d]] /\ \A d \in Fd \ Present : view'[d] = view[d]
  BY <1>1 DEF ViewInv
<1>8. QED
  BY <1>1, <1>2, <1>5, <1>6, <1>7, OneChannel

(* A handler that walks a list begins; JOIN 0 lists the channels its       *)
(* client is on.                                                           *)
LEMMA StartView ==
  ASSUME IInv, ViewInv, NEW c \in Fd, UNCHANGED <<session, chan, view>>, job = Idle,
         \/ \E list : job' = [op |-> "join", by |-> c, rest |-> list]
         \/ \E list : job' = [op |-> "part", by |-> c, rest |-> list]
         \/ job' = [op |-> "partAll", by |-> c, rest |-> OnChannels(c)]
  PROVE  ViewInv'
<1>1. job.op # "mode" /\ job'.op # "mode"
  BY IdleFacts
<1>2. job'.op = "partAll" => \A x \in job'.rest : job'.by \in chan'[x].members
  BY DEF OnChannels
<1>3. QED
  BY <1>1, <1>2, ViewFrame

(* MODE begins with nothing to announce, and ends with nothing left.       *)
LEMMA ModeBeginsView ==
  ASSUME IInv, ViewInv, NEW c \in Fd, NEW ch \in Channel, NEW changes \in ModeStrings,
         handleChannelMode(c, ch, changes)
  PROVE  ViewInv'
<1>1. /\ job = Idle /\ UNCHANGED <<session, chan, view>>
      /\ job' = [op |-> "mode", by |-> c, ch |-> ch, rest |-> changes, done |-> << >>]
  BY DEF handleChannelMode, Registered, Ready
<1>2. job.op = "idle" /\ job'.op = "mode" /\ job'.ch = ch /\ job'.done = << >>
  BY <1>1, IdleFacts
<1>3. Present' = Present /\ nick' = nick /\ chan' = chan /\ view' = view
  BY <1>1 DEF session, Present
<1>4. nick \in Nicks /\ chan[ch] \in ChannelType /\ chan[ch].members \subseteq Present
  BY Basics
<1>5. \A d \in chan[ch].members : view[d].at[ch] = Shown(nick, chan[ch])
  BY <1>2, <1>4 DEF ViewInv, Behind, Picture
<1>6. CatchesUp(nick, view, ch, chan[ch], << >>)
  BY <1>4, <1>5, CatchStart
<1>7. QED
  BY <1>2, <1>3, <1>6 DEF ViewInv, Behind

LEMMA EndView ==
  ASSUME IInv, ViewInv, EndOfHandler
  PROVE  ViewInv'
<1>1. job' = Idle /\ job'.op = "idle" /\ UNCHANGED <<session, chan, view>>
  BY IdleFacts DEF EndOfHandler
<1>2. CASE job.op # "mode"
  BY <1>1, <1>2, ViewFrame
<1>3. CASE job.op = "mode"
  <2>1. job \in ModeJob /\ job.done = << >>
    BY <1>3, JobKinds DEF EndOfHandler, IInv, ServerTypeOK, ModeJob
  <2>2. job.ch \in Channel
    BY <2>1 DEF ModeJob
  <2>3. Present' = Present /\ nick' = nick /\ chan' = chan /\ view' = view
    BY <1>1 DEF session, Present
  <2>4. nick \in Nicks /\ chan[job.ch] \in ChannelType
    BY <2>2, Basics
  <2>5. CatchesUp(nick, view, job.ch, chan[job.ch], << >>)
    BY <1>3, <2>1, <2>2 DEF ViewInv, Behind
  <2>6. \A d \in chan[job.ch].members : view[d].at[job.ch] = Shown(nick, chan[job.ch])
    BY <2>4, <2>5, CatchStart
  <2>7. \A d \in Present, x \in Channel : view[d].at[x] = Picture(nick, chan[x], d)
    BY <2>2, <2>6 DEF ViewInv, Behind, Picture
  <2>8. QED
    BY <1>1, <2>3, <2>7 DEF ViewInv, Behind
<1>4. QED
  BY <1>2, <1>3

LEMMA NextViewInv == IInv /\ ViewInv /\ [Next]_vars => ViewInv'
<1> SUFFICES ASSUME IInv, ViewInv, [Next]_vars
             PROVE  ViewInv'
  OBVIOUS
<1>1. CASE Handler
  BY <1>1, JoinView, PartView, PartAllView, ModeView, BroadcastView, EndView DEF Handler
<1>2. ASSUME NEW c \in Fd, Command(c)
      PROVE  ViewInv'
  <2>1. CASE (\E list \in JoinLists : cmdJoin(c, list)) \/ (\E list \in PartLists : cmdPart(c, list))
             \/ partAllChannels(c)
    BY <2>1, StartView DEF cmdJoin, cmdPart, partAllChannels, Registered, Ready
  <2>2. CASE \/ \E p \in Passwords : cmdPass(c, p)
             \/ \E raw \in ValidNick : cmdNickUnregistered(c, raw)
             \/ \E raw \in ValidNick : cmdNickRegistered(c, raw)
             \/ cmdUser(c)
    BY <2>2, PassView, NickUnregisteredView, NickRegisteredView, UserView
  <2>3. CASE \E ch \in Channel :
                \/ \E n \in ValidNick : cmdKick(c, ch, n)
                \/ \E n \in ValidNick : cmdInvite(c, ch, n)
                \/ \E t \in Topics : cmdTopic(c, ch, t)
                \/ ChannelText(c, ch)
                \/ \E changes \in ModeStrings : handleChannelMode(c, ch, changes)
    BY <2>3, KickView, InviteView, TopicView, TextView, ModeBeginsView
  <2>4. QED
    BY <1>2, <2>1, <2>2, <2>3 DEF Command
<1>3. ASSUME NEW c \in Fd, Connection(c)
      PROVE  ViewInv'
  BY <1>3, AcceptView, DisconnectView, FinalizeView DEF Connection
<1>4. CASE UNCHANGED vars
  <2>1. /\ Present' = Present /\ nick' = nick /\ chan' = chan /\ view' = view /\ job' = job
    BY <1>4 DEF vars, Present
  <2>2. QED
    BY <2>1 DEF ViewInv, Behind
<1>5. QED
  BY <1>1, <1>2, <1>3, <1>4 DEF Next

-----------------------------------------------------------------------------
(* What the clients have been told stays in step with the server, through  *)
(* every handler and also between the turns of one.                        *)
THEOREM ViewInvariance == Spec => []ViewInv
<1>1. Init => ViewInv
  BY InitView
<1>2. IInv /\ ViewInv /\ [Next]_vars => ViewInv'
  BY NextViewInv
<1>3. QED
  BY <1>1, <1>2, Invariance, PTL DEF Spec

(* Whenever no handler is running, what the lines queued to a registered   *)
(* client say of each channel is what the channel is: who is on it, who of *)
(* them is an operator, its modes and its topic, and the client's own      *)
(* nickname; whoever was kicked, parted or never came knows it is not      *)
(* there (cmdJoin, partFromChannel, cmdKick, cmdTopic, handleChannelMode,  *)
(* cmdNick, teardownClientState).                                          *)
THEOREM ViewsAlwaysAgree == Spec => []ViewsAgree
<1>1. IInv /\ ViewInv => ViewsAgree
  <2> SUFFICES ASSUME IInv, ViewInv, job = Idle, NEW c \in reg \ tearing
               PROVE  /\ view[c].me = nick[c]
                      /\ \A ch \in Channel :
                           view[c].at[ch] =
                             IF c \in chan[ch].members
                             THEN [on |-> TRUE, who |-> {nick[m] : m \in chan[ch].members},
                                   ops |-> {nick[m] : m \in chan[ch].ops},
                                   modes |-> chan[ch].modes, topic |-> chan[ch].topic]
                             ELSE Nowhere
    BY DEF ViewsAgree
  <2>1. Right(nick, chan, view[c], c)
    BY IdleViews DEF Present
  <2>2. QED
    BY <2>1 DEF Right, Picture, Shown, Names
<1>2. QED
  BY <1>1, Invariance, ViewInvariance, PTL

(* No client is ever sent a line it cannot place: a QUIT or NICK of a      *)
(* stranger, or a second one; a JOIN of a name already there; a PART,      *)
(* MODE, TOPIC or text of a channel it is not on (broadcastToChannels,     *)
(* teardownClientState, broadcastMessage, broadcastModeChanges).           *)
THEOREM NobodyConfused == Spec => []NeverConfused
<1>1. ViewInv => NeverConfused
  BY DEF ViewInv, NeverConfused
<1>2. QED
  BY <1>1, ViewInvariance, PTL

(* The variables keep their types, the clients' pictures included.         *)
THEOREM TypesAreKept == Spec => []TypeOK
<1>1. IInv /\ ViewInv => TypeOK
  BY DEF IInv, ViewInv, TypeOK
<1>2. QED
  BY <1>1, Invariance, ViewInvariance, PTL
=============================================================================
