------------------------------ MODULE EventLoop ------------------------------
(***************************************************************************)
(* Server::run: one thread around epoll_wait.  A pass takes a batch of     *)
(* readiness events, handles them one by one, sweeps for idle and overrun  *)
(* clients, expires deferred closes, lets the extensions tick and brings   *)
(* the epoll interest of every client up to date.  The kernel and the      *)
(* peers move between any two of these steps.                              *)
(*                                                                         *)
(* What a command does to channels is IrcServer's subject; here a line of  *)
(* input queues lines for some clients and may end its sender's session.   *)
(* A send queue counts lines, SendQ of them standing for MAX_SENDQ bytes.  *)
(* Times are kept as what the code compares them for: past the deadline or *)
(* not.  PingTimeout has the seconds.                                      *)
(***************************************************************************)
EXTENDS Naturals, FiniteSets

CONSTANTS
    Fd,          \* descriptors of client sockets
    MaxClients,  \* MAX_CLIENTS
    MaxEvents,   \* MAX_EVENTS, the size of a batch
    SendQ,       \* lines a send queue holds
    Faults,      \* what peers do beyond sending and reading
    Listen,      \* _listenFd
    None         \* no descriptor

ASSUME LoopAssumption ==
    /\ MaxClients \in Nat /\ MaxEvents \in Nat \ {0} /\ SendQ \in Nat \ {0}
    /\ Faults \subseteq {"eof", "reset", "stall", "silence"}
    /\ None \notin Fd /\ Listen \notin Fd

VARIABLES
    backlog,   \* a connection waits to be accepted
    sock,      \* the kernel's side of each client socket
    client,    \* _clients and _epollMask; NoClient where the map has no entry
    sweepDue,  \* 30 seconds since _lastPingCheck
    pc,        \* the step of the pass
    batch,     \* events of this pass not yet handled
    cur        \* the client whose event is being handled

vars == <<backlog, sock, client, sweepDue, pc, batch, cur>>

Flag == {"IN", "OUT", "ERR"}

(* Nothing received, peer there, room in the kernel's send buffer.         *)
FreshSocket == [data |-> FALSE, eof |-> FALSE, err |-> FALSE, room |-> TRUE]

SocketType == [data : BOOLEAN, eof : BOOLEAN, err : BOOLEAN, room : BOOLEAN]

(* out: lines queued; over: the queue has dropped one; closing: no,        *)
(* pendingClose, or past the deadline of one; idle: since the last input,  *)
(* past PING_INTERVAL, past PING_INTERVAL + PING_TIMEOUT.                  *)
NewClient == [there |-> TRUE, out |-> 0, over |-> FALSE, closing |-> "no",
              idle |-> "fresh", pinged |-> FALSE, mask |-> {"IN"}]

NoClient == [NewClient EXCEPT !.there = FALSE, !.mask = {}]

ClientType == [there : BOOLEAN, out : 0..SendQ, over : BOOLEAN,
               closing : {"no", "fresh", "due"}, idle : {"fresh", "idle", "dead"},
               pinged : BOOLEAN, mask : SUBSET {"IN", "OUT"}]

Clients == {d \in Fd : client[d].there}

(* A handler queues lines only for these: a client torn down is in no      *)
(* channel and in no transfer, and findClientByNick skips it.              *)
Reachable == {d \in Clients : client[d].closing = "no"}

-----------------------------------------------------------------------------
(* Operations on the client map f.                                         *)

(* k lines for one client; what does not fit is dropped and marks the      *)
(* queue for good.                                                         *)
queueMessage(r, k) ==
    IF r.out + k <= SendQ
    THEN [r EXCEPT !.out = @ + k]
    ELSE [r EXCEPT !.out = SendQ, !.over = TRUE]

(* How many lines a handler may leave each client of S: none, some, or     *)
(* more than any queue holds.                                              *)
Lines(S) == {k \in [Fd -> 0..(SendQ + 1)] : \A d \in Fd \ S : k[d] = 0}

Queue(f, k) == [d \in Fd |-> queueMessage(f[d], k[d])]

finalizeDisconnect(f, c) == [f EXCEPT ![c] = NoClient]

markPendingClose(f, c) == [f EXCEPT ![c].closing = "fresh"]

(* Faulty: the close is deferred without looking at the queue.             *)
disconnectClient_defers(f, c) ==
    IF f[c].closing # "no" THEN f ELSE markPendingClose(f, c)

(* The lines of the teardown are queued by now; a second teardown is none. *)
disconnectClient(f, c) ==
    IF f[c].closing # "no" THEN f
    ELSE IF f[c].out = 0 THEN finalizeDisconnect(f, c) ELSE markPendingClose(f, c)

(* A client already leaving is finalized as well; both ways end the same.  *)
disconnectClientNow(f, c) == finalizeDisconnect(f, c)

(* Closing a descriptor resets the kernel's side of it.                    *)
Closed(s) == [d \in Fd |-> IF client[d].there /\ ~client'[d].there THEN FreshSocket ELSE s[d]]

-----------------------------------------------------------------------------
(* A pass.                                                                 *)

Init ==
    /\ backlog = FALSE
    /\ sock = [d \in Fd |-> FreshSocket]
    /\ client = [d \in Fd |-> NoClient]
    /\ sweepDue = FALSE
    /\ pc = "wait"
    /\ batch = [d \in Fd \cup {Listen} |-> {}]
    /\ cur = None

(* What epoll reports for a client: errors and hang-ups whatever the       *)
(* interest, and always together with what a read or write would show.     *)
Ready(d, flag) ==
    CASE flag = "IN" -> "IN" \in client[d].mask /\ (sock[d].data \/ sock[d].eof \/ sock[d].err)
      [] flag = "OUT" -> "OUT" \in client[d].mask /\ (sock[d].room \/ sock[d].err)
      [] flag = "ERR" -> sock[d].err

Events == [d \in Fd \cup {Listen} |->
              IF d = Listen
              THEN IF backlog THEN {"IN"} ELSE {}
              ELSE {flag \in Flag : client[d].there /\ Ready(d, flag)}]

(* epoll_wait: all that is ready, up to MAX_EVENTS, or after a second      *)
(* nothing.                                                                *)
epoll_wait ==
    LET ready == {d \in DOMAIN Events : Events[d] # {}}
    IN  /\ pc = "wait"
        /\ \E R \in SUBSET ready :
            /\ Cardinality(R) = IF Cardinality(ready) > MaxEvents
                                THEN MaxEvents ELSE Cardinality(ready)
            /\ batch' = [d \in DOMAIN batch |-> IF d \in R THEN Events[d] ELSE {}]
        /\ pc' = "batch"
        /\ UNCHANGED <<backlog, sock, client, sweepDue, cur>>

(* Faulty: the descriptor of a client still draining is handed out again.  *)
acceptClient_reuses ==
    /\ pc = "batch" /\ cur = None /\ batch[Listen] # {}
    /\ backlog' = FALSE
    /\ \/ \E c \in Fd \ Reachable : client' = [client EXCEPT ![c] = NewClient]
       \/ UNCHANGED client
    /\ batch' = [batch EXCEPT ![Listen] = {}]
    /\ UNCHANGED <<sock, sweepDue, pc, cur>>

(* One accept; over MAX_CLIENTS, or when fcntl or the allocation fails,    *)
(* the new socket is closed again.                                         *)
acceptClient ==
    /\ pc = "batch" /\ cur = None /\ batch[Listen] # {}
    /\ backlog' = FALSE
    /\ \/ \E c \in Fd \ Clients :
            /\ Cardinality(Clients) < MaxClients
            /\ client' = [client EXCEPT ![c] = NewClient]
       \/ UNCHANGED client
    /\ batch' = [batch EXCEPT ![Listen] = {}]
    /\ UNCHANGED <<sock, sweepDue, pc, cur>>

(* The handlers of one event run in the order IN, OUT, ERR and stop when   *)
(* the client is gone.                                                     *)
Turn(c, flag) ==
    /\ pc = "batch" /\ cur \in {None, c}
    /\ flag \in batch[c]
    /\ flag = "OUT" => "IN" \notin batch[c]
    /\ flag = "ERR" => batch[c] = {"ERR"}

EndTurn(c, flag) ==
    LET left == IF client'[c].there THEN batch[c] \ {flag} ELSE {}
    IN  /\ batch' = [batch EXCEPT ![c] = left]
        /\ cur' = IF left = {} THEN None ELSE c
        /\ UNCHANGED <<backlog, sweepDue, pc>>

(* Faulty: whoever's queue overflows is disconnected on the spot.          *)
ReceiveData_inline(c) ==
    LET active == [client EXCEPT ![c].idle = "fresh", ![c].pinged = FALSE]
    IN  \E k \in Lines(Reachable) :
          LET f == Queue(active, k)
          IN  \/ client' = disconnectClient(f, c)
              \/ client' = [d \in Fd |-> IF f[d].over THEN NoClient ELSE f[d]]

(* Data: lines to some clients, of which the sender may be one; the        *)
(* sender's session may end with the last of them (QUIT, a wrong           *)
(* password), and then the rest of its input is dropped unread.            *)
ReceiveData(c) ==
    LET active == [client EXCEPT ![c].idle = "fresh", ![c].pinged = FALSE]
    IN  \E k \in Lines(Reachable) :
          LET f == Queue(active, k)
          IN  \/ client' = disconnectClient(f, c)
              \/ client' = IF f[c].over THEN disconnectClientNow(f, c) ELSE f

(* Faulty: an input event without data is ignored.                         *)
PeerClosed_ignored(c) == client' = [client EXCEPT ![c] = @]

(* recv = 0.  The teardown's lines go to the peers; an extension may also  *)
(* leave the client itself a last one.                                     *)
PeerClosed(c) ==
    \E k \in Lines(Reachable) : client' = disconnectClient(Queue(client, k), c)

handleClientInput(c) ==
    /\ Turn(c, "IN")
    /\ \/ sock[c].data /\ ReceiveData(c)
       \/ ~sock[c].data /\ PeerClosed(c)
       \/ ~sock[c].data /\ sock[c].err /\ UNCHANGED client
    /\ sock' = Closed([sock EXCEPT ![c].data = FALSE])
    /\ EndTurn(c, "IN")

(* After a send: a deferred close is complete when all is sent, and not    *)
(* waited for when the queue had overflowed.                               *)
AfterSend(f, c) ==
    \/ /\ f[c].closing # "no"
       /\ client' = IF f[c].out = 0 \/ f[c].over THEN finalizeDisconnect(f, c) ELSE f
    \/ /\ f[c].closing = "no" /\ f[c].over
       /\ \E k \in Lines(Reachable \ {c}) : client' = disconnectClientNow(Queue(f, k), c)
    \/ /\ f[c].closing = "no" /\ ~f[c].over
       /\ client' = f

handleClientOutput(c) ==
    /\ Turn(c, "OUT")
    /\ \/ /\ client[c].out > 0 /\ sock[c].room /\ ~sock[c].err
          /\ \E k \in 1..client[c].out : AfterSend([client EXCEPT ![c].out = @ - k], c)
          /\ \E room \in {TRUE, "stall" \notin Faults} :
                sock' = Closed([sock EXCEPT ![c].room = room])
       \/ /\ client[c].out = 0 \/ ~sock[c].room \/ sock[c].err
          /\ UNCHANGED <<client, sock>>
    /\ EndTurn(c, "OUT")

ConnectionError(c) ==
    /\ Turn(c, "ERR")
    /\ \E k \in Lines(Reachable \ {c}) : client' = disconnectClientNow(Queue(client, k), c)
    /\ sock' = Closed(sock)
    /\ EndTurn(c, "ERR")

EndOfBatch ==
    /\ pc = "batch"
    /\ \A d \in DOMAIN batch : batch[d] = {}
    /\ pc' = "sweep"
    /\ UNCHANGED <<backlog, sock, client, sweepDue, batch, cur>>

(* Faulty: overflow is looked for after a send only.                       *)
sendQNow_none == {d \in {} : client[d].over}

(* Every thirty seconds: who has overflowed goes, who was pinged and is    *)
(* still silent goes once its lines are sent, who is silent is pinged.     *)
(* The QUIT lines of those leaving, k, go to their peers.                  *)
sendQNow == {d \in Reachable : client[d].over}

pingTimeoutDeferred ==
    {d \in Reachable \ sendQNow : client[d].pinged /\ client[d].idle = "dead"}

pingNow == {d \in Reachable \ sendQNow : ~client[d].pinged /\ client[d].idle # "fresh"}

(* Faulty: that a PING is out is not recorded.                             *)
Pinged_unrecorded == [d \in Fd |-> IF d \in pingNow THEN queueMessage(client[d], 1) ELSE client[d]]

Pinged == [d \in Fd |-> IF d \in pingNow
                        THEN [queueMessage(client[d], 1) EXCEPT !.pinged = TRUE]
                        ELSE client[d]]

Swept(k) ==
    [d \in Fd |->
        IF d \in sendQNow THEN NoClient
        ELSE IF d \in pingTimeoutDeferred THEN disconnectClient(Queue(Pinged, k), d)[d]
        ELSE Queue(Pinged, k)[d]]

checkTimeouts ==
    /\ pc = "sweep"
    /\ \/ /\ sweepDue
          /\ \E k \in Lines(IF sendQNow \cup pingTimeoutDeferred = {} THEN {}
                            ELSE Reachable \ sendQNow) : client' = Swept(k)
       \/ ~sweepDue /\ UNCHANGED client
    /\ sweepDue' = FALSE
    /\ sock' = Closed(sock)
    /\ pc' = "expire"
    /\ UNCHANGED <<backlog, batch, cur>>

(* Faulty: a deferred close has no deadline.                               *)
checkPendingCloseTimeouts_never ==
    /\ pc = "expire"
    /\ pc' = "tick"
    /\ UNCHANGED <<backlog, sock, client, sweepDue, batch, cur>>

checkPendingCloseTimeouts ==
    /\ pc = "expire"
    /\ client' = [d \in Fd |-> IF client[d].closing = "due" THEN NoClient ELSE client[d]]
    /\ sock' = Closed(sock)
    /\ pc' = "tick"
    /\ UNCHANGED <<backlog, sweepDue, batch, cur>>

(* An extension may queue lines of its own (an expired file transfer).     *)
onTick ==
    /\ pc = "tick"
    /\ \E k \in Lines(Reachable) : client' = Queue(client, k)
    /\ pc' = "interest"
    /\ UNCHANGED <<backlog, sock, sweepDue, batch, cur>>

(* Faulty: input stays of interest while a client drains.                  *)
Want_reads(r) ==
    (IF r.there THEN {"IN"} ELSE {}) \cup (IF r.there /\ r.out > 0 THEN {"OUT"} ELSE {})

(* Read unless leaving, write when there is something to write.            *)
Want(r) ==
    (IF r.there /\ r.closing = "no" THEN {"IN"} ELSE {})
    \cup (IF r.there /\ r.out > 0 THEN {"OUT"} ELSE {})

(* Faulty: clients already leaving are passed over.                        *)
updateEpollInterest_skips ==
    /\ pc = "interest"
    /\ client' = [d \in Fd |-> [client[d] EXCEPT !.mask =
                    IF client[d].closing = "no" THEN Want(client[d]) ELSE @ \ {"IN"}]]
    /\ pc' = "wait"
    /\ UNCHANGED <<backlog, sock, sweepDue, batch, cur>>

updateEpollInterest ==
    /\ pc = "interest"
    /\ client' = [d \in Fd |-> [client[d] EXCEPT !.mask = Want(client[d])]]
    /\ pc' = "wait"
    /\ UNCHANGED <<backlog, sock, sweepDue, batch, cur>>

Loop ==
    \/ epoll_wait
    \/ acceptClient
    \/ \E c \in Fd : handleClientInput(c) \/ handleClientOutput(c) \/ ConnectionError(c)
    \/ EndOfBatch
    \/ checkTimeouts
    \/ checkPendingCloseTimeouts
    \/ onTick
    \/ updateEpollInterest

(* A signal has cleared isRunning, epoll_wait fails, or epoll refuses the  *)
(* client just accepted: ~Server closes every client as it is, and the     *)
(* lines still queued are lost.                                            *)
Stop ==
    /\ pc = "wait" \/ (pc = "batch" /\ cur = None /\ batch[Listen] # {})
    /\ client' = [d \in Fd |-> NoClient]
    /\ sock' = Closed(sock)
    /\ batch' = [d \in Fd \cup {Listen} |-> {}]
    /\ pc' = "stopped"
    /\ UNCHANGED <<backlog, sweepDue, cur>>

Stopped == pc = "stopped" /\ UNCHANGED vars

-----------------------------------------------------------------------------
(* Peers, kernel and clock.                                                *)

Environment(A) == A /\ UNCHANGED <<client, pc, batch, cur>>

PeerConnects == Environment(~backlog /\ backlog' = TRUE /\ UNCHANGED <<sock, sweepDue>>)

PeerSends(c) ==
    Environment(/\ client[c].there /\ ~sock[c].eof /\ ~sock[c].err
                /\ ~sock[c].data
                /\ sock' = [sock EXCEPT ![c].data = TRUE]
                /\ UNCHANGED <<backlog, sweepDue>>)

PeerReads(c) ==
    Environment(/\ client[c].there /\ ~sock[c].err
                /\ ~sock[c].room
                /\ sock' = [sock EXCEPT ![c].room = TRUE]
                /\ UNCHANGED <<backlog, sweepDue>>)

PeerCloses(c) ==
    Environment(/\ "eof" \in Faults
                /\ client[c].there /\ ~sock[c].eof /\ ~sock[c].err
                /\ sock' = [sock EXCEPT ![c].eof = TRUE]
                /\ UNCHANGED <<backlog, sweepDue>>)

(* A reset discards what was received and not read.                        *)
PeerResets(c) ==
    Environment(/\ "reset" \in Faults
                /\ client[c].there /\ ~sock[c].err
                /\ sock' = [sock EXCEPT ![c].err = TRUE, ![c].data = FALSE]
                /\ UNCHANGED <<backlog, sweepDue>>)

ThirtySecondsPass == Environment(~sweepDue /\ sweepDue' = TRUE /\ UNCHANGED <<backlog, sock>>)

CloseDeadlinePasses(c) ==
    /\ client[c].closing = "fresh"
    /\ client' = [client EXCEPT ![c].closing = "due"]
    /\ UNCHANGED <<backlog, sock, sweepDue, pc, batch, cur>>

SilenceLasts(c) ==
    /\ "silence" \in Faults
    /\ client[c].there /\ client[c].idle # "dead"
    /\ client' = [client EXCEPT ![c].idle = IF @ = "fresh" THEN "idle" ELSE "dead"]
    /\ UNCHANGED <<backlog, sock, sweepDue, pc, batch, cur>>

Next ==
    \/ Loop
    \/ Stop
    \/ Stopped
    \/ PeerConnects
    \/ ThirtySecondsPass
    \/ \E c \in Fd :
        \/ PeerSends(c) \/ PeerReads(c) \/ PeerCloses(c) \/ PeerResets(c)
        \/ CloseDeadlinePasses(c) \/ SilenceLasts(c)

Spec == Init /\ [][Next]_vars

(* The process keeps running its loop until it is stopped, and the clock   *)
(* keeps going; nothing is asked of the peers.                             *)
FairSpec ==
    /\ Spec
    /\ WF_vars(Loop)
    /\ WF_vars(ThirtySecondsPass)
    /\ \A c \in Fd : WF_vars(CloseDeadlinePasses(c))

-----------------------------------------------------------------------------
(* Correctness.                                                            *)

(* Every variable keeps its type.                                          *)
TypeOK ==
    /\ backlog \in BOOLEAN
    /\ sock \in [Fd -> SocketType]
    /\ client \in [Fd -> ClientType]
    /\ sweepDue \in BOOLEAN
    /\ pc \in {"wait", "batch", "sweep", "expire", "tick", "interest", "stopped"}
    /\ batch \in [Fd \cup {Listen} -> SUBSET Flag]
    /\ cur \in Fd \cup {None}

(* An event still to be handled is for a client that is there, and for the *)
(* one it was reported for: no handler closes a descriptor whose event     *)
(* waits, so a connection accepted in the same batch never gets an event   *)
(* of its predecessor, and run()'s branch for an unknown descriptor is     *)
(* never taken.                                                            *)
EventsAreCurrent == \A d \in Fd : batch[d] # {} => client[d].there

(* Input is never read for a client whose session has been torn down: by   *)
(* the time its close is deferred no input event of it is left, and none   *)
(* is asked for (handleClientInput, updateEpollInterest).                  *)
LeavingIsNotRead ==
    \A d \in Fd : client[d].closing # "no" =>
        /\ "IN" \notin batch[d]
        /\ pc = "wait" => "IN" \notin client[d].mask

(* A deferred close always has something left to send: a client whose      *)
(* queue is empty is closed by whoever empties it, never left to the       *)
(* deadline (disconnectClient, handleClientOutput).                        *)
DeferredHasOutput == \A d \in Fd : client[d].closing # "no" => client[d].out > 0

(* No wakeup is lost: when the server blocks in epoll_wait, writability is *)
(* watched for every client with output, whichever handler, sweep or       *)
(* extension queued it.                                                    *)
NoLostWakeup ==
    pc = "wait" => \A d \in Fd : client[d].out > 0 => "OUT" \in client[d].mask

(* The inductive invariant behind the four above: besides, a batch is      *)
(* handled to its end before the pass goes on, and a descriptor without a  *)
(* client has neither output nor a close to wait for.                      *)
IInv ==
    /\ TypeOK
    /\ EventsAreCurrent
    /\ LeavingIsNotRead
    /\ DeferredHasOutput
    /\ NoLostWakeup
    /\ pc # "batch" => \A d \in Fd \cup {Listen} : batch[d] = {}
    /\ \A d \in Fd : ~client[d].there => client[d].out = 0 /\ client[d].closing = "no"

(* A client whose queue has dropped a line is disconnected, even if it     *)
(* neither reads nor sends again (the thirty-second sweep finds it).       *)
OverflowEnds == \A c \in Fd : client[c].over ~> ~client[c].there

(* A peer that has closed or reset its connection is noticed and its       *)
(* descriptor freed.                                                       *)
GonePeerIsFreed == \A c \in Fd : sock[c].eof \/ sock[c].err ~> ~client[c].there

(* A client silent for too long is disconnected unless it speaks again.    *)
SilentIsDropped ==
    \A c \in Fd : client[c].there /\ client[c].idle = "dead"
                   ~> ~client[c].there \/ client[c].idle = "fresh"

-----------------------------------------------------------------------------
(* The life of a session, as Sessions promises it.                         *)
state == [c \in Fd |-> IF ~client[c].there THEN "free"
                       ELSE IF client[c].closing = "no" THEN "open" ELSE "leaving"]

Life == INSTANCE Sessions WITH Fd <- Fd, state <- state

(* Sessions are opened on free descriptors only, torn down once, and a     *)
(* leaving one never comes back.                                           *)
SessionsAreSafe == Life!SafeSpec

(* And every session that is leaving ends, even if the peer never reads    *)
(* its last lines (handleClientOutput, checkPendingCloseTimeouts).         *)
SessionsEnd == Life!Spec
=============================================================================
