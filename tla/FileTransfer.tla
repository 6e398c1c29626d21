---------------------------- MODULE FileTransfer ----------------------------
(***************************************************************************)
(* The FILE extension: offers, answers and relayed chunks between two      *)
(* sessions, kept in FileTransferExt::_transfers under the descriptors of  *)
(* the two parties.                                                        *)
(*                                                                         *)
(* A descriptor outlives its session, so what the map says of descriptors  *)
(* must be right for the sessions on them.  `book' is what each client     *)
(* that reads its lines knows of each transfer.                            *)
(***************************************************************************)
EXTENDS Naturals, FiniteSets

CONSTANTS
    Fd,           \* descriptors of registered sessions
    Nobody,       \* the descriptor of no party
    MaxId,        \* bound: the number of offers in one run of the server
    MaxFileSize,  \* MAX_FILE_SIZE
    MaxChunk,     \* decodedBytes of the longest chunk isBase64Chunk accepts
    IdleTimeout,  \* IDLE_TIMEOUT
    MaxPass       \* the most seconds between two calls of onTick

ASSUME SizeAssumption ==
    /\ Nobody \notin Fd
    /\ MaxId \in Nat /\ MaxFileSize \in Nat /\ MaxChunk \in Nat
    /\ IdleTimeout \in Nat \ {0} /\ MaxPass \in Nat \ {0}

Id == 1 .. MaxId

VARIABLES
    sess,       \* "free", "open" or "leaving": closed with lines still to send
    congested,  \* sessions whose send buffer is above MAX_SENDQ / 2
    transfers,  \* _transfers; NoTransfer where the map has no entry
    nextId,     \* _nextId
    book,       \* "no", "offered" or "open": each client's note on each id
    confused    \* clients that got a line at odds with their book

vars == <<sess, congested, transfers, nextId, book, confused>>

-----------------------------------------------------------------------------
(* Transfers and the lines about them.                                     *)

NoTransfer == [live |-> FALSE, senderFd |-> Nobody, recipientFd |-> Nobody,
               declaredSize |-> 0, relayedBytes |-> 0, accepted |-> FALSE, idle |-> 0]

NewTransfer(s, r, size) ==
    [live |-> TRUE, senderFd |-> s, recipientFd |-> r, declaredSize |-> size,
     relayedBytes |-> 0, accepted |-> FALSE, idle |-> 0]

Active == {id \in Id : transfers[id].live}

Party(c, id) == c \in {transfers[id].senderFd, transfers[id].recipientFd}

(* Faulty: only accepted transfers count.                                  *)
findActive_accepted(s, r) ==
    {id \in Active : transfers[id].accepted
                     /\ transfers[id].senderFd = s /\ transfers[id].recipientFd = r}

findActive(s, r) ==
    {id \in Active : transfers[id].senderFd = s /\ transfers[id].recipientFd = r}

findClientByFd(c) == sess[c] # "free"

(* The books after c, if it is there, is sent a line that takes its note   *)
(* on id to `page'; a note not in `fits' makes the line senseless to it.   *)
Told(b, c, id, page) == IF findClientByFd(c) THEN [b EXCEPT ![c][id] = page] ELSE b

Puzzled(c, id, fits) == IF findClientByFd(c) /\ book[c][id] \notin fits THEN {c} ELSE {}

(* FILE ABRT to both parties of every transfer of S.                       *)
Struck(S) ==
    LET Hears(c, id) == id \in S /\ Party(c, id) /\ findClientByFd(c)
    IN  /\ book' = [c \in Fd |-> [id \in Id |-> IF Hears(c, id) THEN "no" ELSE book[c][id]]]
        /\ confused' = confused \cup
                {c \in Fd : \E id \in S : Hears(c, id) /\ book[c][id] = "no"}

abortTransfers(S) ==
    /\ transfers' = [id \in Id |-> IF id \in S THEN NoTransfer ELSE transfers[id]]
    /\ Struck(S)

-----------------------------------------------------------------------------
Init ==
    /\ sess = [c \in Fd |-> "free"]
    /\ congested = {}
    /\ transfers = [id \in Id |-> NoTransfer]
    /\ nextId = 1
    /\ book = [c \in Fd |-> [id \in Id |-> "no"]]
    /\ confused = {}

(* A session on a free descriptor has registered.                          *)
Register(c) ==
    /\ sess[c] = "free"
    /\ sess' = [sess EXCEPT ![c] = "open"]
    /\ book' = [book EXCEPT ![c] = [id \in Id |-> "no"]]
    /\ UNCHANGED <<congested, transfers, nextId, confused>>

onClientDisconnect(c) == abortTransfers({id \in Active : Party(c, id)})

(* The extension is called from teardownClientState, while the leaver is   *)
(* still in the map; the descriptor is freed at once or after its output.  *)
Disconnect(c) ==
    /\ sess[c] = "open"
    /\ onClientDisconnect(c)
    /\ \E next \in {"leaving", "free"} : sess' = [sess EXCEPT ![c] = next]
    /\ congested' = congested \ {c}
    /\ UNCHANGED nextId

finalizeDisconnect(c) ==
    /\ sess[c] = "leaving"
    /\ sess' = [sess EXCEPT ![c] = "free"]
    /\ UNCHANGED <<congested, transfers, nextId, book, confused>>

(* The send buffer crosses MAX_SENDQ / 2, either way.                      *)
Congestion(c) ==
    /\ sess[c] = "open"
    /\ \/ congested' = congested \cup {c}
       \/ congested' = congested \ {c}
    /\ UNCHANGED <<sess, transfers, nextId, book, confused>>

-----------------------------------------------------------------------------
(* The commands.  Each is refused with a NOTICE that changes nothing when  *)
(* its guards fail.                                                        *)

(* Faulty: the id of a transfer that has ended is given out again.         *)
cmdSend_reuses(c, r, size) ==
    LET id == CHOOSE i \in Id : ~transfers[i].live /\ \A j \in Id : j < i => transfers[j].live
    IN  /\ sess[c] = "open" /\ sess[r] = "open"
        /\ c # r
        /\ size \in 1 .. MaxFileSize
        /\ findActive(c, r) = {}
        /\ Active # Id
        /\ nextId' = nextId + 1
        /\ transfers' = [transfers EXCEPT ![id] = NewTransfer(c, r, size)]
        /\ book' = [book EXCEPT ![c][id] = "offered", ![r][id] = "offered"]
        /\ UNCHANGED <<sess, congested, confused>>

cmdSend(c, r, size) ==
    /\ sess[c] = "open" /\ sess[r] = "open"
    /\ c # r
    /\ size \in 1 .. MaxFileSize
    /\ findActive(c, r) = {}
    /\ nextId \in Id
    /\ nextId' = nextId + 1
    /\ transfers' = [transfers EXCEPT ![nextId] = NewTransfer(c, r, size)]
    /\ book' = [book EXCEPT ![c][nextId] = "offered", ![r][nextId] = "offered"]
    /\ confused' = confused \cup {d \in {c, r} : book[d][nextId] # "no"}
    /\ UNCHANGED <<sess, congested>>

(* Who may act on a transfer.                                              *)
Sends(c, id) == sess[c] = "open" /\ id \in Active /\ transfers[id].senderFd = c

Receives(c, id) == sess[c] = "open" /\ id \in Active /\ transfers[id].recipientFd = c

(* FILE OK.  An ACCEPT may be repeated, and counts as activity each time.  *)
(* Were the sender gone, the offer would be dropped.                       *)
cmdAccept(c, id) ==
    LET s == transfers[id].senderFd
        t == [transfers[id] EXCEPT !.accepted = TRUE, !.idle = 0]
        page == IF findClientByFd(s) THEN "open" ELSE "no"
    IN  /\ Receives(c, id)
        /\ transfers' = [transfers EXCEPT ![id] = IF findClientByFd(s) THEN t ELSE NoTransfer]
        /\ book' = Told([book EXCEPT ![c][id] = page], s, id, page)
        /\ confused' = confused \cup Puzzled(s, id, {"offered", "open"})
        /\ UNCHANGED <<sess, congested, nextId>>

(* FILE NO, before or after an ACCEPT.                                     *)
cmdReject(c, id) ==
    LET s == transfers[id].senderFd
    IN  /\ Receives(c, id)
        /\ transfers' = [transfers EXCEPT ![id] = NoTransfer]
        /\ book' = Told([book EXCEPT ![c][id] = "no"], s, id, "no")
        /\ confused' = confused \cup Puzzled(s, id, {"offered", "open"})
        /\ UNCHANGED <<sess, congested, nextId>>

DataAllowed(c, id) == Sends(c, id) /\ transfers[id].accepted

(* Faulty: the bytes relayed so far are not counted in.                    *)
Fits_alone(id, n) == n <= transfers[id].declaredSize

Fits(id, n) == transfers[id].relayedBytes + n <= transfers[id].declaredSize

(* FILE DATA that is malformed or decodes to nothing (n = 0), that would   *)
(* pass the declared size, or that has nobody to go to.                    *)
cmdDataAbort(c, id, n) ==
    /\ DataAllowed(c, id)
    /\ n > 0 /\ Fits(id, n) => ~findClientByFd(transfers[id].recipientFd)
    /\ abortTransfers({id})
    /\ UNCHANGED <<sess, congested, nextId>>

(* FILE WAIT: the chunk is dropped and the transfer is as idle as before.  *)
cmdDataWait(c, id, n) ==
    /\ DataAllowed(c, id)
    /\ n > 0 /\ Fits(id, n)
    /\ findClientByFd(transfers[id].recipientFd)
    /\ transfers[id].recipientFd \in congested
    /\ UNCHANGED vars

cmdDataRelay(c, id, n) ==
    LET r == transfers[id].recipientFd
    IN  /\ DataAllowed(c, id)
        /\ n > 0 /\ Fits(id, n)
        /\ findClientByFd(r) /\ r \notin congested
        /\ transfers' = [transfers EXCEPT ![id].relayedBytes = @ + n, ![id].idle = 0]
        /\ confused' = confused \cup Puzzled(r, id, {"open"})
        /\ UNCHANGED <<sess, congested, nextId, book>>

(* Faulty: the recipient is not told.                                      *)
cmdEnd_quiet(c, id) ==
    /\ Sends(c, id)
    /\ transfers' = [transfers EXCEPT ![id] = NoTransfer]
    /\ book' = [book EXCEPT ![c][id] = "no"]
    /\ UNCHANGED <<sess, congested, nextId, confused>>

(* FILE END, whether or not everything, or anything, was sent.             *)
cmdEnd(c, id) ==
    LET r == transfers[id].recipientFd
    IN  /\ Sends(c, id)
        /\ transfers' = [transfers EXCEPT ![id] = NoTransfer]
        /\ book' = Told([book EXCEPT ![c][id] = "no"], r, id, "no")
        /\ confused' = confused \cup Puzzled(r, id, {"offered", "open"})
        /\ UNCHANGED <<sess, congested, nextId>>

cmdAbort(c, id) ==
    /\ Sends(c, id) \/ Receives(c, id)
    /\ abortTransfers({id})
    /\ UNCHANGED <<sess, congested, nextId>>

-----------------------------------------------------------------------------
(* Faulty: an offer that is not answered does not grow old.                *)
Late_accepted(d) ==
    {id \in Active : transfers[id].accepted /\ transfers[id].idle + d > IdleTimeout}

Late(d) == {id \in Active : transfers[id].idle + d > IdleTimeout}

(* An entry d seconds later, no older than the timeout.                    *)
Aged(t, d) == [t EXCEPT !.idle = IF @ + d > IdleTimeout THEN IdleTimeout ELSE @ + d]

(* d seconds pass and the loop calls the extension.                        *)
onTick(d) ==
    /\ transfers' = [id \in Id |->
            CASE id \in Late(d) -> NoTransfer
              [] id \in Active \ Late(d) -> Aged(transfers[id], d)
              [] OTHER -> transfers[id]]
    /\ Struck(Late(d))
    /\ UNCHANGED <<sess, congested, nextId>>

Tick == \E d \in 1 .. MaxPass : onTick(d)

Session(c) == Register(c) \/ Disconnect(c) \/ finalizeDisconnect(c) \/ Congestion(c)

onCommand(c) ==
    \/ \E r \in Fd, size \in 1 .. MaxFileSize : cmdSend(c, r, size)
    \/ \E id \in Id :
        \/ cmdAccept(c, id) \/ cmdReject(c, id)
        \/ \E n \in 0 .. MaxChunk :
            cmdDataAbort(c, id, n) \/ cmdDataWait(c, id, n) \/ cmdDataRelay(c, id, n)
        \/ cmdEnd(c, id) \/ cmdAbort(c, id)

Next == Tick \/ \E c \in Fd : Session(c) \/ onCommand(c)

(* epoll_wait returns after a second at most, so onTick keeps being called *)
(* and time passes.  Nothing is assumed of the clients.                    *)
Spec == Init /\ [][Next]_vars /\ WF_vars(Tick)

-----------------------------------------------------------------------------
(* Correctness.                                                            *)

TransferType ==
    [live : BOOLEAN, senderFd : Fd \cup {Nobody}, recipientFd : Fd \cup {Nobody},
     declaredSize : Nat, relayedBytes : Nat, accepted : BOOLEAN, idle : Nat]

TypeOK ==
    /\ sess \in [Fd -> {"free", "open", "leaving"}]
    /\ congested \subseteq Fd
    /\ transfers \in [Id -> TransferType]
    /\ nextId \in 1 .. MaxId + 1
    /\ book \in [Fd -> [Id -> {"no", "offered", "open"}]]
    /\ confused \subseteq Fd

(* The two parties of every transfer are two open sessions: none is left   *)
(* to the next session that gets the descriptor (onClientDisconnect), so   *)
(* the handlers always find the other party (findClientByFd).              *)
PartiesAreOpen ==
    \A id \in Active :
        /\ transfers[id].senderFd # transfers[id].recipientFd
        /\ \A c \in {transfers[id].senderFd, transfers[id].recipientFd} :
            c \in Fd /\ sess[c] = "open"

(* At most one transfer is under way from one session to another, in any   *)
(* interleaving of offers, answers and endings (findActive).               *)
OneActivePerPair ==
    \A i, j \in Active :
        /\ transfers[i].senderFd = transfers[j].senderFd
        /\ transfers[i].recipientFd = transfers[j].recipientFd
        => i = j

(* What has been relayed never passes the declared size, and nothing was   *)
(* relayed that was not accepted (cmdData).                                *)
RelayIsBounded ==
    \A id \in Active :
        /\ transfers[id].relayedBytes <= transfers[id].declaredSize
        /\ transfers[id].relayedBytes > 0 => transfers[id].accepted

Note(id) == IF transfers[id].accepted THEN "open" ELSE "offered"

(* Every session's notes, taken from the lines it got and the commands it  *)
(* gave, are the server's map: both parties of a transfer know it is       *)
(* there, whether it was accepted, and when it is over, whoever ended it   *)
(* and however (NO, END, ABRT, a disconnection, a timeout).                *)
BooksAgree ==
    \A c \in Fd : sess[c] = "open" =>
        \A id \in Id : book[c][id] = IF id \in Active /\ Party(c, id) THEN Note(id) ELSE "no"

(* No client gets a line that contradicts its notes: data it did not agree *)
(* to, an answer to an offer it does not have, a second ending.            *)
NeverConfused == confused = {}

(* The inductive invariant: with the four above, ids are handed out in     *)
(* order, so the next one is unknown to everybody.                         *)
IInv ==
    /\ TypeOK
    /\ PartiesAreOpen
    /\ OneActivePerPair
    /\ RelayIsBounded
    /\ BooksAgree
    /\ NeverConfused
    /\ \A id \in Active : id < nextId

(* A step of one transfer: from nothing it can only begin, at the next id, *)
(* unaccepted and empty; while it lives its parties and size are fixed,    *)
(* acceptance is not taken back and bytes are only added; and an id that   *)
(* is over stays over.                                                     *)
TransferStep(id) ==
    LET t == transfers[id]
        u == transfers'[id]
    IN  /\ ~t.live /\ u.live => id = nextId /\ ~u.accepted /\ u.relayedBytes = 0
        /\ t.live /\ u.live =>
            /\ u.senderFd = t.senderFd /\ u.recipientFd = t.recipientFd
            /\ u.declaredSize = t.declaredSize
            /\ t.accepted => u.accepted
            /\ t.relayedBytes <= u.relayedBytes

(* Every transfer is offered once, under an id never used before, and only *)
(* goes forward (cmdSend, cmdAnswer, cmdData).                             *)
TransfersGoForward == [][nextId <= nextId' /\ \A id \in Id : TransferStep(id)]_vars

(* A step in which nobody accepts transfer id and no chunk of it gets      *)
(* through.                                                                *)
Untouched(id) ==
    \A c \in Fd : ~cmdAccept(c, id) /\ \A n \in 0 .. MaxChunk : ~cmdDataRelay(c, id, n)

(* A transfer that makes no progress is over in the end, even if its       *)
(* sender keeps sending chunks that are answered with WAIT (onTick).       *)
StalledEnds == \A id \in Id : <>[][Untouched(id)]_vars => []<>(id \notin Active)
=============================================================================
