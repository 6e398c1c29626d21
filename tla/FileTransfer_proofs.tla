------------------------- MODULE FileTransfer_proofs -------------------------
(***************************************************************************)
(* The inductive invariant of FileTransfer, and that transfers only go     *)
(* forward, for any number of sessions, offers and bytes.                  *)
(***************************************************************************)
EXTENDS FileTransfer, TLAPS

(* What the invariant says of one transfer t under id.                     *)
Sound(t) ==
    /\ t.senderFd \in Fd /\ t.recipientFd \in Fd
    /\ t.senderFd # t.recipientFd
    /\ sess[t.senderFd] = "open" /\ sess[t.recipientFd] = "open"
    /\ t.relayedBytes <= t.declaredSize
    /\ t.relayedBytes > 0 => t.accepted

(* Every transfer in the map is sound.                                     *)
LEMMA ActiveIsSound ==
    ASSUME IInv, NEW id \in Active
    PROVE  id \in Id /\ Sound(transfers[id]) /\ id < nextId
BY DEF IInv, TypeOK, PartiesAreOpen, RelayIsBounded, Active, Sound

(* The fields of a transfer have their types.                              *)
LEMMA TransferTypes ==
    ASSUME TypeOK, NEW id \in Id
    PROVE  /\ transfers[id] \in TransferType
           /\ transfers[id].idle \in Nat
           /\ transfers[id].relayedBytes \in Nat /\ transfers[id].declaredSize \in Nat
BY DEF TypeOK, TransferType

(* The empty entry has the type of a transfer.                             *)
LEMMA NoTransferType == NoTransfer \in TransferType /\ ~NoTransfer.live
BY DEF NoTransfer, TransferType

(* A new entry has the type of a transfer.                                 *)
LEMMA NewTransferType ==
    ASSUME NEW s \in Fd, NEW r \in Fd, NEW size \in Nat
    PROVE  /\ NewTransfer(s, r, size) \in TransferType
           /\ NewTransfer(s, r, size).live
           /\ NewTransfer(s, r, size).senderFd = s
           /\ NewTransfer(s, r, size).recipientFd = r
           /\ NewTransfer(s, r, size).declaredSize = size
           /\ NewTransfer(s, r, size).relayedBytes = 0
           /\ ~NewTransfer(s, r, size).accepted
BY DEF NewTransfer, TransferType

(* The initial state satisfies the invariant.                              *)
LEMMA InitInv == Init => IInv
<1> SUFFICES ASSUME Init PROVE IInv
    OBVIOUS
<1>1. TypeOK
    BY NoTransferType, SizeAssumption DEF Init, TypeOK, Id
<1>2. Active = {}
    BY NoTransferType DEF Init, Active
<1> QED
    BY <1>1, <1>2 DEF Init, IInv, PartiesAreOpen, OneActivePerPair, RelayIsBounded,
                      BooksAgree, NeverConfused

(* Erasing the transfers of S with their parties told leaves the invariant *)
(* as it was, whichever they are: a rejection, an end, an abort, a         *)
(* timeout, a disconnection.  Those that stay may only grow idle, and      *)
(* their parties stay open.                                                *)
LEMMA Erasing ==
    ASSUME IInv, NEW S \in SUBSET Active,
           sess' \in [Fd -> {"free", "open", "leaving"}],
           \A c \in Fd : sess'[c] = "open" => sess[c] = "open",
           \A id \in Active \ S, c \in Fd : Party(c, id) => sess'[c] = "open",
           congested' \subseteq Fd, nextId' = nextId,
           Struck(S),
           transfers' \in [Id -> TransferType],
           \A id \in S : ~transfers'[id].live,
           \A id \in Id \ S :
              /\ transfers'[id].live = transfers[id].live
              /\ transfers'[id].senderFd = transfers[id].senderFd
              /\ transfers'[id].recipientFd = transfers[id].recipientFd
              /\ transfers'[id].declaredSize = transfers[id].declaredSize
              /\ transfers'[id].relayedBytes = transfers[id].relayedBytes
              /\ transfers'[id].accepted = transfers[id].accepted
    PROVE  IInv'
<1>1. TypeOK'
    BY DEF IInv, TypeOK, Struck
<1>2. Active' = Active \ S
    BY DEF Active
<1>3. PartiesAreOpen'
    BY <1>2 DEF IInv, PartiesAreOpen, Active, Party
<1>4. OneActivePerPair'
    BY <1>2 DEF IInv, OneActivePerPair, Active
<1>5. RelayIsBounded'
    BY <1>2 DEF IInv, RelayIsBounded, Active
<1>6. NeverConfused'
  <2>1. SUFFICES ASSUME NEW c \in Fd, NEW id \in S, Party(c, id), findClientByFd(c),
                        book[c][id] = "no"
                 PROVE FALSE
    BY DEF Struck, NeverConfused, IInv
  <2>2. sess[c] = "open" /\ id \in Id
    BY <2>1, ActiveIsSound DEF Sound, Party
  <2> QED
    BY <2>1, <2>2 DEF IInv, BooksAgree, Note
<1>7. BooksAgree'
  <2> SUFFICES ASSUME NEW c \in Fd, sess'[c] = "open", NEW id \in Id
               PROVE  book'[c][id] =
                        IF id \in Active' /\ Party(c, id)' THEN Note(id)' ELSE "no"
    BY DEF BooksAgree
  <2>1. book[c][id] = IF id \in Active /\ Party(c, id) THEN Note(id) ELSE "no"
    BY DEF IInv, BooksAgree, Party
  <2>2. book'[c][id] = IF id \in S /\ Party(c, id) THEN "no" ELSE book[c][id]
    BY DEF Struck, findClientByFd
  <2>3. CASE id \in S
    BY <2>1, <2>2, <2>3, <1>2
  <2>4. CASE id \notin S
    BY <2>1, <2>2, <2>4, <1>2 DEF Party, Note
  <2> QED
    BY <2>3, <2>4
<1> QED
    BY <1>1, <1>2, <1>3, <1>4, <1>5, <1>6, <1>7 DEF IInv

(* FILE ABRT for some transfers, all of a session's if it leaves.          *)
LEMMA Aborting ==
    ASSUME IInv, NEW S \in SUBSET Active, abortTransfers(S),
           sess' \in [Fd -> {"free", "open", "leaving"}],
           \A c \in Fd : sess'[c] = "open" => sess[c] = "open",
           \A id \in Active \ S, c \in Fd : Party(c, id) => sess'[c] = "open",
           congested' \subseteq Fd, nextId' = nextId
    PROVE  IInv'
<1>1. /\ transfers' \in [Id -> TransferType]
      /\ \A id \in S : ~transfers'[id].live
      /\ \A id \in Id \ S : transfers'[id] = transfers[id]
    BY NoTransferType DEF abortTransfers, IInv, TypeOK, Active
<1> QED
    BY <1>1, Erasing DEF abortTransfers

(* The parties of a transfer are open sessions.                            *)
LEMMA PartiesOpen ==
    ASSUME IInv, NEW id \in Active, NEW c \in Fd, Party(c, id)
    PROVE  sess[c] = "open"
BY ActiveIsSound DEF Sound, Party

(* FILE ABRT while everybody stays.                                        *)
LEMMA AbortingInPlace ==
    ASSUME IInv, NEW S \in SUBSET Active, abortTransfers(S),
           UNCHANGED <<sess, congested, nextId>>
    PROVE  IInv'
<1>1. \A id \in Active \ S, c \in Fd : Party(c, id) => sess'[c] = "open"
    BY PartiesOpen
<1> QED
    BY <1>1, Aborting DEF IInv, TypeOK

(* One party ends a transfer and the other is told: as good as an abort.   *)
LEMMA Ending ==
    ASSUME IInv, NEW id \in Active, NEW c \in Fd, NEW d \in Fd, c # d,
           Party(c, id), Party(d, id),
           transfers' = [transfers EXCEPT ![id] = NoTransfer],
           book' = Told([book EXCEPT ![c][id] = "no"], d, id, "no"),
           confused' = confused \cup Puzzled(d, id, {"offered", "open"}),
           UNCHANGED <<sess, congested, nextId>>
    PROVE  IInv'
<1>1. id \in Id /\ sess[c] = "open" /\ sess[d] = "open"
    BY PartiesOpen, ActiveIsSound
<1>2. \A e \in Fd : Party(e, id) <=> e \in {c, d}
    BY DEF Party
<1>3. book[c][id] \in {"offered", "open"} /\ book[d][id] \in {"offered", "open"}
    BY <1>1 DEF IInv, BooksAgree, Note
<1>4. confused' = confused
    BY <1>1, <1>3 DEF Puzzled
<1>5. book' = [e \in Fd |-> [i \in Id |-> IF i = id /\ e \in {c, d} THEN "no" ELSE book[e][i]]]
    BY <1>1 DEF Told, findClientByFd, IInv, TypeOK
<1>6. abortTransfers({id})
  <2>1. transfers' = [i \in Id |-> IF i \in {id} THEN NoTransfer ELSE transfers[i]]
    BY <1>1 DEF IInv, TypeOK
  <2>2. book' = [e \in Fd |-> [i \in Id |->
                    IF i \in {id} /\ Party(e, i) /\ findClientByFd(e) THEN "no" ELSE book[e][i]]]
    BY <1>1, <1>2, <1>5, ZenonT(30) DEF findClientByFd
  <2>3. confused' = confused \cup
            {e \in Fd : \E i \in {id} :
                (i \in {id} /\ Party(e, i) /\ findClientByFd(e)) /\ book[e][i] = "no"}
    BY <1>2, <1>3, <1>4
  <2> QED
    BY <2>1, <2>2, <2>3, Zenon DEF abortTransfers, Struck
<1> QED
    BY <1>6, AbortingInPlace

(* A session opens on a free descriptor: no transfer is there for it.      *)
LEMMA RegisterInv == ASSUME IInv, NEW c \in Fd, Register(c) PROVE IInv'
<1>1. TypeOK'
    BY DEF IInv, TypeOK, Register
<1>2. \A id \in Active : ~Party(c, id)
    BY PartiesOpen DEF Register
<1>3. /\ sess' = [sess EXCEPT ![c] = "open"]
      /\ book' = [book EXCEPT ![c] = [id \in Id |-> "no"]]
      /\ UNCHANGED <<transfers, nextId, confused>>
    BY DEF Register
<1>4. Active' = Active
    BY <1>3 DEF Active
<1>5. PartiesAreOpen'
    BY <1>3, <1>4 DEF IInv, TypeOK, PartiesAreOpen
<1>6. BooksAgree'
  <2> SUFFICES ASSUME NEW d \in Fd, sess'[d] = "open", NEW id \in Id
               PROVE  book'[d][id] = IF id \in Active /\ Party(d, id) THEN Note(id) ELSE "no"
    BY <1>3, <1>4 DEF BooksAgree, Party, Note
  <2>1. CASE d = c
    BY <2>1, <1>2, <1>3 DEF IInv, TypeOK
  <2>2. CASE d # c
    BY <2>2, <1>3 DEF IInv, TypeOK, BooksAgree
  <2> QED
    BY <2>1, <2>2
<1> QED
    BY <1>1, <1>3, <1>4, <1>5, <1>6
       DEF IInv, OneActivePerPair, RelayIsBounded, NeverConfused

(* A leaving session takes its transfers with it.                          *)
LEMMA DisconnectInv == ASSUME IInv, NEW c \in Fd, Disconnect(c) PROVE IInv'
<1> DEFINE S == {id \in Active : Party(c, id)}
<1>1. abortTransfers(S) /\ nextId' = nextId /\ congested' \subseteq Fd
    BY DEF Disconnect, onClientDisconnect, IInv, TypeOK
<1>2. PICK next \in {"leaving", "free"} : sess' = [sess EXCEPT ![c] = next]
    BY DEF Disconnect
<1>3. /\ sess' \in [Fd -> {"free", "open", "leaving"}]
      /\ \A d \in Fd : sess'[d] = "open" => sess[d] = "open"
      /\ \A d \in Fd \ {c} : sess'[d] = sess[d]
    BY <1>2 DEF IInv, TypeOK
<1>4. \A id \in Active \ S, d \in Fd : Party(d, id) => sess'[d] = "open"
    BY <1>3, PartiesOpen
<1> HIDE DEF S
<1>5. S \in SUBSET Active
    BY DEF S
<1> QED
    BY <1>1, <1>3, <1>4, <1>5, Aborting

(* The last lines are out, or a buffer fills or drains.                    *)
LEMMA QuietInv ==
    ASSUME IInv, NEW c \in Fd, finalizeDisconnect(c) \/ Congestion(c)
    PROVE  IInv'
<1>1. TypeOK'
    BY DEF IInv, TypeOK, finalizeDisconnect, Congestion
<1>2. UNCHANGED <<transfers, nextId, book, confused>>
    BY DEF finalizeDisconnect, Congestion
<1>3. \A d \in Fd : sess'[d] = "open" <=> sess[d] = "open"
    BY DEF IInv, TypeOK, finalizeDisconnect, Congestion
<1>4. Active' = Active
    BY <1>2 DEF Active
<1>5. PartiesAreOpen'
    BY <1>2, <1>3, <1>4 DEF IInv, PartiesAreOpen
<1>6. BooksAgree'
    BY <1>2, <1>3, <1>4 DEF IInv, BooksAgree, Party, Note
<1> QED
    BY <1>1, <1>2, <1>4, <1>5, <1>6
       DEF IInv, OneActivePerPair, RelayIsBounded, NeverConfused

(* What the five parts of the invariant need of the books and the map when *)
(* one entry changes and keeps its id in use.                              *)
LEMMA EntryInv ==
    ASSUME IInv, NEW STATE id, id \in Id, NEW STATE t, t \in TransferType, t.live, Sound(t),
           transfers' = [transfers EXCEPT ![id] = t],
           \A j \in Active \ {id} :
              transfers[j].senderFd # t.senderFd \/ transfers[j].recipientFd # t.recipientFd,
           id \notin Active \/ (transfers[id].senderFd = t.senderFd
                                /\ transfers[id].recipientFd = t.recipientFd),
           book' = [e \in Fd |-> [i \in Id |->
                      IF i = id /\ e \in {t.senderFd, t.recipientFd}
                      THEN (IF t.accepted THEN "open" ELSE "offered")
                      ELSE book[e][i]]],
           confused' = confused, id < nextId', nextId <= nextId', nextId' \in 1 .. MaxId + 1,
           UNCHANGED <<sess, congested>>
    PROVE  IInv'
<1>1. TypeOK'
  <2>1. book' \in [Fd -> [Id -> {"no", "offered", "open"}]]
    BY DEF IInv, TypeOK
  <2>2. transfers' \in [Id -> TransferType]
    BY DEF IInv, TypeOK
  <2> QED
    BY <2>1, <2>2 DEF IInv, TypeOK
<1>2. /\ transfers'[id] = t
      /\ \A j \in Id \ {id} : transfers'[j] = transfers[j]
    BY DEF IInv, TypeOK
<1>3. Active' = Active \cup {id}
    BY <1>2 DEF Active
<1>4. \A j \in Active' \ {id} : j \in Active /\ transfers'[j] = transfers[j]
    BY <1>2, <1>3 DEF Active
<1>5. PartiesAreOpen'
    BY <1>2, <1>4 DEF IInv, PartiesAreOpen, Sound
<1>6. OneActivePerPair'
  <2> SUFFICES ASSUME NEW i \in Active', NEW j \in Active', i # j,
                      transfers'[i].senderFd = transfers'[j].senderFd,
                      transfers'[i].recipientFd = transfers'[j].recipientFd
               PROVE  FALSE
    BY DEF OneActivePerPair
  <2>1. CASE i = id
    BY <2>1, <1>2, <1>4
  <2>2. CASE j = id
    BY <2>2, <1>2, <1>4
  <2>3. CASE i # id /\ j # id
    BY <2>3, <1>4 DEF IInv, OneActivePerPair
  <2> QED
    BY <2>1, <2>2, <2>3
<1>7. RelayIsBounded'
    BY <1>2, <1>4 DEF IInv, RelayIsBounded, Sound
<1>8. BooksAgree'
  <2> SUFFICES ASSUME NEW e \in Fd, sess[e] = "open", NEW i \in Id
               PROVE  book'[e][i] =
                        IF i \in Active' /\ Party(e, i)' THEN Note(i)' ELSE "no"
    BY DEF BooksAgree
  <2>1. book[e][i] = IF i \in Active /\ Party(e, i) THEN Note(i) ELSE "no"
    BY DEF IInv, BooksAgree
  <2>2. CASE i = id
    <3>1. Party(e, i)' <=> e \in {t.senderFd, t.recipientFd}
      BY <2>2, <1>2 DEF Party
    <3>2. Note(i)' = IF t.accepted THEN "open" ELSE "offered"
      BY <2>2, <1>2 DEF Note
    <3>3. CASE e \in {t.senderFd, t.recipientFd}
      BY <3>1, <3>2, <3>3, <2>2, <1>3
    <3>4. CASE e \notin {t.senderFd, t.recipientFd}
      <4>1. i \notin Active \/ ~Party(e, i)
        BY <3>4, <2>2 DEF Party
      <4> QED
        BY <4>1, <3>1, <3>4, <2>1
    <3> QED
      BY <3>3, <3>4
  <2>3. CASE i # id
    <3>1. transfers'[i] = transfers[i] /\ (i \in Active' <=> i \in Active)
      BY <2>3, <1>2, <1>3
    <3>2. book'[e][i] = book[e][i]
      BY <2>3
    <3> QED
      BY <3>1, <3>2, <2>1 DEF Party, Note
  <2> QED
    BY <2>2, <2>3
<1>9. \A j \in Active' : j < nextId'
    BY <1>3, SizeAssumption DEF IInv, TypeOK, Active, Id
<1> QED
    BY <1>1, <1>5, <1>6, <1>7, <1>8, <1>9 DEF IInv, NeverConfused

(* A new offer takes an id nobody has a note on.                           *)
LEMMA SendInv ==
    ASSUME IInv, NEW c \in Fd, NEW r \in Fd, NEW size \in 1 .. MaxFileSize, cmdSend(c, r, size)
    PROVE  IInv'
<1> DEFINE t == NewTransfer(c, r, size)
<1>1. /\ nextId \in Id /\ nextId' = nextId + 1
      /\ sess[c] = "open" /\ sess[r] = "open" /\ c # r
      /\ transfers' = [transfers EXCEPT ![nextId] = t]
      /\ findActive(c, r) = {}
      /\ UNCHANGED <<sess, congested>>
    BY DEF cmdSend
<1>2. nextId \in Nat /\ nextId < nextId' /\ nextId' \in 1 .. MaxId + 1
    BY <1>1, SizeAssumption DEF Id
<1>3. nextId \notin Active
    BY <1>2 DEF IInv
<1>4. /\ t \in TransferType /\ t.live /\ t.senderFd = c /\ t.recipientFd = r
      /\ ~t.accepted /\ t.relayedBytes = 0 /\ t.declaredSize = size
    BY NewTransferType, SizeAssumption
<1>5. Sound(t)
    BY <1>1, <1>4 DEF Sound
<1>6. book[c][nextId] = "no" /\ book[r][nextId] = "no"
    BY <1>1, <1>3 DEF IInv, BooksAgree
<1>7. confused' = confused
    BY <1>6 DEF cmdSend
<1>8. book' = [e \in Fd |-> [i \in Id |->
                  IF i = nextId /\ e \in {t.senderFd, t.recipientFd}
                  THEN (IF t.accepted THEN "open" ELSE "offered")
                  ELSE book[e][i]]]
  <2>1. book' = [book EXCEPT ![c][nextId] = "offered", ![r][nextId] = "offered"]
    BY DEF cmdSend
  <2>2. book' = [e \in Fd |-> [i \in Id |->
                    IF i = nextId /\ e \in {c, r} THEN "offered" ELSE book[e][i]]]
    <3>1. nextId \in Id /\ c # r /\ book \in [Fd -> [Id -> {"no", "offered", "open"}]]
      BY <1>1 DEF IInv, TypeOK
    <3> QED
      BY <2>1, <3>1
  <2> HIDE DEF t
  <2> QED
    BY <1>4, <2>2
<1>9. \A j \in Active \ {nextId} :
          transfers[j].senderFd # t.senderFd \/ transfers[j].recipientFd # t.recipientFd
    BY <1>1, <1>4 DEF findActive
<1>10. nextId \in Id /\ nextId <= nextId' /\ UNCHANGED <<sess, congested>>
    BY <1>1, <1>2
<1>11. /\ transfers' = [transfers EXCEPT ![nextId] = t]
       /\ nextId < nextId' /\ nextId' \in 1 .. MaxId + 1
    BY <1>1, <1>2
<1> HIDE DEF t
<1> QED
    BY <1>3, <1>4, <1>5, <1>7, <1>8, <1>9, <1>10, <1>11, EntryInv

(* Changing an entry without its parties or its id.                        *)
LEMMA SamePairAlone ==
    ASSUME IInv, NEW id \in Active
    PROVE  \A j \in Active \ {id} :
              transfers[j].senderFd # transfers[id].senderFd
              \/ transfers[j].recipientFd # transfers[id].recipientFd
BY DEF IInv, OneActivePerPair

(* An acceptance is noted by both parties.                                 *)
LEMMA AcceptInv == ASSUME IInv, NEW c \in Fd, NEW id \in Id, cmdAccept(c, id) PROVE IInv'
<1> DEFINE s == transfers[id].senderFd
           t == [transfers[id] EXCEPT !.accepted = TRUE, !.idle = 0]
<1>1. id \in Active /\ sess[c] = "open" /\ transfers[id].recipientFd = c
    BY DEF cmdAccept, Receives
<1>2. Sound(transfers[id]) /\ id < nextId
    BY <1>1, ActiveIsSound
<1>3. sess[s] = "open" /\ s \in Fd /\ s # c /\ findClientByFd(s)
    BY <1>1, <1>2 DEF Sound, findClientByFd
<1>4. transfers[id] \in TransferType /\ transfers[id].live
    BY <1>1, TransferTypes DEF IInv, Active
<1>5. /\ t \in TransferType /\ t.live /\ t.senderFd = s /\ t.recipientFd = c /\ t.accepted
      /\ t.relayedBytes = transfers[id].relayedBytes
      /\ t.declaredSize = transfers[id].declaredSize
    BY <1>1, <1>4 DEF TransferType
<1>6. Sound(t)
    BY <1>1, <1>2, <1>5 DEF Sound
<1>7. transfers' = [transfers EXCEPT ![id] = t] /\ UNCHANGED <<sess, congested, nextId>>
    BY <1>3 DEF cmdAccept
<1>8. book[s][id] \in {"offered", "open"}
    BY <1>1, <1>3 DEF IInv, BooksAgree, Note, Party
<1>9. confused' = confused
    BY <1>8 DEF cmdAccept, Puzzled
<1>10. book' = [e \in Fd |-> [i \in Id |->
                  IF i = id /\ e \in {t.senderFd, t.recipientFd}
                  THEN (IF t.accepted THEN "open" ELSE "offered")
                  ELSE book[e][i]]]
  <2>1. book' = [book EXCEPT ![c][id] = "open", ![s][id] = "open"]
    BY <1>3 DEF cmdAccept, Told
  <2>2. book' = [e \in Fd |-> [i \in Id |->
                    IF i = id /\ e \in {c, s} THEN "open" ELSE book[e][i]]]
    <3>1. s \in Fd /\ s # c /\ book \in [Fd -> [Id -> {"no", "offered", "open"}]]
      BY <1>3 DEF IInv, TypeOK
    <3> HIDE DEF s
    <3> QED
      BY <2>1, <3>1
  <2> HIDE DEF t, s
  <2> QED
    BY <1>5, <2>2
<1>11. \A j \in Active \ {id} :
          transfers[j].senderFd # t.senderFd \/ transfers[j].recipientFd # t.recipientFd
    BY <1>1, <1>5, SamePairAlone
<1>12. nextId' \in 1 .. MaxId + 1 /\ id < nextId' /\ nextId <= nextId'
    BY <1>2, <1>7, SizeAssumption DEF IInv, TypeOK
<1>13. transfers[id].senderFd = t.senderFd /\ transfers[id].recipientFd = t.recipientFd
    BY <1>1, <1>5
<1> HIDE DEF s, t
<1> QED
    BY <1>5, <1>6, <1>7, <1>9, <1>10, <1>11, <1>12, <1>13, EntryInv

(* A chunk that is relayed fits, and its recipient agreed to it.           *)
LEMMA RelayInv ==
    ASSUME IInv, NEW c \in Fd, NEW id \in Id, NEW n \in 0 .. MaxChunk, cmdDataRelay(c, id, n)
    PROVE  IInv'
<1> DEFINE r == transfers[id].recipientFd
           b == transfers[id].relayedBytes + n
           t == [transfers[id] EXCEPT !.relayedBytes = b, !.idle = 0]
<1>1. /\ id \in Active /\ transfers[id].senderFd = c /\ transfers[id].accepted
      /\ Fits(id, n) /\ n > 0
    BY DEF cmdDataRelay, DataAllowed, Sends
<1>2. Sound(transfers[id]) /\ id < nextId
    BY <1>1, ActiveIsSound
<1>3. sess[r] = "open" /\ r \in Fd
    BY <1>2 DEF Sound
<1>4. transfers[id] \in TransferType /\ transfers[id].live
    BY <1>1, TransferTypes DEF IInv, Active
<1>5. b \in Nat /\ b <= transfers[id].declaredSize
    BY <1>1, TransferTypes, SizeAssumption DEF IInv, Fits
<1>6. /\ t \in TransferType /\ t.live /\ t.senderFd = c /\ t.recipientFd = r /\ t.accepted
      /\ t.relayedBytes = b /\ t.declaredSize = transfers[id].declaredSize
  <2> HIDE DEF b, r
  <2> QED
    BY <1>1, <1>4, <1>5 DEF TransferType, r
<1>7. Sound(t)
    BY <1>1, <1>2, <1>5, <1>6 DEF Sound
<1>8. transfers' = [transfers EXCEPT ![id] = t]
    BY <1>4 DEF cmdDataRelay, IInv, TypeOK
<1>9. UNCHANGED <<sess, congested, nextId, book>>
    BY DEF cmdDataRelay
<1>10. book[c][id] = "open" /\ book[r][id] = "open"
    BY <1>1, <1>2, <1>3 DEF IInv, BooksAgree, Note, Party, Sound
<1>11. confused' = confused
    BY <1>10 DEF cmdDataRelay, Puzzled
<1>12. book' = [e \in Fd |-> [i \in Id |->
                  IF i = id /\ e \in {t.senderFd, t.recipientFd}
                  THEN (IF t.accepted THEN "open" ELSE "offered")
                  ELSE book[e][i]]]
    BY <1>6, <1>9, <1>10 DEF IInv, TypeOK
<1>13. \A j \in Active \ {id} :
          transfers[j].senderFd # t.senderFd \/ transfers[j].recipientFd # t.recipientFd
    BY <1>1, <1>6, SamePairAlone
<1>14. nextId' \in 1 .. MaxId + 1 /\ id < nextId' /\ nextId <= nextId'
    BY <1>2, <1>9, SizeAssumption DEF IInv, TypeOK
<1>15. transfers[id].senderFd = t.senderFd /\ transfers[id].recipientFd = t.recipientFd
    BY <1>1, <1>6
<1> HIDE DEF r, b, t
<1> QED
    BY <1>6, <1>7, <1>8, <1>9, <1>11, <1>12, <1>13, <1>14, <1>15, EntryInv

(* REJECT and END.                                                         *)
LEMMA EndInv ==
    ASSUME IInv, NEW c \in Fd, NEW id \in Id, cmdReject(c, id) \/ cmdEnd(c, id)
    PROVE  IInv'
<1>1. id \in Active
    BY DEF cmdReject, cmdEnd, Sends, Receives
<1>2. Sound(transfers[id])
    BY <1>1, ActiveIsSound
<1>3. CASE cmdReject(c, id)
    BY <1>1, <1>2, <1>3, Ending DEF cmdReject, Receives, Sound, Party
<1>4. CASE cmdEnd(c, id)
    BY <1>1, <1>2, <1>4, Ending DEF cmdEnd, Sends, Sound, Party
<1> QED
    BY <1>3, <1>4

(* A refused chunk and ABORT.                                              *)
LEMMA AbortInv ==
    ASSUME IInv, NEW c \in Fd, NEW id \in Id, NEW n \in 0 .. MaxChunk,
           cmdDataAbort(c, id, n) \/ cmdAbort(c, id)
    PROVE  IInv'
<1>1. {id} \in SUBSET Active
    BY DEF cmdDataAbort, DataAllowed, cmdAbort, Sends, Receives
<1> QED
    BY <1>1, AbortingInPlace DEF cmdDataAbort, cmdAbort

(* The timeout ends the late ones and lets the others grow older.          *)
LEMMA TickInv == ASSUME IInv, NEW d \in 1 .. MaxPass, onTick(d) PROVE IInv'
<1> DEFINE S == Late(d)
<1>1. Struck(S) /\ UNCHANGED <<sess, congested, nextId>>
    BY DEF onTick
<1>2. S \in SUBSET Active /\ Active \subseteq Id
    BY DEF Active, Late
<1>3. transfers' = [id \in Id |->
          CASE id \in S -> NoTransfer
            [] id \in Active \ S -> Aged(transfers[id], d)
            [] OTHER -> transfers[id]]
    BY DEF onTick
<1> HIDE DEF S
<1>4. ASSUME NEW id \in S PROVE transfers'[id] = NoTransfer
    BY <1>2, <1>3, <1>4
<1>5. ASSUME NEW id \in Id \ S
      PROVE  /\ transfers'[id] \in TransferType
             /\ transfers'[id].live = transfers[id].live
             /\ transfers'[id].senderFd = transfers[id].senderFd
             /\ transfers'[id].recipientFd = transfers[id].recipientFd
             /\ transfers'[id].declaredSize = transfers[id].declaredSize
             /\ transfers'[id].relayedBytes = transfers[id].relayedBytes
             /\ transfers'[id].accepted = transfers[id].accepted
  <2>1. transfers[id] \in TransferType /\ transfers[id].idle \in Nat
    BY TransferTypes DEF IInv
  <2> DEFINE k == IF transfers[id].idle + d > IdleTimeout THEN IdleTimeout
                  ELSE transfers[id].idle + d
  <2>2. k \in Nat
    BY <2>1, SizeAssumption
  <2>3. transfers'[id] = IF id \in Active THEN [transfers[id] EXCEPT !.idle = k] ELSE transfers[id]
    BY <1>3, <1>5 DEF Aged
  <2> HIDE DEF k
  <2> QED
    BY <2>1, <2>2, <2>3 DEF TransferType
<1>6. transfers' \in [Id -> TransferType] /\ \A id \in S : ~transfers'[id].live
    BY <1>2, <1>3, <1>4, <1>5, NoTransferType
<1>7. \A id \in Active \ S, c \in Fd : Party(c, id) => sess'[c] = "open"
    BY <1>1, PartiesOpen
<1> QED
    BY <1>1, <1>2, <1>5, <1>6, <1>7, Erasing DEF IInv, TypeOK

(* Every step keeps the invariant.                                         *)
LEMMA NextInv == IInv /\ [Next]_vars => IInv'
<1> SUFFICES ASSUME IInv, [Next]_vars PROVE IInv'
    OBVIOUS
<1>1. CASE UNCHANGED vars
    BY <1>1 DEF vars, IInv, TypeOK, PartiesAreOpen, OneActivePerPair, RelayIsBounded,
                BooksAgree, NeverConfused, Active, Party, Note
<1>2. CASE Tick
    BY <1>2, TickInv DEF Tick
<1>3. ASSUME NEW c \in Fd, Session(c) PROVE IInv'
    BY <1>3, RegisterInv, DisconnectInv, QuietInv DEF Session
<1>4. ASSUME NEW c \in Fd, onCommand(c) PROVE IInv'
  <2>1. ASSUME NEW r \in Fd, NEW size \in 1 .. MaxFileSize, cmdSend(c, r, size) PROVE IInv'
    BY <2>1, SendInv
  <2>2. ASSUME NEW id \in Id, cmdAccept(c, id) \/ cmdReject(c, id) \/ cmdEnd(c, id) PROVE IInv'
    BY <2>2, AcceptInv, EndInv
  <2>3. ASSUME NEW id \in Id, cmdAbort(c, id) PROVE IInv'
    <3>1. 0 \in 0 .. MaxChunk
      BY SizeAssumption
    <3> QED
      BY <2>3, <3>1, AbortInv
  <2>4. ASSUME NEW id \in Id, NEW n \in 0 .. MaxChunk,
               cmdDataAbort(c, id, n) \/ cmdDataRelay(c, id, n)
        PROVE IInv'
    BY <2>4, AbortInv, RelayInv
  <2>5. ASSUME NEW id \in Id, NEW n \in 0 .. MaxChunk, cmdDataWait(c, id, n) PROVE IInv'
    BY <2>5, <1>1 DEF cmdDataWait
  <2> QED
    BY <1>4, <2>1, <2>2, <2>3, <2>4, <2>5 DEF onCommand
<1> QED
    BY <1>1, <1>2, <1>3, <1>4 DEF Next

(* The inductive invariant holds throughout: whatever sessions do, the map *)
(* names open sessions only, one transfer a pair, and both parties' notes  *)
(* agree with it.                                                          *)
THEOREM Invariance == Spec => []IInv
BY InitInv, NextInv, PTL DEF Spec

(* Both parties of a transfer know of it, of its acceptance and of its end *)
(* (FileTransferExt and teardownClientState).                              *)
THEOREM BooksAlwaysAgree == Spec => [](BooksAgree /\ NeverConfused)
<1>1. IInv => BooksAgree /\ NeverConfused
    BY DEF IInv
<1> QED
    BY <1>1, Invariance, PTL

(* One transfer per ordered pair of sessions (findActive).                 *)
THEOREM OnePerPair == Spec => []OneActivePerPair
<1>1. IInv => OneActivePerPair
    BY DEF IInv
<1> QED
    BY <1>1, Invariance, PTL

(* A step that changes one entry without beginning a transfer.             *)
LEMMA EntryStep ==
    ASSUME TypeOK, NEW STATE id, id \in Id, NEW STATE t,
           transfers' = [transfers EXCEPT ![id] = t],
           t.live => /\ transfers[id].live
                     /\ t.senderFd = transfers[id].senderFd
                     /\ t.recipientFd = transfers[id].recipientFd
                     /\ t.declaredSize = transfers[id].declaredSize
                     /\ transfers[id].accepted => t.accepted
                     /\ transfers[id].relayedBytes <= t.relayedBytes
    PROVE  \A j \in Id : TransferStep(j)
<1> SUFFICES ASSUME NEW j \in Id PROVE TransferStep(j)
    OBVIOUS
<1>1. CASE j = id
  <2>1. transfers'[j] = t
    BY <1>1 DEF TypeOK
  <2> QED
    BY <1>1, <2>1 DEF TransferStep
<1>2. CASE j # id
  <2>1. transfers'[j] = transfers[j]
    BY <1>2 DEF TypeOK
  <2> QED
    BY <2>1, TransferTypes DEF TransferStep
<1> QED
    BY <1>1, <1>2

(* A step that only erases entries, or leaves them all but idle.           *)
LEMMA ErasingStep ==
    ASSUME TypeOK,
           \A id \in Id : \/ ~transfers'[id].live
                          \/ /\ transfers'[id].live = transfers[id].live
                             /\ transfers'[id].senderFd = transfers[id].senderFd
                             /\ transfers'[id].recipientFd = transfers[id].recipientFd
                             /\ transfers'[id].declaredSize = transfers[id].declaredSize
                             /\ transfers'[id].relayedBytes = transfers[id].relayedBytes
                             /\ transfers'[id].accepted = transfers[id].accepted
    PROVE  \A id \in Id : TransferStep(id)
<1> SUFFICES ASSUME NEW id \in Id PROVE TransferStep(id)
    OBVIOUS
<1>1. transfers[id].relayedBytes <= transfers[id].relayedBytes
    BY TransferTypes
<1> QED
    BY <1>1 DEF TransferStep

(* Aborting only erases entries.                                           *)
LEMMA AbortStep ==
    ASSUME TypeOK, NEW S, abortTransfers(S)
    PROVE  \A id \in Id : TransferStep(id)
BY ErasingStep, NoTransferType DEF abortTransfers

(* Every step of the extension takes transfers forward.                    *)
LEMMA CommandStep ==
    ASSUME IInv, NEW c \in Fd, onCommand(c)
    PROVE  nextId <= nextId' /\ \A id \in Id : TransferStep(id)
<1>0. TypeOK /\ nextId <= nextId
    BY SizeAssumption DEF IInv, TypeOK
<1>1. ASSUME NEW r \in Fd, NEW size \in 1 .. MaxFileSize, cmdSend(c, r, size)
      PROVE  nextId <= nextId' /\ \A id \in Id : TransferStep(id)
  <2>1. nextId \in Id /\ nextId' = nextId + 1 /\ nextId \in Nat
    BY <1>1, SizeAssumption DEF cmdSend, Id
  <2>2. nextId \notin Active
    BY <2>1 DEF IInv
  <2>3. ~transfers[nextId].live
    BY <2>1, <2>2 DEF Active
  <2>4. transfers'[nextId] = NewTransfer(c, r, size)
    BY <1>1, <2>1, <1>0 DEF cmdSend, TypeOK
  <2>5. TransferStep(nextId)
    BY <2>3, <2>4, NewTransferType, SizeAssumption DEF TransferStep
  <2>6. ASSUME NEW id \in Id, id # nextId PROVE TransferStep(id)
    <3>1. transfers'[id] = transfers[id]
      BY <1>1, <2>6, <1>0 DEF cmdSend, TypeOK
    <3> QED
      BY <3>1, <1>0, TransferTypes DEF TransferStep
  <2>7. \A id \in Id : TransferStep(id)
    BY <2>5, <2>6
  <2> QED
    BY <2>1, <2>7
<1>2. ASSUME NEW id \in Id, cmdAccept(c, id)
      PROVE  nextId <= nextId' /\ \A j \in Id : TransferStep(j)
  <2> DEFINE u == [transfers[id] EXCEPT !.accepted = TRUE, !.idle = 0]
             t == IF findClientByFd(transfers[id].senderFd) THEN u ELSE NoTransfer
  <2>1. transfers' = [transfers EXCEPT ![id] = t] /\ UNCHANGED nextId
    BY <1>2 DEF cmdAccept
  <2>2. /\ u.live = transfers[id].live /\ u.senderFd = transfers[id].senderFd
        /\ u.recipientFd = transfers[id].recipientFd
        /\ u.declaredSize = transfers[id].declaredSize
        /\ u.relayedBytes = transfers[id].relayedBytes /\ u.accepted
        /\ transfers[id].relayedBytes <= transfers[id].relayedBytes
    BY <1>0, TransferTypes DEF TransferType
  <2>3. t = u \/ ~t.live
    BY NoTransferType
  <2> HIDE DEF u, t
  <2> QED
    BY <1>0, <2>1, <2>2, <2>3, EntryStep
<1>3. ASSUME NEW id \in Id, cmdReject(c, id) \/ cmdEnd(c, id)
      PROVE  nextId <= nextId' /\ \A j \in Id : TransferStep(j)
    BY <1>0, <1>3, EntryStep, NoTransferType DEF cmdReject, cmdEnd
<1>4. ASSUME NEW id \in Id, NEW n \in 0 .. MaxChunk, cmdDataRelay(c, id, n)
      PROVE  nextId <= nextId' /\ \A j \in Id : TransferStep(j)
  <2> DEFINE b == transfers[id].relayedBytes + n
             t == [transfers[id] EXCEPT !.relayedBytes = b, !.idle = 0]
  <2>1. transfers' = [transfers EXCEPT ![id] = t] /\ UNCHANGED nextId
    BY <1>0, <1>4 DEF cmdDataRelay, TypeOK
  <2>2. transfers[id].relayedBytes <= b
    BY <1>0, TransferTypes, SizeAssumption
  <2> HIDE DEF b
  <2>3. /\ t.live = transfers[id].live /\ t.senderFd = transfers[id].senderFd
        /\ t.recipientFd = transfers[id].recipientFd
        /\ t.declaredSize = transfers[id].declaredSize
        /\ t.relayedBytes = b /\ t.accepted = transfers[id].accepted
    BY <1>0, TransferTypes DEF TransferType
  <2> HIDE DEF t
  <2> QED
    BY <1>0, <2>1, <2>2, <2>3, EntryStep
<1>5. ASSUME NEW id \in Id, NEW n \in 0 .. MaxChunk,
             cmdDataAbort(c, id, n) \/ cmdAbort(c, id)
      PROVE  nextId <= nextId' /\ \A j \in Id : TransferStep(j)
    BY <1>0, <1>5, AbortStep DEF cmdDataAbort, cmdAbort
<1>6. ASSUME NEW id \in Id, NEW n \in 0 .. MaxChunk, cmdDataWait(c, id, n)
      PROVE  nextId <= nextId' /\ \A j \in Id : TransferStep(j)
    BY <1>0, <1>6, ErasingStep DEF cmdDataWait, vars
<1>7. 0 \in 0 .. MaxChunk
    BY SizeAssumption
<1> QED
    BY <1>1, <1>2, <1>3, <1>4, <1>5, <1>6, <1>7 DEF onCommand

(* Offered once, under a fresh id, and only forward from there (cmdSend,   *)
(* cmdAnswer, cmdData, onTick, onClientDisconnect).                        *)
THEOREM GoesForward == Spec => TransfersGoForward
<1>1. IInv /\ [Next]_vars => [nextId <= nextId' /\ \A id \in Id : TransferStep(id)]_vars
  <2> SUFFICES ASSUME IInv, Next
               PROVE  nextId <= nextId' /\ \A id \in Id : TransferStep(id)
    OBVIOUS
  <2>0. TypeOK /\ nextId <= nextId
    BY SizeAssumption DEF IInv, TypeOK
  <2>1. ASSUME NEW d \in 1 .. MaxPass, onTick(d)
        PROVE  nextId <= nextId' /\ \A id \in Id : TransferStep(id)
    <3>1. \A id \in Id :
              \/ transfers'[id] = NoTransfer
              \/ transfers'[id] = transfers[id]
              \/ transfers'[id] = Aged(transfers[id], d)
      BY <2>1 DEF onTick
    <3>2. ASSUME NEW id \in Id
          PROVE  \/ ~transfers'[id].live
                 \/ /\ transfers'[id].live = transfers[id].live
                    /\ transfers'[id].senderFd = transfers[id].senderFd
                    /\ transfers'[id].recipientFd = transfers[id].recipientFd
                    /\ transfers'[id].declaredSize = transfers[id].declaredSize
                    /\ transfers'[id].relayedBytes = transfers[id].relayedBytes
                    /\ transfers'[id].accepted = transfers[id].accepted
      BY <2>0, <3>1, TransferTypes, NoTransferType DEF TransferType, Aged
    <3> QED
      BY <2>0, <2>1, <3>2, ErasingStep DEF onTick
  <2>2. ASSUME NEW c \in Fd, Disconnect(c)
        PROVE  nextId <= nextId' /\ \A id \in Id : TransferStep(id)
    BY <2>0, <2>2, AbortStep DEF Disconnect, onClientDisconnect
  <2>3. ASSUME NEW c \in Fd, Register(c) \/ finalizeDisconnect(c) \/ Congestion(c)
        PROVE  nextId <= nextId' /\ \A id \in Id : TransferStep(id)
    BY <2>0, <2>3, ErasingStep DEF Register, finalizeDisconnect, Congestion
  <2> QED
    BY <2>1, <2>2, <2>3, CommandStep DEF Next, Tick, Session
<1> QED
    BY <1>1, Invariance, PTL DEF Spec, TransfersGoForward
=============================================================================
