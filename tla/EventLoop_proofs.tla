--------------------------- MODULE EventLoop_proofs ---------------------------
(***************************************************************************)
(* The safety of the event loop for any number of clients and any batch    *)
(* and queue size: IInv is inductive, and a pass moves each session as     *)
(* Sessions allows.                                                        *)
(***************************************************************************)
EXTENDS EventLoop, TLAPS

(* A client record in order: a deferred close has output, and a descriptor *)
(* without a client has neither.                                           *)
Sound(r) ==
    /\ r \in ClientType
    /\ r.closing # "no" => r.out > 0
    /\ ~r.there => r.out = 0 /\ r.closing = "no"

SoundMap(f) == f \in [Fd -> ClientType] /\ \A d \in Fd : Sound(f[d])

(* One session's move, by its records before and after.                    *)
LifeStep(r, q) ==
    /\ ~r.there /\ q.there => q.closing = "no"
    /\ r.there /\ r.closing # "no" => ~q.there \/ q.closing # "no"

(* The record of a client that a step leaves as it is, up to its queue.    *)
SameLife(r, q) == q.there = r.there /\ q.closing = r.closing

LEMMA RecordFacts ==
    /\ NewClient \in ClientType /\ NewClient.there /\ NewClient.closing = "no"
    /\ NewClient.out = 0
    /\ NoClient \in ClientType /\ ~NoClient.there /\ NoClient.closing = "no"
    /\ NoClient.out = 0
    /\ Sound(NewClient) /\ Sound(NoClient)
<1>1. 0 \in 0..SendQ
  BY LoopAssumption
<1>2. /\ NewClient \in ClientType /\ NewClient.there /\ NewClient.closing = "no"
      /\ NewClient.out = 0
  BY <1>1 DEF NewClient, ClientType
<1>3. /\ NoClient \in ClientType /\ ~NoClient.there /\ NoClient.closing = "no"
      /\ NoClient.out = 0
  BY <1>1 DEF NewClient, NoClient, ClientType
<1>4. QED
  BY <1>2, <1>3 DEF Sound

LEMMA QueueRecord ==
  ASSUME NEW r \in ClientType, NEW k \in 0..(SendQ + 1)
  PROVE  /\ queueMessage(r, k) \in ClientType
         /\ SameLife(r, queueMessage(r, k))
         /\ queueMessage(r, k).out >= r.out
         /\ k = 0 => queueMessage(r, k).out = r.out
<1>1. r.out \in 0..SendQ /\ SendQ \in Nat
  BY LoopAssumption DEF ClientType
<1>2. CASE r.out + k <= SendQ
  <2>1. r.out + k \in 0..SendQ /\ r.out + k >= r.out /\ (k = 0 => r.out + k = r.out)
    BY <1>1, <1>2
  <2>2. queueMessage(r, k) = [r EXCEPT !.out = r.out + k]
    BY <1>2 DEF queueMessage
  <2>3. QED
    BY <2>1, <2>2 DEF ClientType, SameLife
<1>3. CASE ~(r.out + k <= SendQ)
  <2>1. SendQ \in 0..SendQ /\ SendQ >= r.out /\ k # 0
    BY <1>1, <1>3
  <2>2. queueMessage(r, k) = [r EXCEPT !.out = SendQ, !.over = TRUE]
    BY <1>3 DEF queueMessage
  <2>3. QED
    BY <2>1, <2>2 DEF ClientType, SameLife
<1>4. QED
  BY <1>2, <1>3

(* Lines for clients that are there and not leaving.                       *)
LEMMA QueueSound ==
  ASSUME NEW f, SoundMap(f), NEW S \in SUBSET Fd, \A d \in S : f[d].there,
         NEW k \in Lines(S)
  PROVE  SoundMap(Queue(f, k)) /\ \A d \in Fd : SameLife(f[d], Queue(f, k)[d])
<1>1. k \in [Fd -> 0..(SendQ + 1)] /\ \A d \in Fd \ S : k[d] = 0
  BY DEF Lines
<1>2. ASSUME NEW d \in Fd
      PROVE  Sound(queueMessage(f[d], k[d])) /\ SameLife(f[d], queueMessage(f[d], k[d]))
  <2>1. f[d] \in ClientType /\ k[d] \in 0..(SendQ + 1) /\ Sound(f[d])
    BY <1>1 DEF SoundMap
  <2>2. /\ queueMessage(f[d], k[d]) \in ClientType
        /\ SameLife(f[d], queueMessage(f[d], k[d]))
        /\ queueMessage(f[d], k[d]).out >= f[d].out
        /\ k[d] = 0 => queueMessage(f[d], k[d]).out = f[d].out
    BY <2>1, QueueRecord
  <2>3. f[d].out \in Nat
    BY <2>1, LoopAssumption DEF ClientType
  <2>4. ~f[d].there => k[d] = 0
    BY <1>1
  <2>5. QED
    BY <2>1, <2>2, <2>3, <2>4, LoopAssumption DEF Sound, SameLife, ClientType
<1>3. QED
  BY <1>2 DEF Queue, SoundMap, Sound

LEMMA FinalizeSound ==
  ASSUME NEW f, SoundMap(f), NEW c \in Fd
  PROVE  /\ SoundMap(finalizeDisconnect(f, c))
         /\ ~finalizeDisconnect(f, c)[c].there
         /\ \A d \in Fd \ {c} : finalizeDisconnect(f, c)[d] = f[d]
  BY RecordFacts DEF finalizeDisconnect, SoundMap

LEMMA DisconnectSound ==
  ASSUME NEW f, SoundMap(f), NEW c \in Fd, f[c].there
  PROVE  /\ SoundMap(disconnectClient(f, c))
         /\ LifeStep(f[c], disconnectClient(f, c)[c])
         /\ \A d \in Fd \ {c} : disconnectClient(f, c)[d] = f[d]
<1>1. CASE f[c].closing # "no"
  BY <1>1 DEF disconnectClient, LifeStep
<1>2. CASE f[c].closing = "no" /\ f[c].out = 0
  BY <1>2, FinalizeSound DEF disconnectClient, LifeStep
<1>3. CASE f[c].closing = "no" /\ f[c].out # 0
  <2> DEFINE q == [f[c] EXCEPT !.closing = "fresh"]
  <2>1. f[c] \in ClientType /\ f[c].out > 0
    BY <1>3, LoopAssumption DEF SoundMap, ClientType
  <2>2. q \in ClientType /\ q.out > 0 /\ q.there
    BY <2>1 DEF ClientType
  <2>3. Sound(q) /\ LifeStep(f[c], q)
    BY <1>3, <2>2 DEF Sound, LifeStep
  <2>4. disconnectClient(f, c) = [f EXCEPT ![c] = q]
    BY <1>3 DEF disconnectClient, markPendingClose
  <2>5. QED
    BY <2>2, <2>3, <2>4 DEF SoundMap
<1>4. QED
  BY <1>1, <1>2, <1>3

-----------------------------------------------------------------------------
(* What each step does to the client map: it stays sound, and no session   *)
(* but the handled one moves.                                              *)

ClientInv == SoundMap(client)

LEMMA ReachableFacts == Reachable \subseteq Fd /\ \A d \in Reachable : client[d].there
  BY DEF Reachable, Clients

(* One client's event: only its own session may move.                      *)
Handles(c) ==
    /\ SoundMap(client')
    /\ LifeStep(client[c], client'[c])
    /\ \A d \in Fd \ {c} : SameLife(client[d], client'[d])

(* The end of a handler, from a map g that has the clients as they are.    *)
LEMMA CloseAfterQueue ==
  ASSUME NEW STATE g, SoundMap(g), \A d \in Fd : SameLife(client[d], g[d]),
         NEW c \in Fd, client[c].there, NEW k \in Lines(Reachable),
         \/ client' = disconnectClient(Queue(g, k), c)
         \/ client' = disconnectClientNow(Queue(g, k), c)
         \/ client' = Queue(g, k)
  PROVE  Handles(c)
<1> DEFINE f == Queue(g, k)
<1>1. SoundMap(f) /\ \A d \in Fd : SameLife(g[d], f[d])
  BY ReachableFacts, QueueSound DEF SameLife
<1>2. f[c].there /\ \A d \in Fd : SameLife(client[d], f[d])
  BY <1>1 DEF SameLife
<1> HIDE DEF f
<1>3. CASE client' = disconnectClient(f, c)
  BY <1>1, <1>2, <1>3, DisconnectSound DEF Handles, SameLife, LifeStep
<1>4. CASE client' = disconnectClientNow(f, c)
  BY <1>1, <1>2, <1>4, FinalizeSound DEF Handles, LifeStep, disconnectClientNow
<1>5. CASE client' = f
  BY <1>1, <1>2, <1>5 DEF Handles, LifeStep, SameLife
<1>6. QED
  BY <1>3, <1>4, <1>5 DEF f

LEMMA LinesMonotone == \A S, T \in SUBSET Fd : S \subseteq T => Lines(S) \subseteq Lines(T)
  BY DEF Lines

LEMMA SameLifeRefl == \A r : SameLife(r, r)
  BY DEF SameLife

LEMMA NothingHappens ==
  ASSUME ClientInv, NEW c \in Fd, UNCHANGED client
  PROVE  Handles(c)
  BY DEF Handles, ClientInv, LifeStep, SameLife

LEMMA InputHandles ==
  ASSUME ClientInv, NEW c \in Fd, client[c].there, handleClientInput(c)
  PROVE  Handles(c)
<1>1. CASE ReceiveData(c)
  <2> DEFINE g == [client EXCEPT ![c] = [client[c] EXCEPT !.idle = "fresh", !.pinged = FALSE]]
  <2>1. PICK k \in Lines(Reachable) :
          LET f == Queue([client EXCEPT ![c].idle = "fresh", ![c].pinged = FALSE], k)
          IN  \/ client' = disconnectClient(f, c)
              \/ client' = IF f[c].over THEN disconnectClientNow(f, c) ELSE f
    BY <1>1 DEF ReceiveData
  <2>2. g = [client EXCEPT ![c].idle = "fresh", ![c].pinged = FALSE]
    BY DEF ClientInv, SoundMap
  <2>3. SoundMap(g) /\ \A d \in Fd : SameLife(client[d], g[d])
    <3> DEFINE q == [client[c] EXCEPT !.idle = "fresh", !.pinged = FALSE]
    <3>1. Sound(client[c])
      BY DEF ClientInv, SoundMap
    <3>2. q \in ClientType /\ SameLife(client[c], q) /\ q.out = client[c].out
      BY <3>1 DEF Sound, ClientType, SameLife
    <3>3. Sound(q)
      BY <3>1, <3>2 DEF Sound, SameLife
    <3> HIDE DEF q
    <3>4. g[c] = q /\ \A d \in Fd \ {c} : g[d] = client[d]
      BY DEF q, ClientInv, SoundMap
    <3>5. QED
      BY <3>2, <3>3, <3>4, SameLifeRefl DEF ClientInv, SoundMap, q
  <2> HIDE DEF g
  <2>4. \/ client' = disconnectClient(Queue(g, k), c)
        \/ client' = disconnectClientNow(Queue(g, k), c)
        \/ client' = Queue(g, k)
    BY <2>1, <2>2
  <2>5. QED
    BY <2>3, <2>4, CloseAfterQueue
<1>2. CASE PeerClosed(c)
  BY <1>2, SameLifeRefl, CloseAfterQueue DEF PeerClosed, ClientInv
<1>3. QED
  BY <1>1, <1>2, NothingHappens DEF handleClientInput

LEMMA ErrorHandles ==
  ASSUME ClientInv, NEW c \in Fd, client[c].there, ConnectionError(c)
  PROVE  Handles(c)
<1>1. PICK k \in Lines(Reachable \ {c}) : client' = disconnectClientNow(Queue(client, k), c)
  BY DEF ConnectionError
<1>2. k \in Lines(Reachable)
  BY LinesMonotone, ReachableFacts
<1>3. QED
  BY <1>1, <1>2, SameLifeRefl, CloseAfterQueue DEF ClientInv

LEMMA OutputHandles ==
  ASSUME ClientInv, NEW c \in Fd, client[c].there, handleClientOutput(c)
  PROVE  Handles(c) /\ (client'[c].closing # "no" => client[c].closing # "no")
<1>1. CASE UNCHANGED client
  BY <1>1, NothingHappens
<1>2. ASSUME NEW n \in 1..client[c].out, AfterSend([client EXCEPT ![c].out = @ - n], c)
      PROVE  Handles(c) /\ (client'[c].closing # "no" => client[c].closing # "no")
  <2> DEFINE r == client[c]
             q == [r EXCEPT !.out = r.out - n]
             g == [client EXCEPT ![c] = q]
  <2>1. r \in ClientType /\ Sound(r) /\ r.out \in 0..SendQ /\ SendQ \in Nat
    BY LoopAssumption DEF ClientInv, SoundMap, ClientType
  <2>2. r.out - n \in 0..SendQ
    BY <2>1
  <2>3. q \in ClientType /\ SameLife(r, q) /\ q.out = r.out - n
    BY <2>1, <2>2 DEF ClientType, SameLife
  <2>4. /\ g = [client EXCEPT ![c].out = @ - n]
        /\ g \in [Fd -> ClientType] /\ g[c] = q
        /\ \A d \in Fd \ {c} : g[d] = client[d]
    BY <2>3 DEF ClientInv, SoundMap
  <2>5. AfterSend(g, c)
    BY <1>2, <2>4
  <2> HIDE DEF g, q
  <2>6. \A d \in Fd : SameLife(client[d], g[d])
    BY <2>3, <2>4 DEF SameLife
  <2>7. CASE g[c].closing # "no"
    <3>1. client' = IF g[c].out = 0 \/ g[c].over THEN finalizeDisconnect(g, c) ELSE g
      BY <2>5, <2>7 DEF AfterSend
    <3>2. CASE client' = finalizeDisconnect(g, c)
      <4>1. client' = finalizeDisconnect(client, c)
        BY <2>4, <3>2 DEF finalizeDisconnect, ClientInv, SoundMap
      <4>2. QED
        BY <2>3, <2>4, <2>7, <4>1, FinalizeSound DEF Handles, LifeStep, SameLife, ClientInv
    <3>3. CASE client' = g /\ g[c].out # 0
      <4>1. Sound(q)
        BY <2>1, <2>2, <2>3, <2>4, <3>3 DEF Sound, SameLife
      <4>2. SoundMap(g)
        BY <2>4, <4>1 DEF SoundMap, ClientInv
      <4>3. QED
        BY <2>3, <2>4, <2>6, <2>7, <3>3, <4>2 DEF Handles, LifeStep, SameLife
    <3>4. QED
      BY <3>1, <3>2, <3>3
  <2>8. CASE g[c].closing = "no"
    <3>1. Sound(q)
      BY <2>1, <2>3, <2>4, <2>8 DEF Sound, SameLife
    <3>2. SoundMap(g)
      BY <2>4, <3>1 DEF SoundMap, ClientInv
    <3>3. CASE client' = g
      BY <2>6, <2>8, <3>2, <3>3 DEF Handles, LifeStep, SameLife
    <3>4. ASSUME NEW k \in Lines(Reachable \ {c}),
                 client' = disconnectClientNow(Queue(g, k), c)
          PROVE  Handles(c) /\ client'[c].closing = "no"
      <4>1. k \in Lines(Reachable)
        BY LinesMonotone, ReachableFacts
      <4>2. Handles(c)
        BY <2>6, <3>2, <3>4, <4>1, CloseAfterQueue
      <4>3. client'[c] = NoClient
        BY <3>4 DEF disconnectClientNow, finalizeDisconnect, Queue
      <4>4. QED
        BY <4>2, <4>3, RecordFacts
    <3>5. QED
      BY <2>5, <2>8, <3>3, <3>4 DEF AfterSend
  <2>9. QED
    BY <2>7, <2>8
<1>3. QED
  BY <1>1, <1>2 DEF handleClientOutput

-----------------------------------------------------------------------------
(* Steps that go over all clients: each session moves as it may.           *)

Sweeps ==
    /\ SoundMap(client')
    /\ \A d \in Fd : LifeStep(client[d], client'[d])

LEMMA PingedSound ==
  ASSUME ClientInv
  PROVE  SoundMap(Pinged) /\ \A d \in Fd : SameLife(client[d], Pinged[d])
<1>1. ASSUME NEW d \in Fd
      PROVE  Sound(Pinged[d]) /\ SameLife(client[d], Pinged[d])
  <2> DEFINE r == client[d]
             q == queueMessage(r, 1)
  <2>1. r \in ClientType /\ Sound(r) /\ 1 \in 0..(SendQ + 1) /\ r.out \in Nat
    BY LoopAssumption DEF ClientInv, SoundMap, ClientType
  <2>2. q \in ClientType /\ SameLife(r, q) /\ q.out >= r.out
    BY <2>1, QueueRecord
  <2> HIDE DEF q
  <2>3. CASE d \in pingNow
    <3>1. r.there
      BY <2>3 DEF pingNow, Reachable, Clients
    <3>2. Pinged[d] = [q EXCEPT !.pinged = TRUE]
      BY <2>3 DEF Pinged, q
    <3>3. q.out \in Nat
      BY <2>2, LoopAssumption DEF ClientType
    <3>4. /\ Pinged[d] \in ClientType /\ SameLife(q, Pinged[d])
          /\ Pinged[d].out = q.out
      BY <2>2, <3>2 DEF ClientType, SameLife
    <3>5. SameLife(r, Pinged[d])
      BY <2>2, <3>4 DEF SameLife
    <3>6. r.closing # "no" => q.out > 0
      BY <2>1, <2>2, <3>3 DEF Sound
    <3>7. Pinged[d].there /\ Pinged[d].closing = r.closing
      BY <3>1, <3>5 DEF SameLife
    <3>8. Sound(Pinged[d])
      BY <3>4, <3>6, <3>7 DEF Sound
    <3>9. QED
      BY <3>5, <3>8
  <2>4. CASE d \notin pingNow
    BY <2>1, <2>4 DEF Pinged, SameLife
  <2>5. QED
    BY <2>3, <2>4
<1>2. QED
  BY <1>1 DEF SoundMap, Pinged, Sound

LEMMA TimeoutsSweep ==
  ASSUME ClientInv, checkTimeouts
  PROVE  Sweeps
<1>1. CASE UNCHANGED client
  BY <1>1 DEF Sweeps, LifeStep, ClientInv
<1>2. ASSUME NEW k \in Lines(IF sendQNow \cup pingTimeoutDeferred = {} THEN {}
                             ELSE Reachable \ sendQNow),
             client' = Swept(k)
      PROVE  Sweeps
  <2>1. k \in Lines(Reachable)
    BY LinesMonotone, ReachableFacts
  <2> DEFINE f == Queue(Pinged, k)
  <2>2. SoundMap(f) /\ \A d \in Fd : SameLife(Pinged[d], f[d])
    BY <2>1, ReachableFacts, PingedSound, QueueSound DEF SameLife
  <2>3. \A d \in Fd : SameLife(client[d], f[d])
    BY <2>2, PingedSound DEF SameLife
  <2>4. ASSUME NEW d \in Fd
        PROVE  Sound(client'[d]) /\ LifeStep(client[d], client'[d])
    <3>1. CASE d \in sendQNow
      BY <1>2, <3>1, RecordFacts DEF Swept, LifeStep
    <3>2. CASE d \notin sendQNow /\ d \in pingTimeoutDeferred
      <4>1. f[d].there
        BY <2>3, <3>2, ReachableFacts DEF pingTimeoutDeferred, SameLife
      <4>2. client'[d] = disconnectClient(f, d)[d]
        BY <1>2, <3>2 DEF Swept
      <4>3. Sound(client'[d]) /\ LifeStep(f[d], client'[d])
        BY <2>2, <4>1, <4>2, DisconnectSound DEF SoundMap
      <4>4. QED
        BY <2>3, <4>3 DEF LifeStep, SameLife
    <3>3. CASE d \notin sendQNow /\ d \notin pingTimeoutDeferred
      <4>1. client'[d] = f[d]
        BY <1>2, <3>3 DEF Swept
      <4>2. QED
        BY <2>2, <2>3, <4>1 DEF SoundMap, LifeStep, SameLife
    <3>4. QED
      BY <3>1, <3>2, <3>3
  <2>5. QED
    BY <1>2, <2>4 DEF Sweeps, SoundMap, Sound, Swept
<1>3. QED
  BY <1>1, <1>2 DEF checkTimeouts

LEMMA ExpirySweep ==
  ASSUME ClientInv, checkPendingCloseTimeouts
  PROVE  Sweeps
  BY RecordFacts DEF checkPendingCloseTimeouts, Sweeps, ClientInv, SoundMap, LifeStep

LEMMA TickSweep ==
  ASSUME ClientInv, onTick
  PROVE  Sweeps
<1>1. PICK k \in Lines(Reachable) : client' = Queue(client, k)
  BY DEF onTick
<1>2. SoundMap(client') /\ \A d \in Fd : SameLife(client[d], client'[d])
  BY <1>1, ReachableFacts, QueueSound DEF ClientInv
<1>3. QED
  BY <1>2 DEF Sweeps, LifeStep, SameLife

LEMMA WantFacts ==
  ASSUME NEW r \in ClientType
  PROVE  /\ Want(r) \in SUBSET {"IN", "OUT"}
         /\ r.closing # "no" => "IN" \notin Want(r)
         /\ r.there /\ r.out > 0 => "OUT" \in Want(r)
  BY DEF Want

LEMMA InterestSweep ==
  ASSUME ClientInv, updateEpollInterest
  PROVE  /\ Sweeps
         /\ \A d \in Fd : client'[d].closing # "no" => "IN" \notin client'[d].mask
         /\ \A d \in Fd : client'[d].out > 0 => "OUT" \in client'[d].mask
<1>1. ASSUME NEW d \in Fd
      PROVE  /\ Sound(client'[d]) /\ LifeStep(client[d], client'[d])
             /\ client'[d].closing # "no" => "IN" \notin client'[d].mask
             /\ client'[d].out > 0 => "OUT" \in client'[d].mask
  <2> DEFINE r == client[d]
             w == Want(r)
  <2>1. r \in ClientType /\ Sound(r)
    BY DEF ClientInv, SoundMap
  <2>2. /\ w \in SUBSET {"IN", "OUT"} /\ (r.closing # "no" => "IN" \notin w)
        /\ (r.there /\ r.out > 0 => "OUT" \in w)
    BY <2>1, WantFacts
  <2> HIDE DEF w
  <2>3. client'[d] = [r EXCEPT !.mask = w]
    BY DEF updateEpollInterest, w
  <2>4. /\ client'[d] \in ClientType /\ SameLife(r, client'[d])
        /\ client'[d].out = r.out /\ client'[d].mask = w
    BY <2>1, <2>2, <2>3 DEF ClientType, SameLife
  <2>5. r.out \in Nat
    BY <2>1, LoopAssumption DEF ClientType
  <2>6. QED
    BY <2>1, <2>2, <2>4, <2>5 DEF Sound, SameLife, LifeStep
<1>2. QED
  BY <1>1 DEF Sweeps, SoundMap, Sound, updateEpollInterest

-----------------------------------------------------------------------------
(* IInv in parts.                                                          *)

Rest ==
    /\ backlog \in BOOLEAN /\ sweepDue \in BOOLEAN
    /\ sock \in [Fd -> SocketType]
    /\ pc \in {"wait", "batch", "sweep", "expire", "tick", "interest", "stopped"}
    /\ batch \in [Fd \cup {Listen} -> SUBSET Flag]
    /\ cur \in Fd \cup {None}

BatchOK ==
    \A d \in Fd : /\ batch[d] # {} => client[d].there
                  /\ client[d].closing # "no" => "IN" \notin batch[d]

MaskOK ==
    pc = "wait" => \A d \in Fd : /\ client[d].closing # "no" => "IN" \notin client[d].mask
                                 /\ client[d].out > 0 => "OUT" \in client[d].mask

Quiet == pc # "batch" => \A d \in Fd \cup {Listen} : batch[d] = {}

LEMMA Parts == IInv <=> Rest /\ ClientInv /\ BatchOK /\ MaskOK /\ Quiet
  BY DEF IInv, TypeOK, EventsAreCurrent, LeavingIsNotRead, DeferredHasOutput, NoLostWakeup,
     Rest, ClientInv, SoundMap, Sound, BatchOK, MaskOK, Quiet

LEMMA PartsPrime == IInv' <=> Rest' /\ ClientInv' /\ BatchOK' /\ MaskOK' /\ Quiet'
  BY DEF IInv, TypeOK, EventsAreCurrent, LeavingIsNotRead, DeferredHasOutput, NoLostWakeup,
     Rest, ClientInv, SoundMap, Sound, BatchOK, MaskOK, Quiet

LEMMA FreshSocketType == FreshSocket \in SocketType
  BY DEF FreshSocket, SocketType

LEMMA ClosedType ==
  ASSUME NEW STATE s, s \in [Fd -> SocketType]
  PROVE  Closed(s) \in [Fd -> SocketType]
  BY FreshSocketType DEF Closed

(* Each session's move, for the refinement of Sessions.                    *)
AllMove == \A d \in Fd : LifeStep(client[d], client'[d])

LEMMA NoneMoves == UNCHANGED client => AllMove
  BY DEF AllMove, LifeStep

(* One event handled: IN, OUT or ERR of c.                                 *)
LEMMA EventStep ==
  ASSUME IInv, NEW c \in Fd,
         handleClientInput(c) \/ handleClientOutput(c) \/ ConnectionError(c)
  PROVE  IInv' /\ AllMove
<1>1. Rest /\ ClientInv /\ BatchOK
  BY Parts
<1>2. PICK flag \in Flag :
        /\ Turn(c, flag) /\ EndTurn(c, flag)
        /\ flag = "IN" => handleClientInput(c)
        /\ flag = "OUT" => handleClientOutput(c)
        /\ flag = "ERR" => ConnectionError(c)
  BY DEF handleClientInput, handleClientOutput, ConnectionError, Flag
<1>3. client[c].there /\ flag \in batch[c] /\ pc = "batch"
  BY <1>1, <1>2 DEF Turn, BatchOK
<1>4. Handles(c) /\ (flag = "OUT" => (client'[c].closing # "no" => client[c].closing # "no"))
  <2>1. flag = "IN" \/ flag = "OUT" \/ flag = "ERR"
    BY DEF Flag
  <2>2. QED
    BY <1>1, <1>2, <1>3, <2>1, InputHandles, OutputHandles, ErrorHandles
<1> DEFINE left == IF client'[c].there THEN batch[c] \ {flag} ELSE {}
<1>5. /\ batch' = [batch EXCEPT ![c] = left]
      /\ cur' = IF left = {} THEN None ELSE c
      /\ UNCHANGED <<backlog, sweepDue, pc>>
  BY <1>2 DEF EndTurn
<1>6. left \in SUBSET Flag /\ "IN" \notin left /\ (left # {} => client'[c].there)
  BY <1>1, <1>2 DEF Rest, Turn, Flag
<1> HIDE DEF left
<1>7. /\ batch' \in [Fd \cup {Listen} -> SUBSET Flag] /\ batch'[c] = left
      /\ \A d \in Fd \ {c} : batch'[d] = batch[d]
  BY <1>1, <1>5, <1>6 DEF Rest
<1>8. sock' \in [Fd -> SocketType]
  <2>1. sock \in [Fd -> SocketType]
    BY <1>1 DEF Rest
  <2>2. \A x \in BOOLEAN : /\ [sock EXCEPT ![c].data = x] \in [Fd -> SocketType]
                           /\ [sock EXCEPT ![c].room = x] \in [Fd -> SocketType]
    BY <2>1 DEF SocketType
  <2>3. CASE handleClientInput(c)
    <3>1. [sock EXCEPT ![c].data = FALSE] \in [Fd -> SocketType]
      BY <2>2
    <3>2. QED
      BY <2>3, <3>1, ClosedType DEF handleClientInput
  <2>4. CASE handleClientOutput(c)
    <3>1. CASE UNCHANGED sock
      BY <2>1, <3>1
    <3>2. ASSUME NEW room \in {TRUE, "stall" \notin Faults},
                 sock' = Closed([sock EXCEPT ![c].room = room])
          PROVE  sock' \in [Fd -> SocketType]
      <4>1. [sock EXCEPT ![c].room = room] \in [Fd -> SocketType]
        BY <2>2
      <4>2. QED
        BY <3>2, <4>1, ClosedType
    <3>3. QED
      BY <2>4, <3>1, <3>2 DEF handleClientOutput
  <2>5. CASE ConnectionError(c)
    BY <2>1, <2>5, ClosedType DEF ConnectionError
  <2>6. QED
    BY <2>3, <2>4, <2>5
<1>9. Rest'
  BY <1>1, <1>5, <1>7, <1>8 DEF Rest
<1>10. BatchOK'
  BY <1>1, <1>4, <1>6, <1>7 DEF BatchOK, Handles, SameLife
<1>11. MaskOK' /\ Quiet'
  BY <1>3, <1>5 DEF MaskOK, Quiet
<1>12. AllMove
  BY <1>4 DEF AllMove, Handles, LifeStep, SameLife
<1>13. QED
  BY <1>4, <1>9, <1>10, <1>11, <1>12, PartsPrime DEF Handles, ClientInv

(* A batch taken: only flags of clients that are there, and no IN of one   *)
(* that is leaving.                                                        *)
LEMMA WaitStep ==
  ASSUME IInv, epoll_wait
  PROVE  IInv' /\ AllMove
<1>1. Rest /\ ClientInv /\ MaskOK
  BY Parts
<1>2. pc = "wait" /\ pc' = "batch" /\ UNCHANGED <<backlog, sock, client, sweepDue, cur>>
  BY DEF epoll_wait
<1>3. PICK R : batch' = [d \in DOMAIN batch |-> IF d \in R THEN Events[d] ELSE {}]
  BY DEF epoll_wait
<1>4. DOMAIN batch = Fd \cup {Listen}
  BY <1>1 DEF Rest
<1>5. \A d \in Fd : Events[d] = {flag \in Flag : client[d].there /\ Ready(d, flag)}
  BY LoopAssumption DEF Events
<1>6. Events[Listen] \in SUBSET Flag
  BY DEF Events, Flag
<1>7. batch' \in [Fd \cup {Listen} -> SUBSET Flag]
  BY <1>3, <1>4, <1>5, <1>6
<1>8. ASSUME NEW d \in Fd
      PROVE  /\ batch'[d] # {} => client'[d].there
             /\ client'[d].closing # "no" => "IN" \notin batch'[d]
  <2>1. batch'[d] \subseteq Events[d]
    BY <1>3, <1>4
  <2>2. "IN" \in Events[d] => "IN" \in client[d].mask
    BY <1>5, ZenonT(30) DEF Ready
  <2>3. QED
    BY <1>1, <1>2, <1>5, <2>1, <2>2 DEF MaskOK
<1>9. Rest' /\ BatchOK' /\ MaskOK' /\ Quiet'
  BY <1>1, <1>2, <1>7, <1>8 DEF Rest, BatchOK, MaskOK, Quiet
<1>10. QED
  BY <1>1, <1>2, <1>9, NoneMoves, PartsPrime DEF ClientInv

LEMMA AcceptStep ==
  ASSUME IInv, acceptClient
  PROVE  IInv' /\ AllMove
<1>1. Rest /\ ClientInv /\ BatchOK
  BY Parts
<1>2. /\ pc = "batch" /\ backlog' = FALSE /\ batch' = [batch EXCEPT ![Listen] = {}]
      /\ UNCHANGED <<sock, sweepDue, pc, cur>>
  BY DEF acceptClient
<1>3. SoundMap(client') /\ AllMove /\ \A d \in Fd :
        \/ client'[d] = client[d]
        \/ client'[d].there /\ client'[d].closing = "no"
  <2>1. CASE UNCHANGED client
    BY <1>1, <2>1, NoneMoves DEF ClientInv
  <2>2. ASSUME NEW c \in Fd \ Clients, client' = [client EXCEPT ![c] = NewClient]
        PROVE  SoundMap(client') /\ AllMove /\ \A d \in Fd :
                 \/ client'[d] = client[d]
                 \/ client'[d].there /\ client'[d].closing = "no"
    <3>1. client'[c] = NewClient /\ ~client[c].there
      BY <1>1, <2>2 DEF Clients, ClientInv, SoundMap
    <3>2. \A d \in Fd \ {c} : client'[d] = client[d]
      BY <1>1, <2>2 DEF ClientInv, SoundMap
    <3>3. SoundMap(client')
      BY <1>1, <2>2, RecordFacts DEF ClientInv, SoundMap
    <3>4. AllMove
      BY <3>1, <3>2, RecordFacts DEF AllMove, LifeStep
    <3>5. QED
      BY <3>1, <3>2, <3>3, <3>4, RecordFacts
  <2>3. QED
    BY <2>1, <2>2 DEF acceptClient
<1>4. /\ batch' \in [Fd \cup {Listen} -> SUBSET Flag]
      /\ \A d \in Fd : batch'[d] = batch[d]
  BY <1>1, <1>2, LoopAssumption DEF Rest
<1>5. backlog' \in BOOLEAN
  BY <1>2
<1>6. Rest'
  BY <1>1, <1>2, <1>4, <1>5 DEF Rest
<1>7. BatchOK' /\ MaskOK' /\ Quiet'
  <2>1. BatchOK'
    <3>1. SUFFICES ASSUME NEW d \in Fd
                   PROVE  /\ batch[d] # {} => client'[d].there
                          /\ client'[d].closing # "no" => "IN" \notin batch[d]
      BY <1>4 DEF BatchOK
    <3>2. CASE client'[d] = client[d]
      BY <1>1, <3>2 DEF BatchOK
    <3>3. CASE client'[d].there /\ client'[d].closing = "no"
      BY <3>3
    <3>4. QED
      BY <1>3, <3>2, <3>3
  <2>2. QED
    BY <1>2, <2>1 DEF MaskOK, Quiet
<1>8. QED
  BY <1>3, <1>6, <1>7, PartsPrime DEF ClientInv

(* From the end of the batch to the next epoll_wait.                       *)
LEMMA PassStep ==
  ASSUME IInv, \/ EndOfBatch \/ checkTimeouts \/ checkPendingCloseTimeouts
               \/ onTick \/ updateEpollInterest
  PROVE  IInv' /\ AllMove
<1>1. Rest /\ ClientInv /\ Quiet
  BY Parts
<1>2. Sweeps
  <2>1. CASE EndOfBatch
    BY <1>1, <2>1, NoneMoves DEF EndOfBatch, Sweeps, AllMove, ClientInv
  <2>2. QED
    BY <1>1, <2>1, TimeoutsSweep, ExpirySweep, TickSweep, InterestSweep
<1>3. UNCHANGED <<backlog, batch, cur>>
  BY DEF EndOfBatch, checkTimeouts, checkPendingCloseTimeouts, onTick, updateEpollInterest
<1>4. /\ pc' \in {"wait", "sweep", "expire", "tick", "interest"}
      /\ \A d \in Fd \cup {Listen} : batch[d] = {}
  BY <1>1 DEF EndOfBatch, checkTimeouts, checkPendingCloseTimeouts, onTick,
     updateEpollInterest, Quiet, Rest
<1>5. sock' \in [Fd -> SocketType]
  <2>1. sock \in [Fd -> SocketType]
    BY <1>1 DEF Rest
  <2>2. sock' = sock \/ sock' = Closed(sock)
    BY DEF EndOfBatch, checkTimeouts, checkPendingCloseTimeouts, onTick, updateEpollInterest
  <2>3. QED
    BY <2>1, <2>2, ClosedType
<1>6. sweepDue' = sweepDue \/ sweepDue' = FALSE
  BY DEF EndOfBatch, checkTimeouts, checkPendingCloseTimeouts, onTick, updateEpollInterest
<1>7. sweepDue' \in BOOLEAN
  <2>1. sweepDue \in BOOLEAN
    BY <1>1 DEF Rest
  <2>2. QED
    BY <1>6, <2>1, Zenon
<1>8. Rest'
  BY <1>1, <1>3, <1>4, <1>5, <1>7 DEF Rest
<1>9. MaskOK'
  <2>1. CASE updateEpollInterest
    BY <1>1, <2>1, InterestSweep DEF MaskOK
  <2>2. CASE ~updateEpollInterest
    <3>1. pc' # "wait"
      BY <2>2 DEF EndOfBatch, checkTimeouts, checkPendingCloseTimeouts, onTick
    <3>2. QED
      BY <3>1 DEF MaskOK
  <2>3. QED
    BY <2>1, <2>2
<1>10. BatchOK' /\ Quiet'
  BY <1>3, <1>4 DEF BatchOK, Quiet
<1>11. QED
  BY <1>2, <1>8, <1>9, <1>10, PartsPrime DEF Sweeps, AllMove, ClientInv

(* Peers and clocks.                                                       *)
PeerAct(c) == PeerSends(c) \/ PeerReads(c) \/ PeerCloses(c) \/ PeerResets(c)

LEMMA PeerStep ==
  ASSUME IInv, \/ PeerConnects \/ ThirtySecondsPass \/ \E c \in Fd : PeerAct(c)
  PROVE  IInv' /\ AllMove
<1>1. Rest /\ ClientInv /\ BatchOK /\ MaskOK /\ Quiet
  BY Parts
<1>2. UNCHANGED <<client, pc, batch, cur>>
  BY DEF PeerConnects, ThirtySecondsPass, PeerAct, PeerSends, PeerReads, PeerCloses,
     PeerResets, Environment
<1>3. backlog' = backlog \/ backlog' = TRUE
  BY DEF PeerConnects, ThirtySecondsPass, PeerAct, PeerSends, PeerReads, PeerCloses,
     PeerResets, Environment
<1>4. sweepDue' = sweepDue \/ sweepDue' = TRUE
  BY DEF PeerConnects, ThirtySecondsPass, PeerAct, PeerSends, PeerReads, PeerCloses,
     PeerResets, Environment
<1>5. backlog' \in BOOLEAN /\ sweepDue' \in BOOLEAN
  <2>1. backlog \in BOOLEAN /\ sweepDue \in BOOLEAN
    BY <1>1 DEF Rest
  <2>2. QED
    BY <1>3, <1>4, <2>1, Zenon
<1>6. sock' \in [Fd -> SocketType]
  <2>1. sock \in [Fd -> SocketType]
    BY <1>1 DEF Rest
  <2>2. CASE PeerConnects \/ ThirtySecondsPass
    BY <2>1, <2>2 DEF PeerConnects, ThirtySecondsPass, Environment
  <2>3. ASSUME NEW c \in Fd, PeerAct(c)
        PROVE  sock' \in [Fd -> SocketType]
    <3>1. CASE PeerSends(c)
      BY <2>1, <3>1 DEF PeerSends, Environment, SocketType
    <3>2. CASE PeerReads(c)
      BY <2>1, <3>2 DEF PeerReads, Environment, SocketType
    <3>3. CASE PeerCloses(c)
      BY <2>1, <3>3 DEF PeerCloses, Environment, SocketType
    <3>4. CASE PeerResets(c)
      <4> DEFINE q == [sock[c] EXCEPT !.err = TRUE, !.data = FALSE]
      <4>1. q \in SocketType
        BY <2>1 DEF SocketType
      <4>2. sock' = [sock EXCEPT ![c] = q]
        BY <2>1, <3>4 DEF PeerResets, Environment
      <4>3. QED
        BY <2>1, <4>1, <4>2
    <3>5. QED
      BY <2>3, <3>1, <3>2, <3>3, <3>4 DEF PeerAct
  <2>4. QED
    BY <2>2, <2>3
<1>7. Rest'
  BY <1>1, <1>2, <1>5, <1>6 DEF Rest
<1>8. ClientInv' /\ BatchOK' /\ MaskOK' /\ Quiet'
  BY <1>1, <1>2 DEF ClientInv, BatchOK, MaskOK, Quiet
<1>9. QED
  BY <1>2, <1>7, <1>8, NoneMoves, PartsPrime

LEMMA ClockStep ==
  ASSUME IInv, NEW c \in Fd, CloseDeadlinePasses(c) \/ SilenceLasts(c)
  PROVE  IInv' /\ AllMove
<1>1. Rest /\ ClientInv /\ BatchOK /\ MaskOK /\ Quiet
  BY Parts
<1>2. UNCHANGED <<backlog, sock, sweepDue, pc, batch, cur>>
  BY DEF CloseDeadlinePasses, SilenceLasts
<1> DEFINE r == client[c]
<1>3. r \in ClientType /\ Sound(r)
  BY <1>1 DEF ClientInv, SoundMap
<1>4. PICK q : /\ client' = [client EXCEPT ![c] = q]
               /\ q \in ClientType /\ q.there = r.there /\ q.out = r.out /\ q.mask = r.mask
               /\ q.closing # "no" <=> r.closing # "no"
  <2>1. CASE CloseDeadlinePasses(c)
    <3> DEFINE p == [r EXCEPT !.closing = "due"]
    <3>1. /\ client' = [client EXCEPT ![c] = p] /\ p.closing = "due" /\ r.closing = "fresh"
          /\ p \in ClientType /\ p.there = r.there /\ p.out = r.out /\ p.mask = r.mask
      BY <1>3, <2>1 DEF CloseDeadlinePasses, ClientType
    <3>2. QED
      BY <3>1
  <2>2. CASE SilenceLasts(c)
    <3> DEFINE i == IF r.idle = "fresh" THEN "idle" ELSE "dead"
               p == [r EXCEPT !.idle = i]
    <3>1. client' = [client EXCEPT ![c] = p]
      BY <2>2 DEF SilenceLasts
    <3>2. /\ p \in ClientType /\ p.there = r.there /\ p.out = r.out /\ p.mask = r.mask
          /\ p.closing = r.closing
      BY <1>3 DEF ClientType
    <3>3. QED
      BY <3>1, <3>2
  <2>3. QED
    BY <2>1, <2>2
<1>5. client'[c] = q /\ \A d \in Fd \ {c} : client'[d] = client[d]
  BY <1>1, <1>4 DEF ClientInv, SoundMap
<1>6. Sound(q) /\ LifeStep(r, q)
  BY <1>3, <1>4 DEF Sound, LifeStep
<1>7. ClientInv'
  BY <1>1, <1>4, <1>5, <1>6 DEF ClientInv, SoundMap
<1>8. BatchOK' /\ MaskOK'
  BY <1>1, <1>2, <1>4, <1>5 DEF BatchOK, MaskOK
<1>9. Rest' /\ Quiet'
  BY <1>1, <1>2 DEF Rest, Quiet
<1>10. AllMove
  BY <1>5, <1>6 DEF AllMove, LifeStep
<1>11. QED
  BY <1>7, <1>8, <1>9, <1>10, PartsPrime

LEMMA StopStep ==
  ASSUME IInv, Stop
  PROVE  IInv' /\ AllMove
<1>1. Rest
  BY Parts
<1>2. /\ client' = [d \in Fd |-> NoClient] /\ sock' = Closed(sock)
      /\ batch' = [d \in Fd \cup {Listen} |-> {}] /\ pc' = "stopped"
      /\ UNCHANGED <<backlog, sweepDue, cur>>
  BY DEF Stop
<1>3. \A d \in Fd : client'[d] = NoClient /\ ~client'[d].there /\ client'[d].closing = "no"
  BY <1>2, RecordFacts
<1>4. ClientInv' /\ AllMove
  BY <1>2, <1>3, RecordFacts DEF ClientInv, SoundMap, AllMove, LifeStep
<1>5. sock' \in [Fd -> SocketType]
  BY <1>1, <1>2, ClosedType DEF Rest
<1>6. batch' \in [Fd \cup {Listen} -> SUBSET Flag]
  BY <1>2
<1>7. Rest'
  BY <1>1, <1>2, <1>5, <1>6 DEF Rest
<1>8. BatchOK' /\ MaskOK' /\ Quiet'
  BY <1>2, <1>3 DEF BatchOK, MaskOK, Quiet
<1>9. QED
  BY <1>4, <1>7, <1>8, PartsPrime

LEMMA NextIInv == IInv /\ [Next]_vars => IInv' /\ AllMove
<1> SUFFICES ASSUME IInv, [Next]_vars
             PROVE  IInv' /\ AllMove
  OBVIOUS
<1>1. CASE Loop
  BY <1>1, WaitStep, AcceptStep, EventStep, PassStep DEF Loop
<1>2. CASE PeerConnects \/ ThirtySecondsPass \/ \E c \in Fd : PeerAct(c)
  BY <1>2, PeerStep
<1>3. ASSUME NEW c \in Fd, CloseDeadlinePasses(c) \/ SilenceLasts(c)
      PROVE  IInv' /\ AllMove
  BY <1>3, ClockStep
<1>4. CASE Stopped \/ UNCHANGED vars
  <2>1. UNCHANGED <<backlog, sock, client, sweepDue, pc, batch, cur>>
    BY <1>4 DEF vars, Stopped
  <2>2. Rest' /\ ClientInv' /\ BatchOK' /\ MaskOK' /\ Quiet'
    BY <2>1, Parts DEF Rest, ClientInv, BatchOK, MaskOK, Quiet
  <2>3. QED
    BY <2>1, <2>2, NoneMoves, PartsPrime
<1>5. CASE Stop
  BY <1>5, StopStep
<1>6. QED
  BY <1>1, <1>2, <1>3, <1>4, <1>5 DEF Next, PeerAct

LEMMA InitIInv == Init => IInv
<1> SUFFICES ASSUME Init PROVE IInv
  OBVIOUS
<1>1. Rest
  BY FreshSocketType DEF Init, Rest, Flag
<1>2. ClientInv /\ BatchOK /\ MaskOK /\ Quiet
  BY RecordFacts DEF Init, ClientInv, SoundMap, BatchOK, MaskOK, Quiet
<1>3. QED
  BY <1>1, <1>2, Parts

-----------------------------------------------------------------------------
(* The inductive invariant holds of every reachable state.                 *)
THEOREM Invariance == Spec => []IInv
<1>1. IInv /\ [Next]_vars => IInv'
  BY NextIInv
<1>2. QED
  BY InitIInv, <1>1, PTL DEF Spec

(* No handler closes a descriptor of which an event still waits in the     *)
(* batch, so no connection gets an event of its predecessor (Server::run). *)
THEOREM NoStaleEvent == Spec => []EventsAreCurrent
<1>1. IInv => EventsAreCurrent
  BY DEF IInv
<1>2. QED
  BY <1>1, Invariance, PTL

(* A client torn down is not read again (handleClientInput,                *)
(* updateEpollInterest).                                                   *)
THEOREM NoInputAfterTeardown == Spec => []LeavingIsNotRead
<1>1. IInv => LeavingIsNotRead
  BY DEF IInv
<1>2. QED
  BY <1>1, Invariance, PTL

(* A deferred close has something left to send (disconnectClient,          *)
(* handleClientOutput).                                                    *)
THEOREM DeferredCloseHasOutput == Spec => []DeferredHasOutput
<1>1. IInv => DeferredHasOutput
  BY DEF IInv
<1>2. QED
  BY <1>1, Invariance, PTL

(* The server never blocks with output it does not wait to write           *)
(* (updateEpollInterest at the end of every pass).                         *)
THEOREM NoLostWakeups == Spec => []NoLostWakeup
<1>1. IInv => NoLostWakeup
  BY DEF IInv
<1>2. QED
  BY <1>1, Invariance, PTL

(* The event loop implements the safety part of Sessions: every step of    *)
(* every session is one that Sessions allows.                              *)
THEOREM LoopImplementsSessions == Spec => SessionsAreSafe
<1>1. Init => Life!Init
  BY RecordFacts DEF Init, Life!Init, state
<1>2. IInv /\ [Next]_vars => [Life!Next]_state
  <2> SUFFICES ASSUME IInv, [Next]_vars
               PROVE  Life!Next
    OBVIOUS
  <2>1. AllMove
    BY NextIInv
  <2>2. state' \in [Fd -> {"free", "open", "leaving"}]
    BY DEF state
  <2>3. ASSUME NEW c \in Fd
        PROVE  state'[c] = state[c] \/ <<state[c], state'[c]>> \in Life!Move
    BY <2>1 DEF AllMove, LifeStep, state, Life!Move
  <2>4. QED
    BY <2>2, <2>3 DEF Life!Next
<1>3. QED
  BY <1>1, <1>2, Invariance, PTL DEF Spec, SessionsAreSafe, Life!SafeSpec
===============================================================================
