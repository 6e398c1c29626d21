------------------------ MODULE ProgramMatcher_proofs ------------------------
(***************************************************************************)
(* The lockstep machine decides what its program accepts, for every        *)
(* program, every line and every sequence of lines before it.              *)
(*                                                                         *)
(* Four parts.  Reachable is the least set of runs that has the first one  *)
(* and is closed under Moves.  addThreads enters the least set of          *)
(* instructions that has the ones it is called for and is closed under     *)
(* Follows, and its turns end.  So the threads of the machine are          *)
(* at the instructions that wait and can be reached at its position, an    *)
(* invariant that each turn carries from one octet to the next.  Last, the *)
(* same for runs that carry their slots: the captures reported are those   *)
(* of one accepting run.                                                   *)
(***************************************************************************)
EXTENDS ProgramMatcher, Induction_proofs, FiniteSetTheorems

-----------------------------------------------------------------------------
(* What the instructions lead to.                                          *)

LEMMA FollowsType ==
  ASSUME NEW code, WellFormed(code), NEW pc \in DOMAIN code
  PROVE  /\ Follows(code, pc) \in Seq(DOMAIN code)
         /\ Len(Follows(code, pc)) <= 2
<1>1. \A k \in DOMAIN Follows(code, pc) : Follows(code, pc)[k] \in DOMAIN code
  BY DEF WellFormed
<1>2. CASE code[pc].op = "Jump"
  <2>1. Follows(code, pc) = <<code[pc].x>>
    BY <1>2 DEF Follows
  <2>2. code[pc].x \in DOMAIN code
    BY <1>1, <2>1
  <2>3. QED
    BY <2>1, <2>2
<1>3. CASE code[pc].op = "Split"
  <2>1. Follows(code, pc) = <<code[pc].x, code[pc].y>>
    BY <1>3 DEF Follows
  <2>2. code[pc].x \in DOMAIN code /\ code[pc].y \in DOMAIN code
    BY <1>1, <2>1
  <2>3. QED
    BY <2>1, <2>2
<1>4. CASE code[pc].op = "Save"
  <2>1. Follows(code, pc) = <<pc + 1>>
    BY <1>4 DEF Follows
  <2>2. pc + 1 \in DOMAIN code
    BY <1>1, <2>1
  <2>3. QED
    BY <2>1, <2>2
<1>5. CASE code[pc].op \notin {"Jump", "Split", "Save"}
  <2>1. Follows(code, pc) = <<>>
    BY <1>5 DEF Follows
  <2>2. QED
    BY <2>1
<1>6. QED
  BY <1>2, <1>3, <1>4, <1>5

LEMMA CodeType ==
  ASSUME NEW code, WellFormed(code)
  PROVE  /\ Len(code) \in Nat \ {0}
         /\ DOMAIN code = 1 .. Len(code)
         /\ IsFiniteSet(DOMAIN code)
         /\ Cardinality(DOMAIN code) = Len(code)
         /\ 1 \in DOMAIN code
<1>1. code \in Seq({code[pc] : pc \in DOMAIN code}) /\ code # <<>>
  BY DEF WellFormed
<1>2. Len(code) \in Nat /\ DOMAIN code = 1 .. Len(code) /\ Len(code) # 0
  BY <1>1, EmptySeq, LenProperties
<1>3. IsFiniteSet(1 .. Len(code)) /\ Cardinality(1 .. Len(code)) = Len(code)
  BY <1>2, FS_Interval
<1>4. QED
  BY <1>2, <1>3

LEMMA MovesType ==
  ASSUME NEW code, WellFormed(code), NEW l, Len(l) \in Nat, NEW c \in Runs(code, l)
  PROVE  Moves(code, l, c) \subseteq Runs(code, l)
<1>1. c[1] \in DOMAIN code /\ c[2] \in 0 .. Len(l)
  BY DEF Runs
<1> DEFINE here == {<<Follows(code, c[1])[k], c[2]>> : k \in DOMAIN Follows(code, c[1])}
<1>2. here \subseteq Runs(code, l)
  <2>1. \A k \in DOMAIN Follows(code, c[1]) : Follows(code, c[1])[k] \in DOMAIN code
    BY <1>1 DEF WellFormed
  <2>2. QED
    BY <1>1, <2>1 DEF Runs
<1>3. ASSUME c[2] < Len(l), Consumes(code, c[1], l[c[2] + 1])
      PROVE  <<c[1] + 1, c[2] + 1>> \in Runs(code, l)
  <2>1. c[1] + 1 \in DOMAIN code
    BY <1>1, <1>3 DEF Consumes, WellFormed
  <2>2. c[2] + 1 \in 0 .. Len(l)
    BY <1>1, <1>3
  <2>3. QED
    BY <2>1, <2>2 DEF Runs
<1>4. Moves(code, l, c) =
        here \cup (IF c[2] < Len(l) /\ Consumes(code, c[1], l[c[2] + 1])
                   THEN {<<c[1] + 1, c[2] + 1>>} ELSE {})
  BY DEF Moves
<1> HIDE DEF here
<1>5. QED
  BY <1>2, <1>3, <1>4

-----------------------------------------------------------------------------
(* Reachable is a least closed set.                                        *)

(* T has what S and F have, and the moves of what is new in it.            *)
Holds(code, l, S, F, T) ==
    S \subseteq T /\ F \subseteq T /\ \A c \in T \ S : Moves(code, l, c) \subseteq T

Least(code, l, S, F) ==
    {c \in Runs(code, l) : \A T \in SUBSET Runs(code, l) : Holds(code, l, S, F, T) => c \in T}

Onward(code, l, S, F) == UNION {Moves(code, l, c) : c \in F \ S}

LEMMA LeastDone ==
  ASSUME NEW code, NEW l, NEW S \in SUBSET Runs(code, l), NEW F \in SUBSET S
  PROVE  Least(code, l, S, F) = S
<1>1. Holds(code, l, S, F, S)
  BY DEF Holds
<1>2. \A T : Holds(code, l, S, F, T) => S \subseteq T
  BY DEF Holds
<1>3. QED
  BY <1>1, <1>2 DEF Least

LEMMA LeastOnward ==
  ASSUME NEW code, NEW l, NEW S, NEW F
  PROVE  Least(code, l, S, F) = Least(code, l, S \cup F, Onward(code, l, S, F))
<1>1. ASSUME NEW T
      PROVE  Holds(code, l, S, F, T) <=> Holds(code, l, S \cup F, Onward(code, l, S, F), T)
  <2>1. ASSUME Holds(code, l, S, F, T)
        PROVE  Holds(code, l, S \cup F, Onward(code, l, S, F), T)
    BY <2>1 DEF Holds, Onward
  <2>2. ASSUME Holds(code, l, S \cup F, Onward(code, l, S, F), T)
        PROVE  Holds(code, l, S, F, T)
    <3>1. S \subseteq T /\ F \subseteq T
      BY <2>2 DEF Holds
    <3>2. ASSUME NEW c \in T \ S
          PROVE  Moves(code, l, c) \subseteq T
      <4>1. CASE c \in F
        BY <2>2, <3>2, <4>1 DEF Holds, Onward
      <4>2. CASE c \notin F
        BY <2>2, <3>2, <4>2 DEF Holds
      <4>3. QED
        BY <4>1, <4>2
    <3>3. QED
      BY <3>1, <3>2 DEF Holds
  <2>3. QED
    BY <2>1, <2>2
<1>2. QED
  BY <1>1 DEF Least

LEMMA OnwardType ==
  ASSUME NEW code, WellFormed(code), NEW l, Len(l) \in Nat, NEW S, NEW F \in SUBSET Runs(code, l)
  PROVE  Onward(code, l, S, F) \in SUBSET Runs(code, l)
BY MovesType DEF Onward

LEMMA RunsFinite ==
  ASSUME NEW code, WellFormed(code), NEW l, Len(l) \in Nat
  PROVE  IsFiniteSet(Runs(code, l))
<1>1. IsFiniteSet(DOMAIN code) /\ IsFiniteSet(0 .. Len(l))
  BY CodeType, FS_Interval
<1>2. QED
  BY <1>1, FS_Product DEF Runs

LEMMA FewerLeft ==
  ASSUME NEW R, IsFiniteSet(R), NEW X \in SUBSET R, NEW Y \in SUBSET R, ~(Y \subseteq X)
  PROVE  Cardinality(R \ (X \cup Y)) < Cardinality(R \ X)
<1> DEFINE A == R \ (X \cup Y)
           B == R \ X
<1>1. IsFiniteSet(B)
  BY FS_Subset
<1>2. A \in SUBSET B /\ B # A
  OBVIOUS
<1> HIDE DEF A, B
<1>3. IsFiniteSet(A) /\ Cardinality(A) <= Cardinality(B) /\ Cardinality(A) # Cardinality(B)
  BY <1>1, <1>2, FS_Subset
<1>4. Cardinality(A) \in Nat /\ Cardinality(B) \in Nat
  BY <1>1, <1>3, FS_CardinalityType
<1>5. Cardinality(A) < Cardinality(B)
  BY <1>3, <1>4
<1>6. QED
  BY <1>5 DEF A, B

LEMMA NoneLeft ==
  ASSUME NEW R, IsFiniteSet(R), NEW X, Cardinality(R \ X) <= 0
  PROVE  R \subseteq X
<1> DEFINE B == R \ X
<1>1. IsFiniteSet(B)
  BY FS_Subset
<1>2. Cardinality(B) <= 0
  OBVIOUS
<1> HIDE DEF B
<1>3. Cardinality(B) \in Nat
  BY <1>1, FS_CardinalityType
<1>4. Cardinality(B) = 0
  BY <1>2, <1>3
<1>5. B = {}
  BY <1>1, <1>4, FS_EmptySet
<1>6. QED
  BY <1>5 DEF B

(* What the equation of Grow says of a function.                           *)
GrowsBy(code, l, g) ==
    g = [w \in (SUBSET Runs(code, l)) \X (SUBSET Runs(code, l)) |->
            IF w[2] \subseteq w[1] THEN w[1]
            ELSE g[<<w[1] \cup w[2], UNION {Moves(code, l, c) : c \in w[2] \ w[1]}>>]]

LEMMA GrowExists ==
  ASSUME NEW code, WellFormed(code), NEW l, Len(l) \in Nat
  PROVE  \E g : GrowsBy(code, l, g)
<1> DEFINE P == (SUBSET Runs(code, l)) \X (SUBSET Runs(code, l))
           g == [w \in P |-> Least(code, l, w[1], w[2])]
<1>1. ASSUME NEW w \in P
      PROVE  g[w] = IF w[2] \subseteq w[1] THEN w[1]
                    ELSE g[<<w[1] \cup w[2], UNION {Moves(code, l, c) : c \in w[2] \ w[1]}>>]
  <2>1. w[1] \in SUBSET Runs(code, l) /\ w[2] \in SUBSET Runs(code, l)
    OBVIOUS
  <2>2. CASE w[2] \subseteq w[1]
    BY <2>1, <2>2, LeastDone
  <2>3. CASE ~(w[2] \subseteq w[1])
    <3> DEFINE v == <<w[1] \cup w[2], Onward(code, l, w[1], w[2])>>
    <3>1. v \in P
      BY <2>1, OnwardType
    <3>2. g[v] = Least(code, l, w[1] \cup w[2], Onward(code, l, w[1], w[2]))
      BY <3>1
    <3>3. g[v] = g[w]
      BY <3>2, LeastOnward
    <3>4. QED
      BY <2>3, <3>3 DEF Onward
  <2>4. QED
    BY <2>2, <2>3
<1>2. g = [w \in P |->
            IF w[2] \subseteq w[1] THEN w[1]
            ELSE g[<<w[1] \cup w[2], UNION {Moves(code, l, c) : c \in w[2] \ w[1]}>>]]
  BY <1>1
<1>3. QED
  BY <1>2 DEF GrowsBy

LEMMA GrowIsLeast ==
  ASSUME NEW code, WellFormed(code), NEW l, Len(l) \in Nat, NEW g, GrowsBy(code, l, g),
         NEW S \in SUBSET Runs(code, l), NEW F \in SUBSET Runs(code, l)
  PROVE  g[<<S, F>>] = Least(code, l, S, F)
<1> DEFINE R == Runs(code, l)
           N == {n \in Nat : \A X, Y \in SUBSET R :
                    Cardinality(R \ X) <= n => g[<<X, Y>>] = Least(code, l, X, Y)}
<1>1. ASSUME NEW X \in SUBSET R, NEW Y \in SUBSET R
      PROVE  g[<<X, Y>>] = IF Y \subseteq X THEN X
                           ELSE g[<<X \cup Y, Onward(code, l, X, Y)>>]
  <2>1. <<X, Y>> \in (SUBSET Runs(code, l)) \X (SUBSET Runs(code, l))
    OBVIOUS
  <2>2. QED
    BY <2>1 DEF GrowsBy, Onward
<1>2. IsFiniteSet(R)
  BY RunsFinite
<1>3. \A X \in SUBSET R : IsFiniteSet(R \ X) /\ Cardinality(R \ X) \in Nat
  BY <1>2, FS_Subset, FS_CardinalityType
<1>4. ASSUME NEW X \in SUBSET R, NEW Y \in SUBSET R, Y \subseteq X
      PROVE  g[<<X, Y>>] = Least(code, l, X, Y)
  BY <1>1, <1>4, LeastDone, ZenonT(30)
<1>5. 0 \in N
  <2>1. SUFFICES ASSUME NEW X \in SUBSET R, NEW Y \in SUBSET R, Cardinality(R \ X) <= 0
                 PROVE  Y \subseteq X
    BY <1>4
  <2>2. QED
    BY <1>2, <2>1, NoneLeft
<1>6. ASSUME NEW n \in Nat, n \in N
      PROVE  n + 1 \in N
  <2>1. SUFFICES ASSUME NEW X \in SUBSET R, NEW Y \in SUBSET R, Cardinality(R \ X) <= n + 1,
                        ~(Y \subseteq X)
                 PROVE  g[<<X, Y>>] = Least(code, l, X, Y)
    BY <1>4
  <2>2. Cardinality(R \ (X \cup Y)) <= n
    <3> DEFINE a == Cardinality(R \ (X \cup Y))
               b == Cardinality(R \ X)
    <3>1. a \in Nat /\ b \in Nat /\ b <= n + 1
      BY <1>3, <2>1
    <3>2. a < b
      BY <1>2, <2>1, FewerLeft
    <3> HIDE DEF a, b
    <3>3. a <= n
      BY <3>1, <3>2
    <3>4. QED
      BY <3>3 DEF a
  <2>3. X \cup Y \in SUBSET R /\ Onward(code, l, X, Y) \in SUBSET R
    BY OnwardType
  <2>4. g[<<X \cup Y, Onward(code, l, X, Y)>>] = Least(code, l, X \cup Y, Onward(code, l, X, Y))
    BY <1>6, <2>2, <2>3
  <2>5. QED
    BY <1>1, <2>1, <2>4, LeastOnward
<1>7. R = Runs(code, l)
  OBVIOUS
<1> HIDE DEF N, R
<1>8. Nat \subseteq N
  BY <1>5, <1>6, Induction
<1> DEFINE k == Cardinality(R \ S)
<1>9. k \in Nat /\ k \in N /\ Cardinality(R \ S) = k
  BY <1>3, <1>7, <1>8
<1> HIDE DEF k
<1>10. k <= k
  BY <1>9
<1>11. QED
  BY <1>7, <1>9, <1>10 DEF N

(* The least set that has the first run and every move of its members.     *)
LEMMA ReachableIsLeast ==
  ASSUME NEW code, WellFormed(code), NEW l, Len(l) \in Nat
  PROVE  /\ Reachable(code, l) \subseteq Runs(code, l)
         /\ <<1, 0>> \in Reachable(code, l)
         /\ \A c \in Reachable(code, l) : Moves(code, l, c) \subseteq Reachable(code, l)
         /\ \A T \in SUBSET Runs(code, l) :
                <<1, 0>> \in T /\ (\A c \in T : Moves(code, l, c) \subseteq T)
                => Reachable(code, l) \subseteq T
<1> DEFINE root == {<<1, 0>>}
<1>1. <<1, 0>> \in Runs(code, l)
  BY CodeType DEF Runs
<1>2. PICK g : GrowsBy(code, l, g) /\ Reachable(code, l) = g[<<{}, root>>]
  <2> DEFINE h == CHOOSE g : GrowsBy(code, l, g)
  <2>1. GrowsBy(code, l, h)
    BY GrowExists
  <2>2. Reachable(code, l) = h[<<{}, root>>]
    BY DEF Reachable, GrowsBy
  <2>3. QED
    BY <2>1, <2>2
<1>3. Reachable(code, l) = Least(code, l, {}, root)
  <2>1. {} \in SUBSET Runs(code, l) /\ root \in SUBSET Runs(code, l)
    BY <1>1
  <2> HIDE DEF root
  <2>2. g[<<{}, root>>] = Least(code, l, {}, root)
    BY <1>2, <2>1, GrowIsLeast
  <2>3. QED
    BY <1>2, <2>2
<1>4. \A T : Holds(code, l, {}, root, T) <=>
                <<1, 0>> \in T /\ (\A c \in T : Moves(code, l, c) \subseteq T)
  BY DEF Holds
<1>5. ASSUME NEW c \in Reachable(code, l)
      PROVE  Moves(code, l, c) \subseteq Reachable(code, l)
  <2>1. c \in Runs(code, l)
    BY <1>3 DEF Least
  <2>2. Moves(code, l, c) \subseteq Runs(code, l)
    BY <2>1, MovesType
  <2>3. QED
    BY <1>3, <1>4, <1>5, <2>2 DEF Least
<1>6. QED
  BY <1>1, <1>3, <1>4, <1>5 DEF Least

-----------------------------------------------------------------------------
(* addThreads enters a least closed set.  A is the set of the slots.       *)

(* A turn, where a walk that has ended stays as it is.                     *)
Turn(code, t, at, stamp) == IF t.todo = <<>> THEN t ELSE Visit(code, t, at, stamp)

(* The calls that the first call still to be made would make itself.       *)
Calls(code, th, at) ==
    [k \in DOMAIN Follows(code, th.pc) |->
        [pc |-> Follows(code, th.pc)[k],
         slots |-> IF code[th.pc].op = "Save" THEN cloneSlots(th.slots, code[th.pc].x, at)
                   ELSE th.slots]]

Skips(t, stamp) == Head(t.todo).pc = Dead \/ t.seen[Head(t.todo).pc] = stamp

(* Turn, case by case.                                                     *)
LEMMA VisitEnds ==
  ASSUME NEW code, NEW t, NEW at, NEW stamp, t.todo = <<>>
  PROVE  Turn(code, t, at, stamp) = t
BY DEF Turn, Visit

LEMMA VisitSkips ==
  ASSUME NEW code, NEW t, NEW at, NEW stamp, t.todo # <<>>, Skips(t, stamp)
  PROVE  Turn(code, t, at, stamp) = [t EXCEPT !.todo = Tail(t.todo)]
BY DEF Turn, Visit, Skips

LEMMA CallsType ==
  ASSUME NEW code, WellFormed(code), NEW A, NEW th \in Thread(code, A), NEW at \in Int
  PROVE  /\ Calls(code, th, at) \in Seq(Call(code, A))
         /\ Len(Calls(code, th, at)) = Len(Follows(code, th.pc))
         /\ Len(Calls(code, th, at)) \in 0 .. 2
         /\ \A k \in DOMAIN Calls(code, th, at) : Calls(code, th, at)[k].pc = Follows(code, th.pc)[k]
<1> DEFINE f == Follows(code, th.pc)
           slots == IF code[th.pc].op = "Save" THEN cloneSlots(th.slots, code[th.pc].x, at)
                    ELSE th.slots
<1>1. th.pc \in DOMAIN code /\ th.slots \in [A -> Int]
  BY DEF Thread
<1>2. f \in Seq(DOMAIN code) /\ Len(f) <= 2
  BY <1>1, FollowsType
<1>3. slots \in [A -> Int]
  BY <1>1 DEF cloneSlots
<1>4. Calls(code, th, at) = [k \in DOMAIN f |-> [pc |-> f[k], slots |-> slots]]
  BY DEF Calls
<1> HIDE DEF f, slots
<1>5. DOMAIN f = 1 .. Len(f) /\ Len(f) \in Nat
  BY <1>2
<1>6. \A k \in DOMAIN f : [pc |-> f[k], slots |-> slots] \in Call(code, A)
  BY <1>2, <1>3 DEF Call
<1>7. Calls(code, th, at) \in Seq(Call(code, A)) /\ Len(Calls(code, th, at)) = Len(f)
  BY <1>4, <1>5, <1>6
<1>8. ASSUME NEW k \in DOMAIN Calls(code, th, at)
      PROVE  Calls(code, th, at)[k].pc = f[k]
  BY <1>4, <1>8
<1>9. Len(f) \in 0 .. 2
  BY <1>2, <1>5
<1>10. QED
  BY <1>7, <1>8, <1>9 DEF f

LEMMA HeadIsThread ==
  ASSUME NEW code, WellFormed(code), NEW A, NEW t \in Walk(code, A), t.todo # <<>>, NEW stamp,
         ~Skips(t, stamp)
  PROVE  Head(t.todo) \in Thread(code, A)
<1>1. t.todo \in Seq(Call(code, A))
  BY DEF Walk
<1>2. Head(t.todo) \in Call(code, A)
  BY <1>1, HeadTailProperties
<1>3. Head(t.todo).pc # Dead
  BY DEF Skips
<1>4. QED
  BY <1>2, <1>3 DEF Call, Thread

LEMMA VisitType ==
  ASSUME NEW code, WellFormed(code), NEW A, NEW t \in Walk(code, A), NEW at \in Int, NEW stamp \in Nat
  PROVE  Turn(code, t, at, stamp) \in Walk(code, A)
<1>1. t.list \in Seq(Thread(code, A)) /\ t.seen \in [DOMAIN code -> Nat] /\ t.todo \in Seq(Call(code, A))
  BY DEF Walk
<1>2. CASE t.todo = <<>>
  BY <1>2, VisitEnds
<1>3. CASE t.todo # <<>> /\ Skips(t, stamp)
  <2>1. Tail(t.todo) \in Seq(Call(code, A))
    BY <1>1, <1>3, HeadTailProperties
  <2>2. Turn(code, t, at, stamp) = [t EXCEPT !.todo = Tail(t.todo)]
    BY <1>3, VisitSkips
  <2>3. QED
    BY <2>1, <2>2 DEF Walk
<1>4. CASE t.todo # <<>> /\ ~Skips(t, stamp)
  <2> DEFINE th == Head(t.todo)
  <2>1. th \in Thread(code, A)
    BY <1>4, HeadIsThread
  <2>2. Tail(t.todo) \in Seq(Call(code, A))
    BY <1>1, <1>4, HeadTailProperties
  <2>3. Calls(code, th, at) \o Tail(t.todo) \in Seq(Call(code, A))
    BY <2>1, <2>2, CallsType, ConcatProperties
  <2>4. (IF Waits(code, th.pc) THEN Append(t.list, th) ELSE t.list) \in Seq(Thread(code, A))
    BY <1>1, <2>1, AppendProperties
  <2>5. [t.seen EXCEPT ![th.pc] = stamp] \in [DOMAIN code -> Nat]
    BY <1>1
  <2>6. Turn(code, t, at, stamp) =
            [list |-> IF Waits(code, th.pc) THEN Append(t.list, th) ELSE t.list,
             seen |-> [t.seen EXCEPT ![th.pc] = stamp],
             todo |-> Calls(code, th, at) \o Tail(t.todo)]
    BY <1>4 DEF Turn, Visit, Skips, Calls
  <2>7. QED
    BY <2>3, <2>4, <2>5, <2>6 DEF Walk
<1>5. QED
  BY <1>2, <1>3, <1>4

-----------------------------------------------------------------------------
(* What a visit does to the instructions entered, pending and listed.      *)

Pcs(s) == {s[k].pc : k \in DOMAIN s}
Entered(t, stamp) == {pc \in DOMAIN t.seen : t.seen[pc] = stamp}
Pending(t) == Pcs(t.todo) \ {Dead}
Leads(code, pc) == {Follows(code, pc)[k] : k \in DOMAIN Follows(code, pc)}

LEMMA PcsHeadTail ==
  ASSUME NEW S, NEW s \in Seq(S), s # <<>>
  PROVE  Pcs(s) = {Head(s).pc} \cup Pcs(Tail(s))
<1>1. Len(s) \in Nat /\ Len(s) # 0 /\ DOMAIN s = 1 .. Len(s)
  BY EmptySeq, LenProperties
<1>2. Head(s) = s[1] /\ DOMAIN Tail(s) = 1 .. Len(s) - 1
      /\ \A k \in 1 .. Len(s) - 1 : Tail(s)[k] = s[k + 1]
  BY <1>1
<1>3. ASSUME NEW x \in Pcs(s)
      PROVE  x \in {Head(s).pc} \cup Pcs(Tail(s))
  <2>1. PICK k \in DOMAIN s : x = s[k].pc
    BY <1>3 DEF Pcs
  <2>2. CASE k = 1
    BY <1>2, <2>1, <2>2
  <2>3. CASE k # 1
    <3>1. k - 1 \in 1 .. Len(s) - 1 /\ (k - 1) + 1 = k
      BY <1>1, <2>1, <2>3
    <3>2. Tail(s)[k - 1] = s[k] /\ k - 1 \in DOMAIN Tail(s)
      BY <1>2, <3>1
    <3>3. QED
      BY <2>1, <3>2 DEF Pcs
  <2>4. QED
    BY <2>2, <2>3
<1>4. Head(s).pc \in Pcs(s)
  BY <1>1, <1>2 DEF Pcs
<1>5. Pcs(Tail(s)) \subseteq Pcs(s)
  <2>1. \A k \in 1 .. Len(s) - 1 : k + 1 \in DOMAIN s
    BY <1>1
  <2>2. QED
    BY <1>2, <2>1 DEF Pcs
<1>6. QED
  BY <1>3, <1>4, <1>5

LEMMA PcsConcat ==
  ASSUME NEW S, NEW s \in Seq(S), NEW u \in Seq(S)
  PROVE  Pcs(s \o u) = Pcs(s) \cup Pcs(u)
<1>1. /\ Len(s) \in Nat /\ DOMAIN s = 1 .. Len(s)
      /\ Len(u) \in Nat /\ DOMAIN u = 1 .. Len(u)
      /\ DOMAIN (s \o u) = 1 .. Len(s) + Len(u)
      /\ \A k \in 1 .. Len(s) + Len(u) : (s \o u)[k] = IF k <= Len(s) THEN s[k] ELSE u[k - Len(s)]
  BY LenProperties, ConcatProperties
<1>2. ASSUME NEW x \in Pcs(s \o u)
      PROVE  x \in Pcs(s) \cup Pcs(u)
  <2>1. PICK k \in 1 .. Len(s) + Len(u) : x = (s \o u)[k].pc
    BY <1>1, <1>2 DEF Pcs
  <2>2. CASE k <= Len(s)
    <3>1. k \in DOMAIN s /\ x = s[k].pc
      BY <1>1, <2>1, <2>2
    <3>2. QED
      BY <3>1 DEF Pcs
  <2>3. CASE ~(k <= Len(s))
    <3>1. k - Len(s) \in DOMAIN u /\ x = u[k - Len(s)].pc
      BY <1>1, <2>1, <2>3
    <3>2. QED
      BY <3>1 DEF Pcs
  <2>4. QED
    BY <1>1, <2>2, <2>3
<1>3. ASSUME NEW k \in DOMAIN s
      PROVE  s[k].pc \in Pcs(s \o u)
  <2>1. k \in 1 .. Len(s) + Len(u) /\ k <= Len(s)
    BY <1>1
  <2>2. (s \o u)[k] = s[k] /\ k \in DOMAIN (s \o u)
    BY <1>1, <2>1
  <2>3. QED
    BY <2>2 DEF Pcs
<1>4. ASSUME NEW k \in DOMAIN u
      PROVE  u[k].pc \in Pcs(s \o u)
  <2>1. k + Len(s) \in 1 .. Len(s) + Len(u) /\ ~(k + Len(s) <= Len(s)) /\ (k + Len(s)) - Len(s) = k
    BY <1>1
  <2>2. (s \o u)[k + Len(s)] = u[k] /\ k + Len(s) \in DOMAIN (s \o u)
    BY <1>1, <2>1
  <2>3. QED
    BY <2>2 DEF Pcs
<1>5. Pcs(s) \subseteq Pcs(s \o u) /\ Pcs(u) \subseteq Pcs(s \o u)
  BY <1>3, <1>4 DEF Pcs
<1>6. QED
  BY <1>2, <1>5

LEMMA PcsAppend ==
  ASSUME NEW S, NEW s \in Seq(S), NEW e \in S
  PROVE  Pcs(Append(s, e)) = Pcs(s) \cup {e.pc}
<1> DEFINE u == <<e>>
<1>1. Append(s, e) = s \o u
  BY AppendIsConcat
<1>2. u \in Seq(S)
  OBVIOUS
<1>3. Pcs(u) = {e.pc}
  BY DEF Pcs
<1> HIDE DEF u
<1>4. QED
  BY <1>1, <1>2, <1>3, PcsConcat

LEMMA SkipSets ==
  ASSUME NEW code, WellFormed(code), NEW A, NEW t \in Walk(code, A), NEW at, NEW stamp,
         t.todo # <<>>, Skips(t, stamp), NEW v, v = Turn(code, t, at, stamp)
  PROVE  /\ v.list = t.list
         /\ v.seen = t.seen
         /\ Entered(v, stamp) = Entered(t, stamp)
         /\ Pending(v) \cup Entered(t, stamp) = Pending(t) \cup Entered(t, stamp)
<1>1. t.seen \in [DOMAIN code -> Nat] /\ t.todo \in Seq(Call(code, A)) /\ t = [t EXCEPT !.todo = t.todo]
  BY DEF Walk
<1>2. v = [t EXCEPT !.todo = Tail(t.todo)]
  BY VisitSkips
<1>3. v.list = t.list /\ v.seen = t.seen /\ v.todo = Tail(t.todo)
  BY <1>2 DEF Walk
<1>4. Entered(v, stamp) = Entered(t, stamp)
  BY <1>3 DEF Entered
<1>5. Pcs(t.todo) = {Head(t.todo).pc} \cup Pcs(v.todo)
  BY <1>1, <1>3, PcsHeadTail
<1>6. Head(t.todo).pc = Dead \/ Head(t.todo).pc \in Entered(t, stamp)
  <2>1. Head(t.todo) \in Call(code, A)
    BY <1>1, HeadTailProperties
  <2>2. Head(t.todo).pc \in {Dead} \cup DOMAIN code
    BY <2>1 DEF Call
  <2>3. QED
    BY <1>1, <2>2 DEF Skips, Entered
<1>7. QED
  BY <1>3, <1>4, <1>5, <1>6 DEF Pending

(* A visit from t to v enters pc.                                          *)
Enters(code, A, stamp, t, v, pc) ==
    /\ pc \notin Entered(t, stamp)
    /\ v.list = IF Waits(code, pc) THEN Append(t.list, Head(t.todo)) ELSE t.list
    /\ Head(t.todo).pc = pc
    /\ Head(t.todo) \in Thread(code, A)
    /\ v.seen = [t.seen EXCEPT ![pc] = stamp]
    /\ Entered(v, stamp) = Entered(t, stamp) \cup {pc}
    /\ \E P : Pending(t) = P \cup {pc} /\ Pending(v) = P \cup Leads(code, pc)
    /\ Len(v.todo) <= Len(t.todo) + 1
    /\ Pcs(v.list) = IF Waits(code, pc) THEN Pcs(t.list) \cup {pc} ELSE Pcs(t.list)

LEMMA EnterSets ==
  ASSUME NEW code, WellFormed(code), NEW A, NEW t \in Walk(code, A), NEW at \in Int, NEW stamp \in Nat,
         t.todo # <<>>, ~Skips(t, stamp), NEW v, v = Turn(code, t, at, stamp)
  PROVE  \E pc \in DOMAIN code : Enters(code, A, stamp, t, v, pc)
<1> DEFINE th == Head(t.todo)
           pc == th.pc
           more == Calls(code, th, at)
<1>1. t.seen \in [DOMAIN code -> Nat] /\ t.todo \in Seq(Call(code, A)) /\ t.list \in Seq(Thread(code, A))
  BY DEF Walk
<1>2. th \in Thread(code, A) /\ pc \in DOMAIN code /\ pc # Dead
  <2>1. th \in Thread(code, A)
    BY HeadIsThread
  <2>2. pc \in DOMAIN code
    BY <2>1 DEF Thread
  <2>3. QED
    BY <2>1, <2>2, CodeType DEF Dead
<1> DEFINE rest == Tail(t.todo)
           list == IF Waits(code, pc) THEN Append(t.list, th) ELSE t.list
           marks == [t.seen EXCEPT ![pc] = stamp]
           todo == more \o rest
<1>3. v = [list |-> list, seen |-> marks, todo |-> todo]
  BY DEF Turn, Visit, Skips, Calls
<1>4. v.list = list /\ v.seen = marks /\ v.todo = todo
  <2> HIDE DEF list, marks, todo
  <2>1. QED
    BY <1>3
<1>5. pc \notin Entered(t, stamp)
  BY DEF Skips, Entered
<1>6. Entered(v, stamp) = Entered(t, stamp) \cup {pc}
  BY <1>1, <1>2, <1>4 DEF Entered
<1>7. more \in Seq(Call(code, A)) /\ Len(more) \in 0 .. 2 /\ Pcs(more) = Leads(code, pc)
  <2>1. /\ more \in Seq(Call(code, A))
        /\ Len(more) = Len(Follows(code, pc))
        /\ Len(more) \in 0 .. 2
        /\ \A k \in DOMAIN more : more[k].pc = Follows(code, pc)[k]
    BY <1>2, CallsType
  <2>2. Follows(code, pc) \in Seq(DOMAIN code)
    BY <1>2, FollowsType
  <2> HIDE DEF more
  <2>3. DOMAIN more = DOMAIN Follows(code, pc)
    BY <2>1, <2>2, LenProperties
  <2>4. QED
    BY <2>1, <2>3 DEF Pcs, Leads
<1>8. rest \in Seq(Call(code, A)) /\ Len(rest) = Len(t.todo) - 1 /\ Len(t.todo) \in Nat
  BY <1>1, HeadTailProperties, LenProperties
<1> DEFINE P == Pcs(rest) \ {Dead}
<1>9. Pending(t) = P \cup {pc}
  BY <1>1, <1>2, PcsHeadTail DEF Pending
<1> HIDE DEF more, pc, th, rest
<1>10. Pcs(v.todo) = Leads(code, pc) \cup Pcs(rest)
  BY <1>4, <1>7, <1>8, PcsConcat
<1>11. Dead \notin Leads(code, pc)
  <2>1. Leads(code, pc) \subseteq DOMAIN code
    BY <1>2 DEF WellFormed, Leads
  <2>2. QED
    BY <2>1, CodeType DEF Dead
<1>12. Pending(v) = P \cup Leads(code, pc)
  BY <1>10, <1>11 DEF Pending
<1>13. Len(v.todo) <= Len(t.todo) + 1
  <2>1. Len(v.todo) = Len(more) + Len(rest)
    BY <1>4, <1>7, <1>8, ConcatProperties
  <2> DEFINE a == Len(more)
             b == Len(rest)
             c == Len(t.todo)
  <2>2. a \in 0 .. 2 /\ b = c - 1 /\ c \in Nat
    BY <1>7, <1>8
  <2> HIDE DEF a, b, c
  <2>3. a + b <= c + 1
    BY <2>2
  <2>4. QED
    BY <2>1, <2>3 DEF a, b, c
<1>14. Pcs(v.list) = IF Waits(code, pc) THEN Pcs(t.list) \cup {pc} ELSE Pcs(t.list)
  <2>1. Pcs(Append(t.list, th)) = Pcs(t.list) \cup {pc}
    BY <1>1, <1>2, PcsAppend DEF pc
  <2>2. QED
    BY <1>4, <2>1
<1> HIDE DEF P
<1>15. \E Q : Pending(t) = Q \cup {pc} /\ Pending(v) = Q \cup Leads(code, pc)
  BY <1>9, <1>12
<1>16. QED
  BY <1>2, <1>4, <1>5, <1>6, <1>13, <1>14, <1>15 DEF pc, th, Enters

-----------------------------------------------------------------------------
(* The invariant of the turns: what was called for is entered or pending,  *)
(* and so is what an entered instruction leads to; nothing else is; the    *)
(* entered ones that wait are listed, each once.                           *)

Closed(code, T) == \A pc \in T : Leads(code, pc) \subseteq T

Covers(code, roots, stamp, t) ==
    /\ roots \subseteq Entered(t, stamp) \cup Pending(t)
    /\ \A pc \in Entered(t, stamp) : Leads(code, pc) \subseteq Entered(t, stamp) \cup Pending(t)
    /\ Pcs(t.list) = {pc \in Entered(t, stamp) : Waits(code, pc)}
    /\ \A T \in SUBSET DOMAIN code :
            roots \subseteq T /\ Closed(code, T) => Entered(t, stamp) \cup Pending(t) \subseteq T

Marked(code, marks, stamp, t) == \A pc \in DOMAIN code : t.seen[pc] \in {stamp, marks[pc]}

OnceEach(list) == \A i, j \in DOMAIN list : list[i].pc = list[j].pc => i = j

ListsOnce(stamp, t) == OnceEach(t.list) /\ Pcs(t.list) \subseteq Entered(t, stamp)

(* How many turns may be left.                                             *)
Left(code, stamp, t) == Len(t.todo) + 2 * Cardinality((DOMAIN code) \ Entered(t, stamp))

LEMMA CoversVisit ==
  ASSUME NEW code, WellFormed(code), NEW A, NEW t \in Walk(code, A), NEW at \in Int, NEW stamp \in Nat,
         NEW roots, NEW v, v = Turn(code, t, at, stamp), Covers(code, roots, stamp, t)
  PROVE  Covers(code, roots, stamp, v)
<1> DEFINE E == Entered(t, stamp)
           P == Pending(t)
<1>1. CASE t.todo = <<>>
  BY <1>1, VisitEnds
<1>2. CASE t.todo # <<>> /\ Skips(t, stamp)
  <2>1. v.list = t.list /\ Entered(v, stamp) = E /\ Pending(v) \cup E = P \cup E
    BY <1>2, SkipSets
  <2>2. Entered(v, stamp) \cup Pending(v) = E \cup P
    BY <2>1
  <2> HIDE DEF E, P
  <2>3. QED
    BY <2>1, <2>2 DEF Covers, E, P
<1>3. CASE t.todo # <<>> /\ ~Skips(t, stamp)
  <2>0. PICK pc \in DOMAIN code : Enters(code, A, stamp, t, v, pc)
    BY <1>3, EnterSets
  <2>1. /\ pc \notin E
        /\ Entered(v, stamp) = E \cup {pc}
        /\ \E Q : P = Q \cup {pc} /\ Pending(v) = Q \cup Leads(code, pc)
        /\ Pcs(v.list) = IF Waits(code, pc) THEN Pcs(t.list) \cup {pc} ELSE Pcs(t.list)
    BY <2>0 DEF Enters
  <2>2. PICK Q : P = Q \cup {pc} /\ Pending(v) = Q \cup Leads(code, pc)
    BY <2>1
  <2>3. Entered(v, stamp) \cup Pending(v) = E \cup P \cup Leads(code, pc)
    BY <2>1, <2>2
  <2>4. /\ roots \subseteq E \cup P
        /\ \A q \in E : Leads(code, q) \subseteq E \cup P
        /\ Pcs(t.list) = {q \in E : Waits(code, q)}
        /\ \A T \in SUBSET DOMAIN code :
                roots \subseteq T /\ Closed(code, T) => E \cup P \subseteq T
    BY DEF Covers
  <2> HIDE DEF E, P
  <2>5. roots \subseteq Entered(v, stamp) \cup Pending(v)
    BY <2>3, <2>4
  <2>6. \A q \in Entered(v, stamp) : Leads(code, q) \subseteq Entered(v, stamp) \cup Pending(v)
    BY <2>1, <2>3, <2>4
  <2>7. Pcs(v.list) = {q \in Entered(v, stamp) : Waits(code, q)}
    BY <2>1, <2>4
  <2>8. ASSUME NEW T \in SUBSET DOMAIN code, roots \subseteq T, Closed(code, T)
        PROVE  Entered(v, stamp) \cup Pending(v) \subseteq T
    <3>1. E \cup P \subseteq T /\ pc \in T
      BY <2>2, <2>4, <2>8
    <3>2. Leads(code, pc) \subseteq T
      BY <2>8, <3>1 DEF Closed
    <3>3. QED
      BY <2>3, <3>1, <3>2
  <2>9. QED
    BY <2>5, <2>6, <2>7, <2>8 DEF Covers
<1>4. QED
  BY <1>1, <1>2, <1>3

LEMMA MarkedVisit ==
  ASSUME NEW code, WellFormed(code), NEW A, NEW t \in Walk(code, A), NEW at \in Int, NEW stamp \in Nat,
         NEW marks, NEW v, v = Turn(code, t, at, stamp), Marked(code, marks, stamp, t)
  PROVE  Marked(code, marks, stamp, v)
<1>1. CASE t.todo = <<>>
  BY <1>1, VisitEnds
<1>2. CASE t.todo # <<>> /\ Skips(t, stamp)
  BY <1>2, SkipSets DEF Marked
<1>3. CASE t.todo # <<>> /\ ~Skips(t, stamp)
  <2>0. PICK pc \in DOMAIN code : Enters(code, A, stamp, t, v, pc)
    BY <1>3, EnterSets
  <2>1. v.seen = [t.seen EXCEPT ![pc] = stamp]
    BY <2>0 DEF Enters
  <2>2. t.seen \in [DOMAIN code -> Nat]
    BY DEF Walk
  <2>3. QED
    BY <2>1, <2>2 DEF Marked
<1>4. QED
  BY <1>1, <1>2, <1>3

LEMMA OnceEachAppend ==
  ASSUME NEW S, NEW s \in Seq(S), NEW e \in S, OnceEach(s), e.pc \notin Pcs(s)
  PROVE  OnceEach(Append(s, e))
<1>1. /\ Len(s) \in Nat /\ DOMAIN s = 1 .. Len(s)
      /\ DOMAIN Append(s, e) = 1 .. Len(s) + 1
      /\ Append(s, e)[Len(s) + 1] = e
      /\ \A k \in 1 .. Len(s) : Append(s, e)[k] = s[k]
  BY LenProperties, AppendProperties
<1>2. \A k \in 1 .. Len(s) : s[k].pc # e.pc
  BY <1>1 DEF Pcs
<1>3. \A k \in 1 .. Len(s) + 1 : k \in 1 .. Len(s) \/ k = Len(s) + 1
  BY <1>1
<1>4. QED
  BY <1>1, <1>2, <1>3 DEF OnceEach

LEMMA ListsOnceVisit ==
  ASSUME NEW code, WellFormed(code), NEW A, NEW t \in Walk(code, A), NEW at \in Int, NEW stamp \in Nat,
         NEW v, v = Turn(code, t, at, stamp), ListsOnce(stamp, t)
  PROVE  ListsOnce(stamp, v)
<1>1. CASE t.todo = <<>>
  BY <1>1, VisitEnds
<1>2. CASE t.todo # <<>> /\ Skips(t, stamp)
  BY <1>2, SkipSets DEF ListsOnce
<1>3. CASE t.todo # <<>> /\ ~Skips(t, stamp)
  <2>0. PICK pc \in DOMAIN code : Enters(code, A, stamp, t, v, pc)
    BY <1>3, EnterSets
  <2>1. /\ pc \notin Entered(t, stamp)
        /\ v.list = IF Waits(code, pc) THEN Append(t.list, Head(t.todo)) ELSE t.list
        /\ Head(t.todo).pc = pc
        /\ Head(t.todo) \in Thread(code, A)
        /\ Entered(v, stamp) = Entered(t, stamp) \cup {pc}
        /\ Pcs(v.list) = IF Waits(code, pc) THEN Pcs(t.list) \cup {pc} ELSE Pcs(t.list)
    BY <2>0 DEF Enters
  <2>2. OnceEach(t.list) /\ Pcs(t.list) \subseteq Entered(t, stamp)
    BY DEF ListsOnce
  <2>3. t.list \in Seq(Thread(code, A))
    BY DEF Walk
  <2>4. OnceEach(Append(t.list, Head(t.todo)))
    BY <2>1, <2>2, <2>3, OnceEachAppend
  <2>5. OnceEach(v.list) /\ Pcs(v.list) \subseteq Entered(v, stamp)
    BY <2>1, <2>2, <2>4
  <2>6. QED
    BY <2>5 DEF ListsOnce
<1>4. QED
  BY <1>1, <1>2, <1>3

LEMMA LeftType ==
  ASSUME NEW code, WellFormed(code), NEW A, NEW t \in Walk(code, A), NEW stamp
  PROVE  /\ Len(t.todo) \in Nat
         /\ IsFiniteSet((DOMAIN code) \ Entered(t, stamp))
         /\ Cardinality((DOMAIN code) \ Entered(t, stamp)) \in Nat
         /\ Left(code, stamp, t) \in Nat
<1>1. Len(t.todo) \in Nat
  BY LenProperties DEF Walk
<1>2. IsFiniteSet((DOMAIN code) \ Entered(t, stamp))
  BY CodeType, FS_Subset
<1> DEFINE a == Len(t.todo)
           c == Cardinality((DOMAIN code) \ Entered(t, stamp))
<1>3. a \in Nat /\ c \in Nat
  BY <1>1, <1>2, FS_CardinalityType
<1> HIDE DEF a, c
<1>4. a + 2 * c \in Nat
  BY <1>3
<1>5. QED
  BY <1>2, <1>3, <1>4 DEF Left, a, c

LEMMA LeftVisit ==
  ASSUME NEW code, WellFormed(code), NEW A, NEW t \in Walk(code, A), NEW at \in Int, NEW stamp \in Nat,
         NEW v, v = Turn(code, t, at, stamp), t.todo # <<>>
  PROVE  Left(code, stamp, v) <= Left(code, stamp, t) - 1
<1> DEFINE a == Len(t.todo)
           b == Len(v.todo)
           c == Cardinality((DOMAIN code) \ Entered(t, stamp))
           d == Cardinality((DOMAIN code) \ Entered(v, stamp))
<1>1. v \in Walk(code, A)
  BY VisitType
<1>2. a \in Nat /\ b \in Nat /\ c \in Nat /\ d \in Nat
  BY <1>1, LeftType
<1>3. Left(code, stamp, t) = a + 2 * c /\ Left(code, stamp, v) = b + 2 * d
  BY DEF Left
<1>4. CASE Skips(t, stamp)
  <2>1. Entered(v, stamp) = Entered(t, stamp)
    BY <1>4, SkipSets
  <2>2. b = a - 1
    <3>1. v = [t EXCEPT !.todo = Tail(t.todo)]
      BY <1>4, VisitSkips
    <3>2. v.todo = Tail(t.todo)
      BY <3>1 DEF Walk
    <3>3. t.todo \in Seq(Call(code, A))
      BY DEF Walk
    <3>4. QED
      BY <3>2, <3>3, HeadTailProperties
  <2>3. c = d
    BY <2>1
  <2> HIDE DEF a, b, c, d
  <2>4. QED
    BY <1>2, <1>3, <2>2, <2>3
<1>5. CASE ~Skips(t, stamp)
  <2>0. PICK pc \in DOMAIN code : Enters(code, A, stamp, t, v, pc)
    BY <1>5, EnterSets
  <2>1. /\ pc \notin Entered(t, stamp)
        /\ Entered(v, stamp) = Entered(t, stamp) \cup {pc}
        /\ Len(v.todo) <= Len(t.todo) + 1
    BY <2>0 DEF Enters
  <2>2. d < c
    <3> DEFINE X == Entered(t, stamp)
               Y == {pc}
    <3>1. IsFiniteSet(DOMAIN code)
      BY CodeType
    <3>2. X \in SUBSET DOMAIN code /\ Y \in SUBSET DOMAIN code /\ ~(Y \subseteq X)
      BY <2>1 DEF Entered, Walk
    <3>3. Entered(v, stamp) = X \cup Y
      BY <2>1
    <3> HIDE DEF X, Y
    <3>4. Cardinality((DOMAIN code) \ (X \cup Y)) < Cardinality((DOMAIN code) \ X)
      BY <3>1, <3>2, FewerLeft
    <3>5. QED
      BY <3>3, <3>4 DEF X
  <2>3. b <= a + 1
    BY <2>1
  <2> HIDE DEF a, b, c, d
  <2>4. QED
    BY <1>2, <1>3, <2>2, <2>3
<1>6. QED
  BY <1>4, <1>5

-----------------------------------------------------------------------------
(* addThreads takes turns until no call is left.                           *)

First(calls, marks) == [list |-> <<>>, seen |-> marks, todo |-> calls]

(* f[k] is the walk after k turns, and n turns are enough.                 *)
IsTurns(code, A, calls, marks, at, stamp, n, f) ==
    /\ addThreads(code, A, calls, marks, at, stamp) = f[n]
    /\ f[0] = First(calls, marks)
    /\ \A k \in 1 .. n : f[k] = Turn(code, f[k - 1], at, stamp)
    /\ f[n].todo = <<>>

(* f takes a turn at each step, and has steps for all that is left.        *)
TakesTurns(code, at, stamp, n, f) == \A k \in 1 .. n : f[k] = Turn(code, f[k - 1], at, stamp)
Enough(code, stamp, n, f) == Left(code, stamp, f[0]) = n

(* With a call left, the calls and twice the instructions not entered are  *)
(* fewer after each turn.                                                  *)
LEMMA TurnsEnd ==
  ASSUME NEW code, WellFormed(code), NEW A, NEW at \in Int, NEW stamp \in Nat,
         NEW n \in Nat, NEW f \in [0 .. n -> Walk(code, A)],
         TakesTurns(code, at, stamp, n, f), Enough(code, stamp, n, f)
  PROVE  f[n].todo = <<>>
<1>0. /\ \A k \in 1 .. n : f[k] = Turn(code, f[k - 1], at, stamp)
      /\ Left(code, stamp, f[0]) = n
  BY DEF TakesTurns, Enough
<1> DEFINE Ok(k) == f[k].todo = <<>> \/ Left(code, stamp, f[k]) <= n - k
           N == {k \in Nat : k <= n => Ok(k)}
<1>1. 0 \in N
  BY <1>0
<1>2. ASSUME NEW k \in Nat, k \in N
      PROVE  k + 1 \in N
  <2>1. SUFFICES ASSUME k + 1 <= n
                 PROVE  Ok(k + 1)
    OBVIOUS
  <2>2. k + 1 \in 1 .. n /\ (k + 1) - 1 = k /\ k \in 0 .. n /\ k + 1 \in 0 .. n
    BY <2>1
  <2>3. f[k + 1] = Turn(code, f[k], at, stamp) /\ f[k] \in Walk(code, A) /\ f[k + 1] \in Walk(code, A)
    BY <1>0, <2>2
  <2>4. Ok(k)
    BY <1>2, <2>2
  <2>5. CASE f[k].todo = <<>>
    BY <2>3, <2>5, VisitEnds
  <2>6. CASE f[k].todo # <<>>
    <3> DEFINE a == Left(code, stamp, f[k])
               b == Left(code, stamp, f[k + 1])
    <3>1. a \in Nat /\ b \in Nat
      BY <2>3, LeftType
    <3>2. b <= a - 1 /\ a <= n - k
      BY <2>3, <2>4, <2>6, LeftVisit
    <3> HIDE DEF a, b
    <3>3. b <= n - (k + 1)
      BY <3>1, <3>2
    <3>4. QED
      BY <3>3 DEF b
  <2>7. QED
    BY <2>5, <2>6
<1> HIDE DEF N
<1>3. n \in N
  BY <1>1, <1>2, Induction
<1>4. Ok(n)
  BY <1>3 DEF N
<1>5. SUFFICES ASSUME Left(code, stamp, f[n]) <= n - n
               PROVE  f[n].todo = <<>>
  BY <1>4
<1> DEFINE a == Len(f[n].todo)
           c == Cardinality((DOMAIN code) \ Entered(f[n], stamp))
<1>6. f[n] \in Walk(code, A)
  OBVIOUS
<1>7. a \in Nat /\ c \in Nat /\ a + 2 * c <= n - n
  BY <1>5, <1>6, LeftType DEF Left
<1> HIDE DEF a, c
<1>8. a = 0
  BY <1>7
<1>9. f[n].todo \in Seq(Call(code, A))
  BY <1>6 DEF Walk
<1>10. QED
  BY <1>8, <1>9, EmptySeq DEF a

LEMMA AddThreadsTurns ==
  ASSUME NEW code, WellFormed(code), NEW A, NEW calls \in Seq(Call(code, A)),
         NEW marks \in [DOMAIN code -> Nat], NEW at \in Int, NEW stamp \in Nat
  PROVE  \E n \in Nat : \E f \in [0 .. n -> Walk(code, A)] :
            IsTurns(code, A, calls, marks, at, stamp, n, f)
<1> DEFINE D == Walk(code, A)
           F == [t \in D |-> Turn(code, t, at, stamp)]
           mu == [t \in D |-> Left(code, stamp, t)]
           stop == {t \in D : t.todo = <<>>}
           s == First(calls, marks)
           n == Left(code, stamp, s)
           Is(g) == g = [t \in D |-> IF t.todo = <<>> THEN t ELSE g[Visit(code, t, at, stamp)]]
<1>1. F \in [D -> D]
  BY VisitType
<1>2. mu \in [D -> Nat]
  BY LeftType
<1>3. s \in D
  BY EmptySeq DEF First, Walk
<1>4. n \in Nat
  BY <1>3, LeftType
<1>5. \A t \in D : F[t] = Turn(code, t, at, stamp)
  OBVIOUS
<1>6. \A t \in D \ stop : mu[F[t]] < mu[t]
  <2>1. SUFFICES ASSUME NEW t \in D, t.todo # <<>>
                 PROVE  mu[F[t]] < mu[t]
    OBVIOUS
  <2> DEFINE v == Turn(code, t, at, stamp)
             a == Left(code, stamp, t)
             b == Left(code, stamp, v)
  <2>2. v \in D
    BY VisitType
  <2>3. a \in Nat /\ b \in Nat
    BY <2>2, LeftType
  <2>4. b <= a - 1
    BY <2>1, LeftVisit
  <2>5. mu[F[t]] = b /\ mu[t] = a
    BY <2>2
  <2> HIDE DEF a, b, mu, F
  <2>6. QED
    BY <2>3, <2>4, <2>5
<1>7. stop \in SUBSET D /\ \A t \in D : t \in stop <=> t.todo = <<>>
  OBVIOUS
<1> HIDE DEF D, F, mu, stop, s, n
<1>8. PICK l \in [D -> D] : Loops(l, D, F, stop)
  BY <1>1, <1>2, <1>6, <1>7, LoopExists
<1>9. Is(l)
  <2>1. \A t \in D : t.todo # <<>> => F[t] = Visit(code, t, at, stamp)
    BY <1>5 DEF Turn
  <2>2. \A t \in D : l[t] = IF t.todo = <<>> THEN t ELSE l[Visit(code, t, at, stamp)]
    BY <1>7, <1>8, <2>1 DEF Loops
  <2>3. QED
    BY <1>8, <2>2
<1>10. PICK h : Is(h) /\ addThreads(code, A, calls, marks, at, stamp) = h[s]
  <2> DEFINE c == CHOOSE g : Is(g)
  <2>1. Is(c)
    BY <1>9
  <2>2. addThreads(code, A, calls, marks, at, stamp) = c[s]
    BY DEF addThreads, First, D, s
  <2>3. QED
    BY <2>1, <2>2
<1>11. \A t \in D : h[t] = IF t.todo = <<>> THEN t ELSE h[Visit(code, t, at, stamp)]
  BY <1>10
<1>12. \A t \in D : h[F[t]] = h[t]
  BY <1>5, <1>11 DEF Turn
<1>13. PICK f \in [0 .. n -> D] : Iterates(f, F, s, n)
  BY <1>1, <1>3, <1>4, Iteration
<1>14. f[0] = s /\ \A k \in 1 .. n : f[k] = F[f[k - 1]]
  BY <1>13 DEF Iterates
<1>15. \A k \in 1 .. n : k - 1 \in 0 .. n /\ f[k - 1] \in D
  BY <1>4
<1>16. \A k \in 1 .. n : f[k] = Turn(code, f[k - 1], at, stamp)
  BY <1>5, <1>14, <1>15
<1>17. h[f[n]] = h[s]
  <2> DEFINE N == {k \in Nat : k <= n => h[f[k]] = h[s]}
  <2>1. 0 \in N
    BY <1>14
  <2>2. ASSUME NEW k \in Nat, k \in N
        PROVE  k + 1 \in N
    <3>1. SUFFICES ASSUME k + 1 <= n
                   PROVE  h[f[k + 1]] = h[s]
      OBVIOUS
    <3>2. k + 1 \in 1 .. n /\ (k + 1) - 1 = k /\ k <= n /\ k \in 0 .. n
      BY <1>4, <3>1
    <3>3. f[k + 1] = F[f[k]] /\ f[k] \in D
      BY <1>14, <3>2
    <3>4. QED
      BY <1>12, <2>2, <3>2, <3>3
  <2> HIDE DEF N
  <2>3. n \in N
    BY <1>4, <2>1, <2>2, Induction
  <2>4. QED
    BY <1>4, <2>3 DEF N
<1>18. f[n].todo = <<>>
  <2>1. TakesTurns(code, at, stamp, n, f) /\ Enough(code, stamp, n, f)
    BY <1>14, <1>16 DEF n, TakesTurns, Enough
  <2>2. f \in [0 .. n -> Walk(code, A)]
    BY DEF D
  <2>3. QED
    BY <1>4, <2>1, <2>2, TurnsEnd
<1>19. f[n] \in D /\ h[f[n]] = f[n]
  BY <1>4, <1>11, <1>18
<1> HIDE DEF Is
<1>20. IsTurns(code, A, calls, marks, at, stamp, n, f)
  BY <1>10, <1>14, <1>16, <1>17, <1>18, <1>19 DEF IsTurns, s
<1>21. QED
  BY <1>4, <1>20 DEF D

LEMMA AddThreadsType ==
  ASSUME NEW code, WellFormed(code), NEW A, NEW calls \in Seq(Call(code, A)),
         NEW marks \in [DOMAIN code -> Nat], NEW at \in Int, NEW stamp \in Nat
  PROVE  addThreads(code, A, calls, marks, at, stamp) \in Walk(code, A)
<1>1. PICK n \in Nat : \E f \in [0 .. n -> Walk(code, A)] : IsTurns(code, A, calls, marks, at, stamp, n, f)
  BY AddThreadsTurns
<1>2. PICK f \in [0 .. n -> Walk(code, A)] : IsTurns(code, A, calls, marks, at, stamp, n, f)
  BY <1>1
<1>3. QED
  BY <1>1, <1>2 DEF IsTurns

-----------------------------------------------------------------------------
(* What addThreads returns.                                                *)

LEMMA AddThreadsOnce ==
  ASSUME NEW code, WellFormed(code), NEW A, NEW calls \in Seq(Call(code, A)),
         NEW marks \in [DOMAIN code -> Nat], NEW at \in Int, NEW stamp \in Nat
  PROVE  /\ OnceEach(addThreads(code, A, calls, marks, at, stamp).list)
         /\ Marked(code, marks, stamp, addThreads(code, A, calls, marks, at, stamp))
<1>2. PICK n \in Nat : \E f \in [0 .. n -> Walk(code, A)] : IsTurns(code, A, calls, marks, at, stamp, n, f)
  BY AddThreadsTurns
<1>0. PICK f \in [0 .. n -> Walk(code, A)] : IsTurns(code, A, calls, marks, at, stamp, n, f)
  BY <1>2
<1>1. /\ addThreads(code, A, calls, marks, at, stamp) = f[n]
      /\ f[0] = First(calls, marks)
      /\ \A k \in 1 .. n : f[k] = Turn(code, f[k - 1], at, stamp)
  BY <1>0 DEF IsTurns
<1> DEFINE N == {k \in Nat : k <= n => ListsOnce(stamp, f[k]) /\ Marked(code, marks, stamp, f[k])}
<1>3. 0 \in N
  <2>1. f[0].list = <<>> /\ f[0].seen = marks
    BY <1>1 DEF First
  <2>2. ListsOnce(stamp, f[0])
    BY <2>1 DEF ListsOnce, OnceEach, Pcs
  <2>3. Marked(code, marks, stamp, f[0])
    BY <2>1 DEF Marked
  <2>4. QED
    BY <2>2, <2>3
<1>4. ASSUME NEW k \in Nat, k \in N
      PROVE  k + 1 \in N
  <2>1. SUFFICES ASSUME k + 1 <= n
                 PROVE  ListsOnce(stamp, f[k + 1]) /\ Marked(code, marks, stamp, f[k + 1])
    OBVIOUS
  <2>2. k + 1 \in 1 .. n /\ (k + 1) - 1 = k /\ k \in 0 .. n
    BY <1>2, <2>1
  <2>3. f[k + 1] = Turn(code, f[k], at, stamp) /\ f[k] \in Walk(code, A)
    BY <1>1, <2>2
  <2>4. ListsOnce(stamp, f[k]) /\ Marked(code, marks, stamp, f[k])
    BY <1>4, <2>2
  <2>5. QED
    BY <2>3, <2>4, ListsOnceVisit, MarkedVisit
<1> HIDE DEF N
<1>5. n \in N
  BY <1>2, <1>3, <1>4, Induction
<1>6. ListsOnce(stamp, f[n]) /\ Marked(code, marks, stamp, f[n])
  BY <1>2, <1>5 DEF N
<1>7. QED
  BY <1>1, <1>6 DEF ListsOnce

(* V is the least set that has the roots and is closed.                    *)
IsLeast(code, roots, V) ==
    /\ V \in SUBSET DOMAIN code
    /\ roots \subseteq V
    /\ Closed(code, V)
    /\ \A T \in SUBSET DOMAIN code : roots \subseteq T /\ Closed(code, T) => V \subseteq T

(* The threads of the list are where the roots lead to.                    *)
LeadTo(code, roots, list) ==
    \E V : IsLeast(code, roots, V) /\ Pcs(list) = {pc \in V : Waits(code, pc)}

(* Where no instruction bears the stamp yet, the threads added are at the  *)
(* instructions that wait and can be got to from the calls.                *)
LEMMA AddThreadsLeast ==
  ASSUME NEW code, WellFormed(code), NEW A, NEW calls \in Seq(Call(code, A)),
         NEW marks \in [DOMAIN code -> Nat], NEW at \in Int, NEW stamp \in Nat,
         \A pc \in DOMAIN code : marks[pc] # stamp
  PROVE  LeadTo(code, Pcs(calls) \ {Dead}, addThreads(code, A, calls, marks, at, stamp).list)
<1> DEFINE roots == Pcs(calls) \ {Dead}
<1>2. PICK n \in Nat : \E f \in [0 .. n -> Walk(code, A)] : IsTurns(code, A, calls, marks, at, stamp, n, f)
  BY AddThreadsTurns
<1>0. PICK f \in [0 .. n -> Walk(code, A)] : IsTurns(code, A, calls, marks, at, stamp, n, f)
  BY <1>2
<1>1. /\ addThreads(code, A, calls, marks, at, stamp) = f[n]
      /\ f[0] = First(calls, marks)
      /\ \A k \in 1 .. n : f[k] = Turn(code, f[k - 1], at, stamp)
      /\ f[n].todo = <<>>
  BY <1>0 DEF IsTurns
<1> DEFINE N == {k \in Nat : k <= n => Covers(code, roots, stamp, f[k])}
<1>4. 0 \in N
  <2>1. f[0].list = <<>> /\ f[0].seen = marks /\ f[0].todo = calls
    BY <1>1 DEF First
  <2>2. Entered(f[0], stamp) = {} /\ Pending(f[0]) = roots /\ Pcs(f[0].list) = {}
    BY <2>1 DEF Entered, Pending, Pcs
  <2>3. QED
    BY <2>2 DEF Covers
<1>5. ASSUME NEW k \in Nat, k \in N
      PROVE  k + 1 \in N
  <2>1. SUFFICES ASSUME k + 1 <= n
                 PROVE  Covers(code, roots, stamp, f[k + 1])
    OBVIOUS
  <2>2. k + 1 \in 1 .. n /\ (k + 1) - 1 = k /\ k \in 0 .. n
    BY <1>2, <2>1
  <2>3. f[k + 1] = Turn(code, f[k], at, stamp) /\ f[k] \in Walk(code, A)
    BY <1>1, <2>2
  <2>4. Covers(code, roots, stamp, f[k])
    BY <1>5, <2>2
  <2> HIDE DEF roots
  <2>5. QED
    BY <2>3, <2>4, CoversVisit
<1> HIDE DEF N
<1>6. n \in N
  BY <1>2, <1>4, <1>5, Induction
<1>7. Covers(code, roots, stamp, f[n])
  BY <1>2, <1>6 DEF N
<1>8. f[n] \in Walk(code, A)
  BY <1>1, <1>2
<1>10. Pending(f[n]) = {}
  BY <1>1 DEF Pending, Pcs
<1> DEFINE V == Entered(f[n], stamp)
<1>11. V \in SUBSET DOMAIN code
  BY <1>8 DEF Entered, Walk
<1>12. Covers(code, roots, stamp, f[n])
  BY <1>7
<1> HIDE DEF roots
<1>13. IsLeast(code, roots, V)
  BY <1>10, <1>11, <1>12 DEF Covers, IsLeast, Closed
<1>14. Pcs(f[n].list) = {pc \in V : Waits(code, pc)}
  BY <1>12 DEF Covers
<1> HIDE DEF V
<1>15. QED
  BY <1>1, <1>13, <1>14 DEF roots, LeadTo

-----------------------------------------------------------------------------
(* The reachable runs, position by position.                               *)

LEMMA MovesAre ==
  ASSUME NEW code, NEW l, NEW c, NEW d \in Moves(code, l, c)
  PROVE  \/ /\ d[2] = c[2]
            /\ d[1] \in Leads(code, c[1])
         \/ /\ c[2] < Len(l)
            /\ Consumes(code, c[1], l[c[2] + 1])
            /\ d = <<c[1] + 1, c[2] + 1>>
BY DEF Moves, Leads

LEMMA FollowIsMove ==
  ASSUME NEW code, NEW l, NEW pc, NEW i, NEW q \in Leads(code, pc)
  PROVE  <<q, i>> \in Moves(code, l, <<pc, i>>)
BY DEF Moves, Leads

LEMMA ConsumeIsMove ==
  ASSUME NEW code, NEW l, NEW pc, NEW i, i < Len(l), Consumes(code, pc, l[i + 1])
  PROVE  <<pc + 1, i + 1>> \in Moves(code, l, <<pc, i>>)
BY DEF Moves

(* What is reached at a position is the least closed set that has what a   *)
(* run enters there first.                                                 *)
LEMMA Layer ==
  ASSUME NEW code, WellFormed(code), NEW l, Len(l) \in Nat, NEW p \in 0 .. Len(l),
         NEW roots, NEW V, IsLeast(code, roots, V),
         \A pc \in roots : <<pc, p>> \in Reachable(code, l),
         p = 0 => 1 \in roots,
         \A c \in Reachable(code, l) :
            p = c[2] + 1 /\ Consumes(code, c[1], l[p]) => c[1] + 1 \in roots
  PROVE  V = {pc \in DOMAIN code : <<pc, p>> \in Reachable(code, l)}
<1> DEFINE R == Reachable(code, l)
           T == {pc \in DOMAIN code : <<pc, p>> \in R}
           S == {c \in R : c[2] = p => c[1] \in V}
<1>1. /\ R \subseteq Runs(code, l)
      /\ <<1, 0>> \in R
      /\ \A c \in R : Moves(code, l, c) \subseteq R
      /\ \A U \in SUBSET Runs(code, l) :
            <<1, 0>> \in U /\ (\A c \in U : Moves(code, l, c) \subseteq U) => R \subseteq U
  BY ReachableIsLeast
<1>2. roots \subseteq V /\ V \in SUBSET DOMAIN code /\ Closed(code, V)
  BY DEF IsLeast
<1>3. roots \subseteq T
  BY <1>2
<1>4. Closed(code, T)
  <2>1. SUFFICES ASSUME NEW pc \in T, NEW q \in Leads(code, pc)
                 PROVE  q \in T
    BY DEF Closed
  <2>2. <<q, p>> \in R
    BY <1>1, FollowIsMove
  <2>3. q \in DOMAIN code
    BY <1>1, <2>2 DEF Runs
  <2>4. QED
    BY <2>2, <2>3
<1>5. V \subseteq T
  BY <1>3, <1>4 DEF IsLeast
<1>6. <<1, 0>> \in S
  BY <1>1, <1>2
<1>7. ASSUME NEW c \in S, NEW d \in Moves(code, l, c)
      PROVE  d \in S
  <2>1. d \in R /\ c \in R
    BY <1>1
  <2>2. SUFFICES ASSUME d[2] = p
                 PROVE  d[1] \in V
    BY <2>1
  <2>3. CASE d[2] = c[2] /\ d[1] \in Leads(code, c[1])
    BY <1>2, <2>2, <2>3 DEF Closed
  <2>4. CASE Consumes(code, c[1], l[c[2] + 1]) /\ d = <<c[1] + 1, c[2] + 1>>
    <3>1. p = c[2] + 1 /\ d[1] = c[1] + 1
      BY <2>2, <2>4
    <3>2. QED
      BY <1>2, <2>1, <2>4, <3>1
  <2>5. QED
    BY <2>3, <2>4, MovesAre
<1>8. R \subseteq S
  BY <1>1, <1>6, <1>7
<1>9. T \subseteq V
  BY <1>8
<1>10. QED
  BY <1>5, <1>9

(* The instructions that wait and are reached at a position.               *)
Waiting(code, l, p) ==
    {pc \in DOMAIN code : Waits(code, pc) /\ <<pc, p>> \in Reachable(code, l)}

LEMMA ConsumesWaits ==
  ASSUME NEW code, NEW pc, NEW o, Consumes(code, pc, o)
  PROVE  Waits(code, pc)
BY DEF Consumes, Waits

LEMMA FirstLayer ==
  ASSUME NEW code, WellFormed(code), NEW l, Len(l) \in Nat, NEW V, IsLeast(code, {1}, V)
  PROVE  {pc \in V : Waits(code, pc)} = Waiting(code, l, 0)
<1>1. <<1, 0>> \in Reachable(code, l) /\ Reachable(code, l) \subseteq Runs(code, l)
  BY ReachableIsLeast
<1>2. \A c \in Reachable(code, l) : 0 # c[2] + 1
  BY <1>1 DEF Runs
<1>3. V = {pc \in DOMAIN code : <<pc, 0>> \in Reachable(code, l)}
  <2> DEFINE roots == {1}
  <2>1. /\ \A pc \in roots : <<pc, 0>> \in Reachable(code, l)
        /\ 1 \in roots
        /\ IsLeast(code, roots, V)
        /\ 0 \in 0 .. Len(l)
    BY <1>1
  <2> HIDE DEF roots
  <2>2. QED
    BY <1>2, <2>1, Layer
<1>4. QED
  BY <1>3 DEF Waiting

LEMMA NextLayer ==
  ASSUME NEW code, WellFormed(code), NEW l, Len(l) \in Nat, NEW p \in Nat, p < Len(l),
         NEW roots,
         roots = {pc + 1 : pc \in {q \in Waiting(code, l, p) : Consumes(code, q, l[p + 1])}},
         NEW V, IsLeast(code, roots, V)
  PROVE  {pc \in V : Waits(code, pc)} = Waiting(code, l, p + 1)
<1>1. /\ Reachable(code, l) \subseteq Runs(code, l)
      /\ \A c \in Reachable(code, l) : Moves(code, l, c) \subseteq Reachable(code, l)
  BY ReachableIsLeast
<1>2. ASSUME NEW x \in roots
      PROVE  <<x, p + 1>> \in Reachable(code, l)
  <2>1. PICK pc \in Waiting(code, l, p) : Consumes(code, pc, l[p + 1]) /\ x = pc + 1
    OBVIOUS
  <2>2. <<pc, p>> \in Reachable(code, l)
    BY DEF Waiting
  <2>3. <<pc + 1, p + 1>> \in Moves(code, l, <<pc, p>>)
    BY <2>1, ConsumeIsMove
  <2>4. QED
    BY <1>1, <2>1, <2>2, <2>3
<1>3. ASSUME NEW c \in Reachable(code, l), p + 1 = c[2] + 1, Consumes(code, c[1], l[p + 1])
      PROVE  c[1] + 1 \in roots
  <2>1. c = <<c[1], c[2]>> /\ c[1] \in DOMAIN code /\ c[2] \in Nat
    BY <1>1 DEF Runs
  <2>2. c[2] = p
    BY <1>3, <2>1
  <2>3. c[1] \in Waiting(code, l, p)
    BY <1>3, <2>1, <2>2, ConsumesWaits DEF Waiting
  <2>4. QED
    BY <1>3, <2>3
<1>4. V = {pc \in DOMAIN code : <<pc, p + 1>> \in Reachable(code, l)}
  <2> DEFINE i == p + 1
  <2>1. /\ \A pc \in roots : <<pc, i>> \in Reachable(code, l)
        /\ \A c \in Reachable(code, l) :
            i = c[2] + 1 /\ Consumes(code, c[1], l[i]) => c[1] + 1 \in roots
        /\ i # 0 /\ i \in 0 .. Len(l)
    BY <1>2, <1>3
  <2> HIDE DEF i
  <2>2. V = {pc \in DOMAIN code : <<pc, i>> \in Reachable(code, l)}
    BY <2>1, Layer
  <2>3. QED
    BY <2>2 DEF i
<1>5. QED
  BY <1>4 DEF Waiting

(* Where nothing waits, no run gets any further.                           *)
LEMMA NobodyWaits ==
  ASSUME NEW code, WellFormed(code), NEW l, Len(l) \in Nat, NEW p \in 0 .. Len(l),
         Waiting(code, l, p) = {}
  PROVE  ~Accepts(code, l)
<1> DEFINE R == Reachable(code, l)
           S == {c \in R : c[2] <= p}
<1>1. /\ R \subseteq Runs(code, l)
      /\ <<1, 0>> \in R
      /\ \A c \in R : Moves(code, l, c) \subseteq R
      /\ \A U \in SUBSET Runs(code, l) :
            <<1, 0>> \in U /\ (\A c \in U : Moves(code, l, c) \subseteq U) => R \subseteq U
  BY ReachableIsLeast
<1>2. <<1, 0>> \in S
  BY <1>1
<1>3. ASSUME NEW c \in R, c[2] = p
      PROVE  ~Waits(code, c[1])
  <2>1. c = <<c[1], p>> /\ c[1] \in DOMAIN code
    BY <1>1, <1>3 DEF Runs
  <2>2. QED
    BY <2>1 DEF Waiting
<1>4. ASSUME NEW c \in S, NEW d \in Moves(code, l, c)
      PROVE  d \in S
  <2>1. d \in R /\ c \in R /\ c[2] \in Nat /\ c[2] <= p
    BY <1>1 DEF Runs
  <2>2. CASE d[2] = c[2]
    BY <2>1, <2>2
  <2>3. CASE Consumes(code, c[1], l[c[2] + 1]) /\ d = <<c[1] + 1, c[2] + 1>>
    <3>1. c[2] # p
      BY <1>3, <2>1, <2>3, ConsumesWaits
    <3>2. c[2] + 1 <= p
      BY <2>1, <3>1
    <3>3. QED
      BY <2>1, <2>3, <3>2
  <2>4. QED
    BY <2>2, <2>3, MovesAre
<1>5. R \subseteq S
  BY <1>1, <1>2, <1>4
<1>6. ASSUME NEW c \in R, code[c[1]].op = "Match", c[2] = Len(l)
      PROVE  FALSE
  <2>1. c[2] = p
    BY <1>5, <1>6
  <2>2. QED
    BY <1>3, <1>6, <2>1 DEF Waits
<1>7. QED
  BY <1>6 DEF Accepts

(* At the end of the line the answer can be read off the threads.          *)
LEMMA AcceptsAtEnd ==
  ASSUME NEW code, WellFormed(code), NEW l, Len(l) \in Nat
  PROVE  Accepts(code, l) <=> \E pc \in Waiting(code, l, Len(l)) : code[pc].op = "Match"
<1>1. Reachable(code, l) \subseteq Runs(code, l)
  BY ReachableIsLeast
<1>2. ASSUME NEW c \in Reachable(code, l), code[c[1]].op = "Match", c[2] = Len(l)
      PROVE  c[1] \in Waiting(code, l, Len(l))
  <2>1. c = <<c[1], Len(l)>> /\ c[1] \in DOMAIN code
    BY <1>1, <1>2 DEF Runs
  <2>2. QED
    BY <1>2, <2>1 DEF Waiting, Waits
<1>3. ASSUME NEW pc \in Waiting(code, l, Len(l)), code[pc].op = "Match"
      PROVE  Accepts(code, l)
  <2>1. <<pc, Len(l)>> \in Reachable(code, l)
    BY DEF Waiting
  <2> DEFINE c == <<pc, Len(l)>>
  <2>2. c \in Reachable(code, l) /\ c[1] = pc /\ c[2] = Len(l)
    BY <2>1
  <2> HIDE DEF c
  <2>3. QED
    BY <1>3, <2>2 DEF Accepts
<1>4. QED
  BY <1>2, <1>3 DEF Accepts

LEMMA AcceptsBoolean ==
  ASSUME NEW code, NEW l
  PROVE  Accepts(code, l) \in BOOLEAN
BY DEF Accepts

LEMMA StampType ==
  ASSUME NEW n \in Nat
  PROVE  Stamp(n) \in Nat /\ (n < Generations => Stamp(n) = n)
BY ProgramAssumption DEF Stamp

-----------------------------------------------------------------------------
(* The machine.                                                            *)

TypeOK ==
    /\ grammar \in Grammars
    /\ program = Program(grammar)
    /\ line \in Seq(Nat)
    /\ pos \in 0 .. Len(line)
    /\ current \in Seq(Thread(program.code, Slot))
    /\ seen \in [DOMAIN program.code -> Nat]
    /\ generation \in Nat
    /\ verdict \in {"idle", "running", "yes", "no"}

(* The threads are where the runs of the program are, and no mark is newer *)
(* than the counter.                                                       *)
InStep ==
    verdict = "running" /\ generation < Generations =>
        /\ Pcs(current) = Waiting(program.code, line, pos)
        /\ \A pc \in DOMAIN program.code : seen[pc] <= generation

(* No instruction has two threads.                                         *)
OneThreadEach == OnceEach(current)

MInv == TypeOK /\ InStep /\ OneThreadEach /\ DecidesItsProgram

LEMMA CodeOk ==
  ASSUME TypeOK
  PROVE  WellFormed(program.code) /\ Len(line) \in Nat
BY ProgramAssumption DEF TypeOK

LEMMA MInvInit == Init => MInv
<1> SUFFICES ASSUME Init
             PROVE  MInv
  OBVIOUS
<1>1. TypeOK
  <2>1. line \in Seq(Nat) /\ Len(line) = 0 /\ current \in Seq(Thread(program.code, Slot))
    BY EmptySeq DEF Init
  <2>2. seen \in [DOMAIN program.code -> Nat]
    BY DEF Init
  <2>3. QED
    BY <2>1, <2>2 DEF Init, TypeOK
<1>2. OneThreadEach
  BY DEF Init, OneThreadEach, OnceEach
<1>3. verdict = "idle"
  BY DEF Init
<1>4. QED
  BY <1>1, <1>2, <1>3 DEF MInv, InStep, DecidesItsProgram, Decided

(* The first turn of match().                                              *)
LEMMA BeginKeeps ==
  ASSUME MInv, NEW l \in Lines(grammar), Begin(l)
  PROVE  MInv'
<1> DEFINE code == program.code
           unset == [s \in Slot |-> -1]
           clear == [pc \in DOMAIN program.code |-> 0]
           calls == <<[pc |-> 1, slots |-> unset]>>
           stamp == Stamp(generation + 1)
           t == addThreads(program.code, Slot, calls, clear, 0, stamp)
<1>1. TypeOK
  BY DEF MInv
<1>2. /\ line' = l /\ pos' = 0 /\ current' = t.list /\ seen' = t.seen
      /\ generation' = generation + 1 /\ verdict' = "running"
      /\ grammar' = grammar /\ program' = program
  BY DEF Begin
<1>3. WellFormed(code) /\ l \in Seq(Nat) /\ Len(l) \in Nat
  BY <1>1, ProgramAssumption, LenProperties DEF TypeOK
<1>4. generation + 1 \in Nat /\ stamp \in Nat /\ (generation + 1 < Generations => stamp = generation + 1)
  <2>1. generation + 1 \in Nat
    BY <1>1 DEF TypeOK
  <2> DEFINE g == generation + 1
  <2>2. g \in Nat
    BY <2>1
  <2> HIDE DEF g
  <2>3. Stamp(g) \in Nat /\ (g < Generations => Stamp(g) = g)
    BY <2>2, StampType
  <2>4. QED
    BY <2>1, <2>3 DEF g
<1>5. calls \in Seq(Call(code, Slot)) /\ Pcs(calls) \ {Dead} = {1}
  <2>1. [pc |-> 1, slots |-> unset] \in Call(code, Slot)
    BY <1>3, CodeType DEF Call, Slot
  <2>2. calls \in Seq(Call(code, Slot))
    BY <2>1
  <2>3. Pcs(calls) \ {Dead} = {1}
    BY DEF Pcs, Dead
  <2>4. QED
    BY <2>2, <2>3
<1>6. clear \in [DOMAIN code -> Nat] /\ \A pc \in DOMAIN code : clear[pc] = 0
  OBVIOUS
<1> HIDE DEF calls, clear, stamp, unset
<1>7. t \in Walk(code, Slot)
  BY <1>3, <1>4, <1>5, <1>6, AddThreadsType
<1>8. OnceEach(t.list) /\ Marked(code, clear, stamp, t)
  BY <1>3, <1>4, <1>5, <1>6, AddThreadsOnce
<1>9. TypeOK'
  <2>1. t.list \in Seq(Thread(code, Slot)) /\ t.seen \in [DOMAIN code -> Nat]
    BY <1>7 DEF Walk
  <2> HIDE DEF t
  <2>2. QED
    BY <1>1, <1>2, <1>3, <1>4, <2>1 DEF TypeOK, Slot
<1>10. ASSUME generation + 1 < Generations
       PROVE  /\ Pcs(t.list) = Waiting(code, l, 0)
              /\ \A pc \in DOMAIN code : t.seen[pc] <= generation + 1
  <2>1. stamp = generation + 1 /\ stamp # 0
    BY <1>1, <1>4, <1>10 DEF TypeOK
  <2>2. \A pc \in DOMAIN code : clear[pc] # stamp
    BY <1>6, <2>1
  <2>3. PICK V : IsLeast(code, Pcs(calls) \ {Dead}, V) /\ Pcs(t.list) = {pc \in V : Waits(code, pc)}
    <3>0. calls \in Seq(Call(code, Slot)) /\ clear \in [DOMAIN code -> Nat] /\ stamp \in Nat /\ 0 \in Int
      BY <1>4, <1>5, <1>6
    <3>1. LeadTo(code, Pcs(calls) \ {Dead}, t.list)
      BY <1>3, <2>2, <3>0, AddThreadsLeast
    <3> HIDE DEF t
    <3>2. QED
      BY <3>1 DEF LeadTo
  <2>4. IsLeast(code, {1}, V)
    BY <1>5, <2>3
  <2>5. Pcs(t.list) = Waiting(code, l, 0)
    BY <1>3, <2>3, <2>4, FirstLayer
  <2>6. \A pc \in DOMAIN code : t.seen[pc] \in {generation + 1, 0}
    BY <1>6, <1>8, <2>1 DEF Marked
  <2>7. 0 <= generation + 1 /\ generation + 1 <= generation + 1
    BY <1>4
  <2>8. QED
    BY <2>5, <2>6, <2>7
<1> HIDE DEF t
<1>11. InStep'
  BY <1>2, <1>10 DEF InStep
<1>12. OneThreadEach'
  BY <1>2, <1>8 DEF OneThreadEach
<1>13. DecidesItsProgram'
  BY <1>2 DEF DecidesItsProgram, Decided
<1>14. QED
  BY <1>9, <1>11, <1>12, <1>13 DEF MInv

(* What the threads ask for.                                               *)
LEMMA SurvivorsAre ==
  ASSUME TypeOK, pos < Len(line)
  PROVE  /\ Survivors \in Seq(Call(program.code, Slot))
         /\ Pcs(Survivors) \ {Dead} =
                {pc + 1 : pc \in {q \in Pcs(current) : Consumes(program.code, q, line[pos + 1])}}
<1> DEFINE code == program.code
           Next1(k) == IF Consumes(code, current[k].pc, line[pos + 1]) THEN current[k].pc + 1 ELSE Dead
<1>1. WellFormed(code)
  BY CodeOk
<1>2. /\ current \in Seq(Thread(code, Slot))
      /\ Len(current) \in Nat /\ DOMAIN current = 1 .. Len(current)
      /\ \A k \in DOMAIN current : current[k] \in Thread(code, Slot)
  BY LenProperties DEF TypeOK
<1>3. ASSUME NEW k \in DOMAIN current
      PROVE  /\ current[k].pc \in DOMAIN code
             /\ current[k].slots \in [Slot -> Int]
  BY <1>2 DEF Thread
<1>4. ASSUME NEW k \in DOMAIN current
      PROVE  /\ Next1(k) \in {Dead} \cup DOMAIN code
             /\ Consumes(code, current[k].pc, line[pos + 1]) => current[k].pc + 1 # Dead
  <2>1. Consumes(code, current[k].pc, line[pos + 1]) => current[k].pc + 1 \in DOMAIN code
    BY <1>1, <1>3 DEF Consumes, WellFormed
  <2>2. Dead \notin DOMAIN code
    BY <1>1, CodeType DEF Dead
  <2>3. QED
    BY <2>1, <2>2
<1>5. Survivors = [k \in DOMAIN current |-> [pc |-> Next1(k), slots |-> current[k].slots]]
  BY DEF Survivors
<1>6. Survivors \in Seq(Call(code, Slot))
  <2>1. \A k \in 1 .. Len(current) : [pc |-> Next1(k), slots |-> current[k].slots] \in Call(code, Slot)
    <3> HIDE DEF Next1
    <3>1. QED
      BY <1>2, <1>3, <1>4 DEF Call
  <2> HIDE DEF Next1
  <2>2. QED
    BY <1>2, <1>5, <2>1
<1>7. Pcs(Survivors) = {Next1(k) : k \in DOMAIN current}
  <2> HIDE DEF Next1
  <2>1. DOMAIN Survivors = DOMAIN current /\ \A k \in DOMAIN current : Survivors[k].pc = Next1(k)
    BY <1>5
  <2>2. QED
    BY <2>1 DEF Pcs
<1>8. ASSUME NEW x
      PROVE  x \in Pcs(Survivors) \ {Dead} <=>
             \E k \in DOMAIN current : Consumes(code, current[k].pc, line[pos + 1]) /\ x = current[k].pc + 1
  BY <1>4, <1>7
<1> DEFINE B == {pc + 1 : pc \in {q \in Pcs(current) : Consumes(program.code, q, line[pos + 1])}}
<1>9. ASSUME NEW x
      PROVE  x \in B <=>
             \E k \in DOMAIN current : Consumes(code, current[k].pc, line[pos + 1]) /\ x = current[k].pc + 1
  BY DEF Pcs
<1>10. Pcs(Survivors) \ {Dead} = B
  <2> HIDE DEF B
  <2>1. QED
    BY <1>8, <1>9
<1>11. QED
  BY <1>6, <1>10

(* A turn with an octet left.                                              *)
LEMMA AdvanceKeeps ==
  ASSUME MInv, Advance
  PROVE  MInv'
<1> DEFINE code == program.code
           calls == Survivors
           stamp == Stamp(generation + 1)
           t == addThreads(program.code, Slot, calls, seen, pos + 1, stamp)
<1>1. TypeOK
  BY DEF MInv
<1>2. /\ verdict = "running" /\ pos < Len(line)
      /\ pos' = pos + 1 /\ current' = t.list /\ seen' = t.seen
      /\ generation' = generation + 1
      /\ verdict' = IF t.list = <<>> THEN "no" ELSE "running"
      /\ grammar' = grammar /\ program' = program /\ line' = line
  BY DEF Advance, Survive
<1>3. WellFormed(code) /\ Len(line) \in Nat
  BY <1>1, CodeOk
<1>4. generation + 1 \in Nat /\ stamp \in Nat /\ (generation + 1 < Generations => stamp = generation + 1)
  <2>1. generation + 1 \in Nat
    BY <1>1 DEF TypeOK
  <2> DEFINE g == generation + 1
  <2>2. g \in Nat
    BY <2>1
  <2> HIDE DEF g
  <2>3. Stamp(g) \in Nat /\ (g < Generations => Stamp(g) = g)
    BY <2>2, StampType
  <2>4. QED
    BY <2>1, <2>3 DEF g
<1>5. /\ calls \in Seq(Call(code, Slot))
      /\ Pcs(calls) \ {Dead} =
            {pc + 1 : pc \in {q \in Pcs(current) : Consumes(code, q, line[pos + 1])}}
  BY <1>1, <1>2, SurvivorsAre
<1>6. seen \in [DOMAIN code -> Nat] /\ pos \in Nat /\ pos + 1 \in Int /\ pos + 1 \in 0 .. Len(line)
  BY <1>1, <1>2, <1>3 DEF TypeOK
<1> HIDE DEF calls, stamp
<1>7. t \in Walk(code, Slot)
  BY <1>3, <1>4, <1>5, <1>6, AddThreadsType
<1>8. OnceEach(t.list) /\ Marked(code, seen, stamp, t)
  BY <1>3, <1>4, <1>5, <1>6, AddThreadsOnce
<1>9. TypeOK'
  <2>1. t.list \in Seq(Thread(code, Slot)) /\ t.seen \in [DOMAIN code -> Nat]
    BY <1>7 DEF Walk
  <2> HIDE DEF t
  <2>2. QED
    BY <1>1, <1>2, <1>4, <1>6, <2>1 DEF TypeOK, Slot
<1>10. ASSUME generation + 1 < Generations
       PROVE  /\ Pcs(t.list) = Waiting(code, line, pos + 1)
              /\ \A pc \in DOMAIN code : t.seen[pc] <= generation + 1
  <2>1. generation \in Nat /\ stamp = generation + 1 /\ generation < Generations
    BY <1>1, <1>4, <1>10, ProgramAssumption DEF TypeOK
  <2>2. /\ Pcs(current) = Waiting(code, line, pos)
        /\ \A pc \in DOMAIN code : seen[pc] <= generation
    BY <1>2, <2>1 DEF MInv, InStep
  <2>3. \A pc \in DOMAIN code : seen[pc] # stamp
    BY <1>6, <2>1, <2>2
  <2>4. PICK V : IsLeast(code, Pcs(calls) \ {Dead}, V) /\ Pcs(t.list) = {pc \in V : Waits(code, pc)}
    <3>1. LeadTo(code, Pcs(calls) \ {Dead}, t.list)
      BY <1>3, <1>4, <1>5, <1>6, <2>3, AddThreadsLeast
    <3> HIDE DEF t
    <3>2. QED
      BY <3>1 DEF LeadTo
  <2> DEFINE roots == Pcs(calls) \ {Dead}
  <2>5. roots = {pc + 1 : pc \in {q \in Waiting(code, line, pos) : Consumes(code, q, line[pos + 1])}}
    BY <1>5, <2>2
  <2>6. IsLeast(code, roots, V)
    BY <2>4
  <2> HIDE DEF roots
  <2>7. Pcs(t.list) = Waiting(code, line, pos + 1)
    BY <1>2, <1>3, <1>6, <2>4, <2>5, <2>6, NextLayer
  <2>8. \A pc \in DOMAIN code : t.seen[pc] \in {generation + 1, seen[pc]}
    BY <1>8, <2>1 DEF Marked
  <2>9. \A pc \in DOMAIN code : t.seen[pc] <= generation + 1
    BY <1>6, <2>1, <2>2, <2>8
  <2>10. QED
    BY <2>7, <2>9
<1> HIDE DEF t
<1>11. InStep'
  BY <1>2, <1>10 DEF InStep
<1>12. OneThreadEach'
  BY <1>2, <1>8 DEF OneThreadEach
<1>13. DecidesItsProgram'
  <2>1. SUFFICES ASSUME t.list = <<>>, generation + 1 < Generations
                 PROVE  ~Accepts(code, line)
    BY <1>2, AcceptsBoolean DEF DecidesItsProgram, Decided
  <2>2. Pcs(t.list) = {}
    BY <2>1 DEF Pcs
  <2>3. Waiting(code, line, pos + 1) = {}
    BY <1>10, <2>1, <2>2
  <2>4. QED
    BY <1>3, <1>6, <2>3, NobodyWaits
<1>14. QED
  BY <1>9, <1>11, <1>12, <1>13 DEF MInv

(* The last turn.                                                          *)
LEMMA FinishKeeps ==
  ASSUME MInv, Finish
  PROVE  MInv'
<1> DEFINE code == program.code
           done == {k \in DOMAIN current : program.code[current[k].pc].op = "Match"}
<1>1. TypeOK
  BY DEF MInv
<1>2. /\ verdict = "running" /\ pos = Len(line)
      /\ generation' = generation + 1
      /\ verdict' \in {"yes", "no"}
      /\ verdict' = "yes" <=> done # {}
      /\ grammar' = grammar /\ program' = program /\ line' = line /\ pos' = pos
      /\ current' = current /\ seen' = seen
  BY DEF Finish
<1>3. WellFormed(code) /\ Len(line) \in Nat
  BY <1>1, CodeOk
<1>4. generation \in Nat
  BY <1>1 DEF TypeOK
<1>5. TypeOK'
  BY <1>1, <1>2, <1>4 DEF TypeOK, Slot
<1>6. OneThreadEach'
  BY <1>2 DEF MInv, OneThreadEach
<1>7. InStep'
  BY <1>2 DEF InStep
<1>8. DecidesItsProgram'
  <2>1. SUFFICES ASSUME generation + 1 < Generations
                 PROVE  done # {} <=> Accepts(code, line)
    BY <1>2, AcceptsBoolean DEF DecidesItsProgram, Decided
  <2>2. generation < Generations
    BY <1>4, <2>1, ProgramAssumption
  <2>3. Pcs(current) = Waiting(code, line, Len(line))
    BY <1>2, <2>2 DEF MInv, InStep
  <2>4. done # {} <=> \E pc \in Pcs(current) : code[pc].op = "Match"
    BY DEF Pcs
  <2>5. QED
    BY <1>3, <2>3, <2>4, AcceptsAtEnd
<1>9. QED
  BY <1>5, <1>6, <1>7, <1>8 DEF MInv

LEMMA MInvStays ==
  ASSUME MInv, UNCHANGED vars
  PROVE  MInv'
BY DEF MInv, TypeOK, InStep, OneThreadEach, DecidesItsProgram, Decided, Slot, vars

(* The threads of the machine are where the runs of its program are, and   *)
(* what it decided of each line is right.                                  *)
THEOREM Invariance == Spec => []MInv
<1>1. ASSUME MInv, [Next]_vars
      PROVE  MInv'
  <2>1. CASE \E l \in Lines(grammar) : Begin(l)
    BY <1>1, <2>1, BeginKeeps
  <2>2. CASE Advance
    BY <1>1, <2>2, AdvanceKeeps
  <2>3. CASE Finish
    BY <1>1, <2>3, FinishKeeps
  <2>4. CASE UNCHANGED vars
    BY <1>1, <2>4, MInvStays
  <2>5. QED
    BY <1>1, <2>1, <2>2, <2>3, <2>4 DEF Next
<1>2. QED
  BY <1>1, MInvInit, PTL DEF Spec

(* The verdict is what the program accepts (ProgramMatcher::match), until  *)
(* the generation counter comes round.                                     *)
THEOREM MachineDecides == Spec => []DecidesItsProgram
<1>1. MInv => DecidesItsProgram
  BY DEF MInv
<1>2. QED
  BY <1>1, Invariance, PTL

(* addThread's marks keep the thread lists short (ProgramMatcher.cpp:56):  *)
(* there are never more threads than instructions, whatever the line and   *)
(* even once the counter has come round.                                   *)
THEOREM ThreadsAreBounded == Spec => [](Len(current) <= Len(program.code))
<1>1. MInv => Len(current) <= Len(program.code)
  <2> SUFFICES ASSUME MInv
               PROVE  Len(current) <= Len(program.code)
    OBVIOUS
  <2> DEFINE n == Len(current)
             m == Len(program.code)
             at == [k \in 1 .. n |-> current[k].pc]
  <2>1. TypeOK /\ OneThreadEach
    BY DEF MInv
  <2>2. current \in Seq(Thread(program.code, Slot))
    BY <2>1 DEF TypeOK
  <2>3. n \in Nat /\ DOMAIN current = 1 .. n
    BY <2>2
  <2>4. WellFormed(program.code)
    BY <2>1, CodeOk
  <2>5. m \in Nat /\ DOMAIN program.code = 1 .. m
    BY <2>4 DEF WellFormed
  <2>6. \A k \in 1 .. n : current[k] \in Thread(program.code, Slot)
    BY <2>2, <2>3
  <2>7. \A k \in 1 .. n : current[k].pc \in 1 .. m
    BY <2>5, <2>6 DEF Thread
  <2>8. at \in [1 .. n -> 1 .. m]
    BY <2>7
  <2>9. \A i, j \in 1 .. n : at[i] = at[j] => i = j
    BY <2>1, <2>3 DEF OneThreadEach, OnceEach
  <2>10. at \in Injection(1 .. n, 1 .. m)
    <3> HIDE DEF at, n, m
    <3> QED
      BY <2>8, <2>9 DEF Injection, IsInjective
  <2>11. IsFiniteSet(1 .. n) /\ Cardinality(1 .. n) = n /\ IsFiniteSet(1 .. m) /\ Cardinality(1 .. m) = m
    <3> HIDE DEF at, n, m
    <3>1. \A j \in Nat : IsFiniteSet(1 .. j) /\ Cardinality(1 .. j) = IF 1 > j THEN 0 ELSE j - 1 + 1
      BY FS_Interval
    <3> QED
      BY <2>3, <2>5, <3>1
  <2> HIDE DEF at, n, m
  <2>12. Cardinality(1 .. n) <= Cardinality(1 .. m)
    BY <2>10, <2>11, FS_Injection
  <2>13. n <= m
    BY <2>11, <2>12
  <2> QED
    BY <2>13 DEF n, m
<1>2. QED
  BY <1>1, Invariance, PTL

-----------------------------------------------------------------------------
(* The captures.  A run now carries its slots: it is at an instruction and *)
(* a position with what it has saved.  A is the set of the slots.          *)

Saved(code, pc, i, m) == IF code[pc].op = "Save" THEN cloneSlots(m, code[pc].x, i) ELSE m

Unset(A) == [s \in A |-> -1]

States(code, l, A) == (DOMAIN code) \X (0 .. Len(l)) \X [A -> Int]

(* S has the first run, and every move of its members.                     *)
HasRuns(code, l, A, S) ==
    /\ <<1, 0, Unset(A)>> \in S
    /\ \A pc, i, m : <<pc, i, m>> \in S =>
        /\ \A k \in DOMAIN Follows(code, pc) :
                <<Follows(code, pc)[k], i, Saved(code, pc, i, m)>> \in S
        /\ i < Len(l) /\ Consumes(code, pc, l[i + 1]) => <<pc + 1, i + 1, m>> \in S

(* A run of the program on l gets to pc after i octets with slots m.       *)
GetsTo(code, l, A, pc, i, m) ==
    \A S \in SUBSET States(code, l, A) : HasRuns(code, l, A, S) => <<pc, i, m>> \in S

(* The threads and calls of s are at runs of S.                            *)
AreRuns(S, i, s) == \A k \in DOMAIN s : s[k].pc # Dead => <<s[k].pc, i, s[k].slots>> \in S

(* The states themselves are such a set, so runs are what they seem.       *)
LEMMA StatesHaveRuns ==
  ASSUME NEW code, WellFormed(code), NEW l, Len(l) \in Nat, NEW A
  PROVE  HasRuns(code, l, A, States(code, l, A))
<1>1. <<1, 0, Unset(A)>> \in States(code, l, A)
  BY CodeType DEF States, Unset
<1>2. ASSUME NEW pc, NEW i, NEW m, <<pc, i, m>> \in States(code, l, A)
      PROVE  /\ \A k \in DOMAIN Follows(code, pc) :
                    <<Follows(code, pc)[k], i, Saved(code, pc, i, m)>> \in States(code, l, A)
             /\ i < Len(l) /\ Consumes(code, pc, l[i + 1]) => <<pc + 1, i + 1, m>> \in States(code, l, A)
  <2>1. pc \in DOMAIN code /\ i \in 0 .. Len(l) /\ m \in [A -> Int]
    BY <1>2 DEF States
  <2>2. Saved(code, pc, i, m) \in [A -> Int]
    BY <2>1 DEF Saved, cloneSlots
  <2>3. \A k \in DOMAIN Follows(code, pc) : Follows(code, pc)[k] \in DOMAIN code
    BY <2>1 DEF WellFormed
  <2>4. Consumes(code, pc, l[i + 1]) => pc + 1 \in DOMAIN code
    BY <2>1 DEF Consumes, WellFormed
  <2>5. i < Len(l) => i + 1 \in 0 .. Len(l)
    BY <2>1
  <2>6. QED
    BY <2>1, <2>2, <2>3, <2>4, <2>5 DEF States
<1>3. QED
  BY <1>1, <1>2 DEF HasRuns

LEMMA AreRunsTail ==
  ASSUME NEW S, NEW i, NEW C, NEW s \in Seq(C), s # <<>>, AreRuns(S, i, s)
  PROVE  AreRuns(S, i, Tail(s))
<1>1. SUFFICES ASSUME NEW k \in DOMAIN Tail(s), Tail(s)[k].pc # Dead
               PROVE  <<Tail(s)[k].pc, i, Tail(s)[k].slots>> \in S
  BY DEF AreRuns
<1>2. k + 1 \in DOMAIN s /\ Tail(s)[k] = s[k + 1]
  OBVIOUS
<1>3. QED
  BY <1>1, <1>2 DEF AreRuns

LEMMA AreRunsConcat ==
  ASSUME NEW S, NEW i, NEW C, NEW s \in Seq(C), NEW u \in Seq(C), AreRuns(S, i, s), AreRuns(S, i, u)
  PROVE  AreRuns(S, i, s \o u)
<1> DEFINE v == s \o u
<1>1. Len(s) \in Nat /\ Len(u) \in Nat /\ DOMAIN s = 1 .. Len(s) /\ DOMAIN u = 1 .. Len(u)
  BY LenProperties
<1>2. SUFFICES ASSUME NEW k \in DOMAIN v, v[k].pc # Dead
               PROVE  <<v[k].pc, i, v[k].slots>> \in S
  BY DEF AreRuns
<1>3. k \in 1 .. Len(s) + Len(u) /\ v[k] = IF k <= Len(s) THEN s[k] ELSE u[k - Len(s)]
  BY <1>1, ConcatProperties
<1> HIDE DEF v
<1>4. CASE k <= Len(s)
  <2>1. k \in DOMAIN s /\ v[k] = s[k]
    BY <1>1, <1>3, <1>4
  <2>2. QED
    BY <1>2, <2>1 DEF AreRuns
<1>5. CASE ~(k <= Len(s))
  <2> DEFINE j == k - Len(s)
  <2>1. j \in DOMAIN u /\ v[k] = u[j]
    BY <1>1, <1>3, <1>5
  <2> HIDE DEF j
  <2>2. QED
    BY <1>2, <2>1 DEF AreRuns
<1>6. QED
  BY <1>4, <1>5

LEMMA AreRunsAppend ==
  ASSUME NEW S, NEW i, NEW C, NEW s \in Seq(C), NEW x \in C, AreRuns(S, i, s),
         <<x.pc, i, x.slots>> \in S
  PROVE  AreRuns(S, i, Append(s, x))
<1>1. SUFFICES ASSUME NEW k \in DOMAIN Append(s, x), Append(s, x)[k].pc # Dead
               PROVE  <<Append(s, x)[k].pc, i, Append(s, x)[k].slots>> \in S
  BY DEF AreRuns
<1>2. \/ k \in DOMAIN s /\ Append(s, x)[k] = s[k]
      \/ Append(s, x)[k] = x
  BY AppendProperties, LenProperties
<1>3. QED
  BY <1>1, <1>2 DEF AreRuns

(* A visit follows runs: its calls save what the instruction saves.        *)
LEMMA VisitRuns ==
  ASSUME NEW code, WellFormed(code), NEW l, NEW A, NEW S, HasRuns(code, l, A, S),
         NEW t \in Walk(code, A), NEW at \in Int, NEW stamp \in Nat,
         AreRuns(S, at, t.list), AreRuns(S, at, t.todo)
  PROVE  /\ AreRuns(S, at, Turn(code, t, at, stamp).list)
         /\ AreRuns(S, at, Turn(code, t, at, stamp).todo)
<1>1. t.list \in Seq(Thread(code, A)) /\ t.todo \in Seq(Call(code, A))
  BY DEF Walk
<1>2. CASE t.todo = <<>>
  BY <1>2, VisitEnds
<1>3. CASE t.todo # <<>> /\ Skips(t, stamp)
  <2>1. Turn(code, t, at, stamp) = [t EXCEPT !.todo = Tail(t.todo)]
    BY <1>3, VisitSkips
  <2>2. Turn(code, t, at, stamp).list = t.list /\ Turn(code, t, at, stamp).todo = Tail(t.todo)
    BY <2>1 DEF Walk
  <2>3. AreRuns(S, at, Tail(t.todo))
    BY <1>1, <1>3, AreRunsTail
  <2>4. QED
    BY <2>2, <2>3
<1>4. CASE t.todo # <<>> /\ ~Skips(t, stamp)
  <2> DEFINE th == Head(t.todo)
             calls == Calls(code, th, at)
  <2>1. th \in Thread(code, A)
    BY <1>4, HeadIsThread
  <2>2. Tail(t.todo) \in Seq(Call(code, A)) /\ calls \in Seq(Call(code, A))
    BY <1>1, <1>4, <2>1, HeadTailProperties, CallsType
  <2>3. Turn(code, t, at, stamp) =
            [list |-> IF Waits(code, th.pc) THEN Append(t.list, th) ELSE t.list,
             seen |-> [t.seen EXCEPT ![th.pc] = stamp],
             todo |-> calls \o Tail(t.todo)]
    BY <1>4 DEF Turn, Visit, Skips, Calls
  <2>4. <<th.pc, at, th.slots>> \in S
    <3>1. 1 \in DOMAIN t.todo /\ th = t.todo[1] /\ th.pc # Dead
      BY <1>1, <1>4, LenProperties, EmptySeq DEF Skips
    <3>2. QED
      BY <3>1 DEF AreRuns
  <2>5. AreRuns(S, at, calls)
    <3>1. SUFFICES ASSUME NEW k \in DOMAIN calls
                   PROVE  <<calls[k].pc, at, calls[k].slots>> \in S
      BY DEF AreRuns
    <3>2. k \in DOMAIN Follows(code, th.pc)
      BY DEF Calls
    <3>3. calls[k].pc = Follows(code, th.pc)[k] /\ calls[k].slots = Saved(code, th.pc, at, th.slots)
      BY <3>2 DEF Calls, Saved
    <3> HIDE DEF calls, th
    <3>4. <<Follows(code, th.pc)[k], at, Saved(code, th.pc, at, th.slots)>> \in S
      BY <2>4, <3>2 DEF HasRuns
    <3>5. QED
      BY <3>3, <3>4
  <2>6. AreRuns(S, at, Tail(t.todo))
    BY <1>1, <1>4, AreRunsTail
  <2> HIDE DEF th, calls
  <2>7. AreRuns(S, at, calls \o Tail(t.todo))
    BY <2>2, <2>5, <2>6, AreRunsConcat
  <2>8. AreRuns(S, at, Append(t.list, th))
    BY <1>1, <2>1, <2>4, AreRunsAppend
  <2>9. QED
    BY <2>3, <2>7, <2>8
<1>5. QED
  BY <1>2, <1>3, <1>4

LEMMA AddThreadsRuns ==
  ASSUME NEW code, WellFormed(code), NEW l, NEW A, NEW S, HasRuns(code, l, A, S),
         NEW calls \in Seq(Call(code, A)), NEW marks \in [DOMAIN code -> Nat],
         NEW at \in Int, NEW stamp \in Nat, AreRuns(S, at, calls)
  PROVE  AreRuns(S, at, addThreads(code, A, calls, marks, at, stamp).list)
<1>2. PICK n \in Nat : \E f \in [0 .. n -> Walk(code, A)] : IsTurns(code, A, calls, marks, at, stamp, n, f)
  BY AddThreadsTurns
<1>0. PICK f \in [0 .. n -> Walk(code, A)] : IsTurns(code, A, calls, marks, at, stamp, n, f)
  BY <1>2
<1>1. /\ addThreads(code, A, calls, marks, at, stamp) = f[n]
      /\ f[0] = First(calls, marks)
      /\ \A k \in 1 .. n : f[k] = Turn(code, f[k - 1], at, stamp)
  BY <1>0 DEF IsTurns
<1> DEFINE N == {k \in Nat : k <= n => AreRuns(S, at, f[k].list) /\ AreRuns(S, at, f[k].todo)}
<1>3. 0 \in N
  <2>1. f[0].list = <<>> /\ f[0].todo = calls
    BY <1>1 DEF First
  <2>2. AreRuns(S, at, <<>>)
    BY DEF AreRuns
  <2>3. QED
    BY <2>1, <2>2
<1>4. ASSUME NEW k \in Nat, k \in N
      PROVE  k + 1 \in N
  <2>1. SUFFICES ASSUME k + 1 <= n
                 PROVE  AreRuns(S, at, f[k + 1].list) /\ AreRuns(S, at, f[k + 1].todo)
    OBVIOUS
  <2>2. k + 1 \in 1 .. n /\ (k + 1) - 1 = k /\ k \in 0 .. n
    BY <1>2, <2>1
  <2>3. f[k + 1] = Turn(code, f[k], at, stamp) /\ f[k] \in Walk(code, A)
    BY <1>1, <2>2
  <2>4. AreRuns(S, at, f[k].list) /\ AreRuns(S, at, f[k].todo)
    BY <1>4, <2>2
  <2>5. QED
    BY <2>3, <2>4, VisitRuns
<1> HIDE DEF N
<1>5. n \in N
  BY <1>2, <1>3, <1>4, Induction
<1>6. AreRuns(S, at, f[n].list)
  BY <1>2, <1>5 DEF N
<1>7. QED
  BY <1>1, <1>6

(* The calls of s are at runs of the program.                              *)
AllGetTo(code, l, A, i, s) ==
    \A k \in DOMAIN s : s[k].pc # Dead => GetsTo(code, l, A, s[k].pc, i, s[k].slots)

LEMMA ThreadsGetTo ==
  ASSUME NEW code, WellFormed(code), NEW l, NEW A,
         NEW calls \in Seq(Call(code, A)), NEW marks \in [DOMAIN code -> Nat],
         NEW at \in Int, NEW stamp \in Nat, AllGetTo(code, l, A, at, calls)
  PROVE  AllGetTo(code, l, A, at, addThreads(code, A, calls, marks, at, stamp).list)
<1> DEFINE s == addThreads(code, A, calls, marks, at, stamp).list
<1>1. ASSUME NEW S \in SUBSET States(code, l, A), HasRuns(code, l, A, S)
      PROVE  AreRuns(S, at, s)
  <2>1. AreRuns(S, at, calls)
    BY <1>1 DEF AllGetTo, GetsTo, AreRuns
  <2>2. QED
    BY <1>1, <2>1, AddThreadsRuns
<1> HIDE DEF s
<1>2. AllGetTo(code, l, A, at, s)
  BY <1>1 DEF AllGetTo, GetsTo, AreRuns
<1>3. QED
  BY <1>2 DEF s

LEMMA StartGetsTo ==
  ASSUME NEW code, NEW l, NEW A
  PROVE  GetsTo(code, l, A, 1, 0, Unset(A))
BY DEF GetsTo, HasRuns

LEMMA ConsumingGetsTo ==
  ASSUME NEW code, NEW l, NEW A, NEW pc, NEW i, NEW m, GetsTo(code, l, A, pc, i, m),
         i < Len(l), Consumes(code, pc, l[i + 1])
  PROVE  GetsTo(code, l, A, pc + 1, i + 1, m)
BY DEF GetsTo, HasRuns

(* Every thread is at a run of the program, with the slots of that run.    *)
AtRuns == verdict = "running" => AllGetTo(program.code, line, Slot, pos, current)

(* A line that is accepted has the captures of one run that ends in Match  *)
(* (ProgramMatcher.cpp:120), and never a mixture of several, though a      *)
(* thread is dropped wherever another was first.                           *)
CapturesOfARun ==
    verdict = "yes" =>
        \E pc \in DOMAIN program.code, m \in [Slot -> Int] :
            /\ program.code[pc].op = "Match"
            /\ GetsTo(program.code, line, Slot, pc, Len(line), m)
            /\ caps = Captured(program, m, line)

CInv == AtRuns /\ CapturesOfARun

LEMMA CInvBegin ==
  ASSUME TypeOK, NEW l \in Lines(grammar), Begin(l)
  PROVE  CInv'
<1> DEFINE code == program.code
           calls == <<[pc |-> 1, slots |-> Unset(Slot)]>>
           clear == [pc \in DOMAIN program.code |-> 0]
           stamp == Stamp(generation + 1)
           t == addThreads(code, Slot, calls, clear, 0, stamp)
<1>1. /\ line' = l /\ pos' = 0 /\ current' = t.list /\ verdict' = "running" /\ program' = program
  BY DEF Begin, Unset, Slot
<1>2. WellFormed(code) /\ Slot' = Slot
  BY <1>1, CodeOk DEF Slot
<1>3. stamp \in Nat
  <2>1. generation + 1 \in Nat
    BY DEF TypeOK
  <2>2. QED
    BY <2>1, StampType
<1>4. calls \in Seq(Call(code, Slot))
  <2>1. [pc |-> 1, slots |-> Unset(Slot)] \in Call(code, Slot)
    BY <1>2, CodeType DEF Call, Unset
  <2>2. QED
    BY <2>1
<1>5. AllGetTo(code, l, Slot, 0, calls)
  <2>1. \A k \in DOMAIN calls : calls[k].pc = 1 /\ calls[k].slots = Unset(Slot)
    OBVIOUS
  <2> HIDE DEF calls
  <2>2. QED
    BY <2>1, StartGetsTo DEF AllGetTo
<1>6. clear \in [DOMAIN code -> Nat] /\ 0 \in Int
  OBVIOUS
<1> HIDE DEF calls, clear, stamp
<1>7. AllGetTo(code, l, Slot, 0, t.list)
  BY <1>2, <1>3, <1>4, <1>5, <1>6, ThreadsGetTo
<1> HIDE DEF t
<1>8. QED
  BY <1>1, <1>2, <1>7 DEF CInv, AtRuns, CapturesOfARun

LEMMA CInvAdvance ==
  ASSUME TypeOK, CInv, Advance
  PROVE  CInv'
<1> DEFINE code == program.code
           calls == Survivors
           stamp == Stamp(generation + 1)
           t == addThreads(code, Slot, calls, seen, pos + 1, stamp)
<1>1. /\ verdict = "running" /\ pos < Len(line)
      /\ line' = line /\ pos' = pos + 1 /\ current' = t.list /\ program' = program
      /\ verdict' = IF t.list = <<>> THEN "no" ELSE "running"
  BY DEF Advance, Survive
<1>2. WellFormed(code) /\ Slot' = Slot
  BY <1>1, CodeOk DEF Slot
<1>3. stamp \in Nat
  <2>1. generation + 1 \in Nat
    BY DEF TypeOK
  <2>2. QED
    BY <2>1, StampType
<1>4. calls \in Seq(Call(code, Slot))
  BY <1>1, SurvivorsAre
<1>5. AllGetTo(code, line, Slot, pos + 1, calls)
  <2>1. SUFFICES ASSUME NEW k \in DOMAIN calls, calls[k].pc # Dead
                 PROVE  GetsTo(code, line, Slot, calls[k].pc, pos + 1, calls[k].slots)
    BY DEF AllGetTo
  <2> DEFINE th == current[k]
  <2>2. /\ k \in DOMAIN current
        /\ calls[k].pc = IF Consumes(code, th.pc, line[pos + 1]) THEN th.pc + 1 ELSE Dead
        /\ calls[k].slots = th.slots
    BY DEF Survivors
  <2>3. Consumes(code, th.pc, line[pos + 1]) /\ calls[k].pc = th.pc + 1
    BY <2>1, <2>2
  <2>4. th \in Thread(code, Slot)
    BY <2>2 DEF TypeOK
  <2>5. th.pc # Dead
    BY <1>2, <2>4, CodeType DEF Thread, Dead
  <2>6. GetsTo(code, line, Slot, th.pc, pos, th.slots)
    BY <1>1, <2>2, <2>5 DEF CInv, AtRuns, AllGetTo
  <2> HIDE DEF calls, th
  <2>7. GetsTo(code, line, Slot, th.pc + 1, pos + 1, th.slots)
    BY <1>1, <2>3, <2>6, ConsumingGetsTo
  <2>8. QED
    BY <2>2, <2>3, <2>7
<1>6. seen \in [DOMAIN code -> Nat] /\ pos + 1 \in Int
  BY DEF TypeOK
<1> HIDE DEF calls, stamp
<1>7. AllGetTo(code, line, Slot, pos + 1, t.list)
  BY <1>2, <1>3, <1>4, <1>5, <1>6, ThreadsGetTo
<1> HIDE DEF t
<1>8. QED
  BY <1>1, <1>2, <1>7 DEF CInv, AtRuns, CapturesOfARun

LEMMA CInvFinish ==
  ASSUME TypeOK, CInv, Finish
  PROVE  CInv'
<1> DEFINE code == program.code
           done == {k \in DOMAIN current : program.code[current[k].pc].op = "Match"}
           first == CHOOSE k \in done : \A j \in done : k <= j
<1>1. /\ verdict = "running" /\ pos = Len(line) /\ verdict' \in {"yes", "no"}
      /\ line' = line /\ pos' = pos /\ current' = current /\ program' = program
      /\ verdict' = "yes" => done # {} /\ caps' = Captured(program, current[first].slots, line)
  BY DEF Finish
<1>2. WellFormed(code) /\ Slot' = Slot
  BY <1>1, CodeOk DEF Slot
<1>3. ASSUME done # {}
      PROVE  first \in done
  <2>1. done \in SUBSET Nat
    BY LenProperties DEF TypeOK
  <2>2. \E k \in done : \A j \in done : k <= j
    <3> HIDE DEF done
    <3>1. QED
      BY <1>3, <2>1, LeastElement
  <2> HIDE DEF done
  <2>3. QED
    BY <2>2
<1>4. CASE verdict' = "yes"
  <2> DEFINE th == current[first]
  <2>1. first \in DOMAIN current /\ code[th.pc].op = "Match"
    BY <1>1, <1>3, <1>4
  <2>2. th \in Thread(code, Slot)
    <3> HIDE DEF first
    <3>1. QED
      BY <2>1 DEF TypeOK
  <2>3. th.pc \in DOMAIN code /\ th.slots \in [Slot -> Int] /\ th.pc # Dead
    <3> HIDE DEF th, first, done
    <3>1. th.pc \in DOMAIN code /\ th.slots \in [Slot -> Int]
      BY <2>2 DEF Thread
    <3>2. DOMAIN code = 1 .. Len(code)
      BY <1>2, CodeType
    <3>3. th.pc # Dead
      BY <3>1, <3>2 DEF Dead
    <3>4. QED
      BY <3>1, <3>3
  <2>4. GetsTo(code, line, Slot, th.pc, Len(line), th.slots)
    BY <1>1, <2>1, <2>3 DEF CInv, AtRuns, AllGetTo
  <2>5. caps' = Captured(program, th.slots, line)
    BY <1>1, <1>4
  <2> HIDE DEF th, first, done
  <2>6. QED
    BY <1>1, <1>2, <1>4, <2>1, <2>3, <2>4, <2>5 DEF CInv, AtRuns, CapturesOfARun
<1>5. CASE verdict' = "no"
  BY <1>5 DEF CInv, AtRuns, CapturesOfARun
<1>6. QED
  BY <1>1, <1>4, <1>5

(* The captures of an accepted line are those of a run of the program that *)
(* accepts it, whatever was matched before and even once the counter has   *)
(* come round.                                                             *)
THEOREM CapturesAreOfOneRun == Spec => []CapturesOfARun
<1>1. ASSUME Init
      PROVE  CInv
  BY <1>1 DEF Init, CInv, AtRuns, CapturesOfARun
<1>2. ASSUME MInv, CInv, [Next]_vars
      PROVE  CInv'
  <2>1. TypeOK
    BY <1>2 DEF MInv
  <2>2. CASE \E l \in Lines(grammar) : Begin(l)
    BY <2>1, <2>2, CInvBegin
  <2>3. CASE Advance
    BY <1>2, <2>1, <2>3, CInvAdvance
  <2>4. CASE Finish
    BY <1>2, <2>1, <2>4, CInvFinish
  <2>5. CASE UNCHANGED vars
    BY <1>2, <2>5 DEF CInv, AtRuns, CapturesOfARun, Slot, vars
  <2>6. QED
    BY <1>2, <2>2, <2>3, <2>4, <2>5 DEF Next
<1>3. CInv => CapturesOfARun
  BY DEF CInv
<1>4. QED
  BY <1>1, <1>2, <1>3, Invariance, PTL DEF Spec

(* Such a run is one of those that Accepts speaks of.                      *)
LEMMA RunsAreReachable ==
  ASSUME NEW code, WellFormed(code), NEW l, Len(l) \in Nat, NEW A,
         NEW pc, NEW i, NEW m, GetsTo(code, l, A, pc, i, m)
  PROVE  <<pc, i>> \in Reachable(code, l)
<1> DEFINE R == Reachable(code, l)
           S == {c \in States(code, l, A) : <<c[1], c[2]>> \in R}
<1>1. <<1, 0>> \in R /\ \A c \in R : Moves(code, l, c) \subseteq R
  BY ReachableIsLeast
<1>2. \A q, j, w : <<q, j, w>> \in S <=> <<q, j, w>> \in States(code, l, A) /\ <<q, j>> \in R
  OBVIOUS
<1> HIDE DEF R
<1>3. HasRuns(code, l, A, States(code, l, A))
  BY StatesHaveRuns
<1>4. <<1, 0, Unset(A)>> \in S
  BY <1>1, <1>2, <1>3 DEF HasRuns
<1>5. ASSUME NEW q, NEW j, NEW w, <<q, j, w>> \in S
      PROVE  /\ \A k \in DOMAIN Follows(code, q) :
                    <<Follows(code, q)[k], j, Saved(code, q, j, w)>> \in S
             /\ j < Len(l) /\ Consumes(code, q, l[j + 1]) => <<q + 1, j + 1, w>> \in S
  <2>1. <<q, j, w>> \in States(code, l, A) /\ <<q, j>> \in R
    BY <1>2, <1>5
  <2>2. Moves(code, l, <<q, j>>) \subseteq R
    BY <1>1, <2>1
  <2>3. ASSUME NEW k \in DOMAIN Follows(code, q)
        PROVE  <<Follows(code, q)[k], j, Saved(code, q, j, w)>> \in S
    <3>1. <<Follows(code, q)[k], j>> \in R
      BY <2>2, FollowIsMove DEF Leads
    <3>2. <<Follows(code, q)[k], j, Saved(code, q, j, w)>> \in States(code, l, A)
      BY <1>3, <2>1 DEF HasRuns
    <3>3. QED
      BY <1>2, <3>1, <3>2
  <2>4. ASSUME j < Len(l), Consumes(code, q, l[j + 1])
        PROVE  <<q + 1, j + 1, w>> \in S
    <3>1. <<q + 1, j + 1>> \in R
      BY <2>2, <2>4, ConsumeIsMove
    <3>2. <<q + 1, j + 1, w>> \in States(code, l, A)
      BY <1>3, <2>1, <2>4 DEF HasRuns
    <3>3. QED
      BY <1>2, <3>1, <3>2
  <2>5. QED
    BY <2>3, <2>4
<1>6. S \in SUBSET States(code, l, A)
  OBVIOUS
<1> HIDE DEF S
<1>7. HasRuns(code, l, A, S)
  BY <1>4, <1>5 DEF HasRuns
<1>8. <<pc, i, m>> \in S
  BY <1>6, <1>7 DEF GetsTo
<1>9. QED
  BY <1>2, <1>8 DEF R

(* A machine whose counter has come round may refuse a line, but it never  *)
(* accepts one that its program does not (ProgramMatcher.cpp:114).         *)
THEOREM NeverAcceptsWrongly == Spec => [](verdict = "yes" => Accepts(program.code, line))
<1>1. ASSUME MInv, CapturesOfARun, verdict = "yes"
      PROVE  Accepts(program.code, line)
  <2>1. WellFormed(program.code) /\ Len(line) \in Nat
    BY <1>1, CodeOk DEF MInv
  <2>2. PICK pc \in DOMAIN program.code, m \in [Slot -> Int] :
            /\ program.code[pc].op = "Match"
            /\ GetsTo(program.code, line, Slot, pc, Len(line), m)
    BY <1>1 DEF CapturesOfARun
  <2> DEFINE n == Len(line)
             c == <<pc, n>>
  <2>3. c \in Reachable(program.code, line)
    BY <2>1, <2>2, RunsAreReachable
  <2>4. c[1] = pc /\ c[2] = n
    OBVIOUS
  <2> HIDE DEF c
  <2>5. QED
    BY <2>2, <2>3, <2>4 DEF Accepts
<1>2. QED
  BY <1>1, Invariance, CapturesAreOfOneRun, PTL
=============================================================================
