-------------------------- MODULE ModeString_proofs --------------------------
(***************************************************************************)
(* One MODE command, for every mode string, parameter list and budget.     *)
(***************************************************************************)
EXTENDS ModeString, Induction_proofs, FiniteSetTheorems, SequenceTheorems

ChangeType == [adding : BOOLEAN, letter : STRING, param : STRING]

LineType == [modes : Seq(STRING \cup {"+", "-"}), params : Seq(STRING), sign : BOOLEAN, taken : Nat]

(* What is known of the parameters that came with the command.             *)
Understood(list) ==
    \A n \in DOMAIN list :
        /\ Member[list[n]] \in (STRING \ {Empty}) \cup {Nobody}
        /\ LimitOf[list[n]] \in Nat
        /\ LimitOf[list[n]] > 0 =>
            /\ Render[LimitOf[list[n]]] \in STRING \ {Empty}
            /\ LimitOf[Render[LimitOf[list[n]]]] = LimitOf[list[n]]

Signs(n) == {k \in 1 .. n : modeStr[k] \in {"+", "-"}}

(* The sign in force at character n.                                       *)
InForce(n) == modeStr[Max(Signs(n))] = "+"

TypeInv ==
    /\ modeStr \in Seq(STRING) /\ modeStr # <<>> /\ modeStr[1] \in {"+", "-"}
    /\ params \in Seq(STRING) /\ Understood(params)
    /\ kind \in {"channel", "user"}
    /\ i \in 1 .. Len(modeStr) + 1
    /\ adding \in BOOLEAN
    /\ i > 1 => adding = InForce(i - 1)
    /\ paramIdx \in 1 .. Len(params) + 1
    /\ applied \in Seq(ChangeType)
    /\ at \in 1 .. Len(applied) + 1
    /\ cur \in LineType
    /\ lines \in Seq(LineType)
    /\ i <= Len(modeStr) => at = 1 /\ cur = BlankLine /\ lines = <<>>

-----------------------------------------------------------------------------
(* The characters and the signs.                                           *)

LEMMA FirstIsSign ==
  ASSUME TypeInv
  PROVE  Len(modeStr) \in Nat \ {0} /\ 1 \in 1 .. Len(modeStr)
  BY EmptySeq DEF TypeInv

LEMMA SignNow ==
  ASSUME NEW n \in Nat \ {0}, modeStr[n] \in {"+", "-"}
  PROVE  InForce(n) = (modeStr[n] = "+")
<1>1. n \in Signs(n) /\ \A k \in Signs(n) : k \in Nat /\ n >= k
  BY DEF Signs
<1>2. \A x \in Signs(n) : (\A y \in Signs(n) : x >= y) => x = n
  BY <1>1
<1>3. Max(Signs(n)) = n
  BY <1>1, <1>2 DEF Max
<1>4. QED
  BY <1>3 DEF InForce

LEMMA SignStays ==
  ASSUME NEW n \in Nat \ {0}, modeStr[n] \notin {"+", "-"}
  PROVE  InForce(n) = InForce(n - 1)
<1>1. Signs(n) = Signs(n - 1)
  BY DEF Signs
<1>2. QED
  BY <1>1 DEF InForce

LEMMA NeedyIs ==
  Needy = {n \in 1 .. Len(modeStr) : Takes(InForce(n), modeStr[n])}
  BY DEF Needy, InForce, Signs

-----------------------------------------------------------------------------
(* Types.                                                                  *)

LEMMA InitType == Init => TypeInv
<1> SUFFICES ASSUME Init PROVE TypeInv
  OBVIOUS
<1>1. /\ modeStr \in Seq(STRING) /\ modeStr # <<>> /\ modeStr[1] \in {"+", "-"}
      /\ kind \in {"channel", "user"}
      /\ i = 1 /\ adding = TRUE /\ paramIdx = 1 /\ applied = <<>> /\ at = 1
      /\ cur = BlankLine /\ lines = <<>>
  BY ParameterAssumption DEF Init
<1>2. params \in Seq(STRING) /\ Understood(params)
  <2>1. CASE params \in Params
    <3>1. params \in Seq(STRING)
      BY <2>1, ParameterAssumption
    <3>2. QED
      BY <2>1, <3>1, ParameterAssumption DEF Understood
  <2>2. CASE params = <<>>
    BY <2>2 DEF Understood
  <2>3. QED
    BY <2>1, <2>2 DEF Init
<1>3. Len(modeStr) \in Nat /\ Len(params) \in Nat
  BY <1>1, <1>2
<1>4. BlankLine \in LineType
  BY DEF BlankLine, LineType
<1>5. QED
  BY <1>1, <1>2, <1>3, <1>4 DEF TypeInv

(* A letter done that takes at most one parameter, and only one there is.  *)
LEMMA StepType ==
  ASSUME TypeInv, NEW taken \in {0, 1}, taken = 1 => More, NEW m, NEW a \in Seq(ChangeType),
         NEW c, Step(taken, m, a, c), i <= Len(modeStr), modeStr[i] \notin {"+", "-"}
  PROVE  TypeInv'
<1>1. /\ i' = i + 1 /\ paramIdx' = paramIdx + taken /\ applied' = applied \o a
      /\ UNCHANGED <<kind, modeStr, params, before, adding, at, cur, lines>>
  BY DEF Step, input, output
<1>2. /\ Len(modeStr) \in Nat \ {0} /\ Len(params) \in Nat /\ i \in Nat \ {0} /\ i # 1
  BY FirstIsSign, SMTT(30) DEF TypeInv
<1>3. /\ i' \in 1 .. Len(modeStr) + 1 /\ paramIdx' \in 1 .. Len(params) + 1
  BY <1>1, <1>2 DEF TypeInv, More
<1>4. applied' \in Seq(ChangeType) /\ Len(applied') \in Nat
  BY <1>1, ConcatProperties DEF TypeInv
<1>5. at = 1 /\ cur = BlankLine /\ lines = <<>>
  BY DEF TypeInv
<1>6. adding = InForce(i - 1) /\ InForce(i) = InForce(i - 1)
  BY <1>2, SignStays DEF TypeInv
<1>7. InForce(i - 1)' = InForce(i)
  <2>1. i' - 1 = i
    BY <1>1, <1>2
  <2>2. QED
    BY <1>1, <2>1 DEF InForce, Signs
<1>8. Understood(params)' /\ at' \in 1 .. Len(applied') + 1
  BY <1>1, <1>4, <1>5 DEF TypeInv, Understood
<1>9. QED
  BY <1>1, <1>3, <1>4, <1>5, <1>6, <1>7, <1>8 DEF TypeInv

LEMMA SignType ==
  ASSUME TypeInv, Sign
  PROVE  TypeInv'
<1>1. /\ i <= Len(modeStr) /\ modeStr[i] \in {"+", "-"} /\ adding' = (modeStr[i] = "+")
      /\ i' = i + 1 /\ UNCHANGED <<kind, modeStr, params, before, paramIdx, applied, at, cur, lines>>
  BY DEF Sign, At, input, output
<1>2. Len(modeStr) \in Nat /\ i \in Nat \ {0}
  BY FirstIsSign DEF TypeInv
<1>3. InForce(i - 1)' = InForce(i)
  <2>1. i' - 1 = i
    BY <1>1, <1>2
  <2>2. QED
    BY <1>1, <2>1 DEF InForce, Signs
<1>4. InForce(i) = (modeStr[i] = "+")
  BY <1>1, <1>2, SignNow
<1>5. Understood(params)' /\ i' \in 1 .. Len(modeStr) + 1 /\ adding' \in BOOLEAN
  BY <1>1, <1>2 DEF TypeInv, Understood
<1>6. QED
  BY <1>1, <1>3, <1>4, <1>5 DEF TypeInv

-----------------------------------------------------------------------------
(* What the letters of both handlers have in common.                       *)

(* The key that -k was sent with.                                          *)
Echo(x) == x.letter = "k" /\ ~x.adding /\ x.param # Empty

(* A change as it is announced: it has a parameter if it takes one, and no *)
(* other unless it is a key.                                               *)
Announced(x) ==
    /\ x \in ChangeType /\ x.letter \notin {"+", "-"}
    /\ Takes(x.adding, x.letter) => x.param # Empty
    /\ ~Takes(x.adding, x.letter) => x.param = Empty \/ Echo(x)

(* A change x that was made, and made the modes m.                         *)
Makes(x, m) == Announced(x) /\ m = ReadSet(modes, x.adding, x.letter, x.param)

(* Parameter p is in a change of the sequence a or in a complaint of c.     *)
Accounted(p, a, c) ==
    \/ \E k \in DOMAIN a :
        \/ a[k].param = p
        \/ a[k].letter = "o" /\ a[k].param = Member[p]
        \/ a[k].letter = "l" /\ a[k].adding /\ a[k].param = Render[LimitOf[p]]
    \/ \E n \in {"441", "525", "696"} : <<n, p>> \in c

Letter(taken, m, a, c) ==
    /\ i <= Len(modeStr) /\ modeStr[i] \notin {"+", "-"}
    /\ taken \in {0, 1}
    /\ \/ a = <<>> /\ m = modes
       \/ \E x : a = <<x>> /\ Makes(x, m)
    /\ taken = 1 =>
        /\ More /\ Accounted(params[paramIdx], a, c)
        /\ \/ Takes(adding, modeStr[i])
           \/ Len(params) - paramIdx + 1 > paramsRequiredFrom(i + 1, adding)
    /\ <<"461", Empty>> \in c => ~More /\ Takes(adding, modeStr[i])

LEMMA EmptyType == Empty \in STRING /\ Empty \notin ValidKey
  BY ParameterAssumption

LEMMA ChangeFields ==
  ASSUME NEW s \in BOOLEAN, NEW c \in STRING, NEW p \in STRING
  PROVE  /\ Change(s, c, p) \in ChangeType
         /\ Change(s, c, p).adding = s /\ Change(s, c, p).letter = c /\ Change(s, c, p).param = p
  BY DEF Change, ChangeType

LEMMA SetFields ==
  ASSUME NEW c \in STRING, NEW p \in STRING
  PROVE  /\ Change(TRUE, c, p) \in ChangeType /\ Change(TRUE, c, p).adding
         /\ Change(TRUE, c, p).letter = c /\ Change(TRUE, c, p).param = p
  BY DEF Change, ChangeType

LEMMA ResetFields ==
  ASSUME NEW c \in STRING, NEW p \in STRING
  PROVE  /\ Change(FALSE, c, p) \in ChangeType /\ ~Change(FALSE, c, p).adding
         /\ Change(FALSE, c, p).letter = c /\ Change(FALSE, c, p).param = p
  BY DEF Change, ChangeType

LEMMA AtType ==
  ASSUME TypeInv, i <= Len(modeStr)
  PROVE  modeStr[i] \in STRING
<1>1. i \in 1 .. Len(modeStr)
  BY DEF TypeInv
<1>2. QED
  BY <1>1 DEF TypeInv

LEMMA FlagLetter ==
  ASSUME TypeInv, NEW c \in {"i", "t", "w"}, Flag(c)
  PROVE  \E taken, m, a, d : Step(taken, m, a, d) /\ Letter(taken, m, a, d)
<1> DEFINE x == Change(adding, c, Empty)
<1>1. /\ i <= Len(modeStr) /\ modeStr[i] = c
      /\ Step(0, [modes EXCEPT ![c] = adding], <<x>>, {})
  BY DEF Flag, At
<1>2. x \in ChangeType /\ x.adding = adding /\ x.letter = c /\ x.param = Empty
  BY <1>1, AtType, EmptyType, ChangeFields DEF TypeInv
<1> HIDE DEF x
<1>3. Makes(x, [modes EXCEPT ![c] = adding])
  BY <1>2 DEF Makes, Announced, Echo, ReadSet, Takes
<1>4. Letter(0, [modes EXCEPT ![c] = adding], <<x>>, {})
  BY <1>1, <1>3 DEF Letter
<1>5. QED
  BY <1>1, <1>4

LEMMA StarvedLetter ==
  ASSUME TypeInv, Starved
  PROVE  \E taken, m, a, d : Step(taken, m, a, d) /\ Letter(taken, m, a, d)
<1>1. /\ i <= Len(modeStr) /\ ~More /\ modeStr[i] \in {"o", "k", "l"} /\ Takes(adding, modeStr[i])
      /\ Step(0, modes, <<>>, {<<"461", Empty>>})
  BY DEF Starved, At, Takes
<1>2. Letter(0, modes, <<>>, {<<"461", Empty>>})
  BY <1>1 DEF Letter
<1>3. QED
  BY <1>1, <1>2

LEMMA UnknownLetter ==
  ASSUME TypeInv, NEW known, NEW n \in {"472", "501"}, Unknown(known, n)
  PROVE  \E taken, m, a, d : Step(taken, m, a, d) /\ Letter(taken, m, a, d)
<1>1. /\ i <= Len(modeStr) /\ modeStr[i] \notin {"+", "-"}
      /\ Step(0, modes, <<>>, {<<n, modeStr[i]>>})
  BY DEF Unknown
<1>2. Letter(0, modes, <<>>, {<<n, modeStr[i]>>})
  BY <1>1 DEF Letter
<1>3. QED
  BY <1>1, <1>2

(* A parameter that is there.                                              *)
LEMMA ParameterType ==
  ASSUME TypeInv, More
  PROVE  /\ params[paramIdx] \in STRING
         /\ Member[params[paramIdx]] \in (STRING \ {Empty}) \cup {Nobody}
         /\ LimitOf[params[paramIdx]] \in Nat
         /\ LimitOf[params[paramIdx]] > 0 =>
             /\ Render[LimitOf[params[paramIdx]]] \in STRING \ {Empty}
             /\ LimitOf[Render[LimitOf[params[paramIdx]]]] = LimitOf[params[paramIdx]]
<1>1. paramIdx \in 1 .. Len(params) /\ DOMAIN params = 1 .. Len(params)
  BY DEF TypeInv, More
<1>2. QED
  BY <1>1, SMTT(30) DEF TypeInv, Understood

(* A letter that has taken a parameter and made a change, or complained.   *)
LEMMA TakenLetter ==
  ASSUME TypeInv, More, i <= Len(modeStr), modeStr[i] \in {"o", "k", "l"},
         Takes(adding, modeStr[i]), NEW m, NEW a, NEW c, <<"461", Empty>> \notin c,
         (a = <<>> /\ m = modes) \/ \E x : a = <<x>> /\ Makes(x, m),
         Accounted(params[paramIdx], a, c)
  PROVE  Letter(1, m, a, c)
  BY DEF Letter

LEMMA SetKeyLetter ==
  ASSUME TypeInv, SetKey
  PROVE  \E taken, m, a, d : Step(taken, m, a, d) /\ Letter(taken, m, a, d)
<1> DEFINE key == params[paramIdx]
           x == Change(TRUE, "k", key)
<1>1. /\ More /\ i <= Len(modeStr) /\ modeStr[i] = "k" /\ Takes(adding, modeStr[i])
      /\ key \in STRING
  BY ParameterType DEF SetKey, At, Takes
<1>2. CASE key \in ValidKey /\ Step(1, [modes EXCEPT !.k = key], <<x>>, {})
  <2>1. /\ x \in ChangeType /\ x.adding /\ x.letter = "k" /\ x.param = key
        /\ key # Empty
    BY <1>1, <1>2, AtType, EmptyType, SetFields
  <2> HIDE DEF x
  <2>2. Makes(x, [modes EXCEPT !.k = key])
    BY <2>1 DEF Makes, Announced, Echo, ReadSet, Takes
  <2>3. Accounted(key, <<x>>, {})
    BY <2>1 DEF Accounted
  <2>4. Letter(1, [modes EXCEPT !.k = key], <<x>>, {})
    BY <1>1, <2>2, <2>3, TakenLetter
  <2>5. QED
    BY <1>2, <2>4
<1>3. CASE Step(1, modes, <<>>, {<<"525", key>>})
  <2>1. Accounted(key, <<>>, {<<"525", key>>})
    BY DEF Accounted
  <2>2. Letter(1, modes, <<>>, {<<"525", key>>})
    BY <1>1, <2>1, TakenLetter
  <2>3. QED
    BY <1>3, <2>2
<1>4. QED
  BY <1>2, <1>3 DEF SetKey

LEMMA SetOperatorLetter ==
  ASSUME TypeInv, SetOperator
  PROVE  \E taken, m, a, d : Step(taken, m, a, d) /\ Letter(taken, m, a, d)
<1> DEFINE p == params[paramIdx]
           who == Member[p]
           x == Change(adding, "o", who)
           m == [modes EXCEPT !.ops = IF adding THEN @ \cup {who} ELSE @ \ {who}]
<1>1. /\ More /\ i <= Len(modeStr) /\ modeStr[i] = "o" /\ Takes(adding, modeStr[i])
      /\ who \in (STRING \ {Empty}) \cup {Nobody}
  BY ParameterType DEF SetOperator, At, Takes
<1>2. CASE who # Nobody /\ Step(1, m, <<x>>, {})
  <2>1. /\ x \in ChangeType /\ x.adding = adding /\ x.letter = "o" /\ x.param = who
        /\ who # Empty
    BY <1>1, <1>2, AtType, ChangeFields DEF TypeInv
  <2> HIDE DEF x
  <2>2. Makes(x, m)
    BY <2>1 DEF Makes, Announced, Echo, ReadSet, Takes
  <2>3. Accounted(p, <<x>>, {})
    BY <2>1 DEF Accounted
  <2>4. Letter(1, m, <<x>>, {})
    BY <1>1, <2>2, <2>3, TakenLetter
  <2>5. QED
    BY <1>2, <2>4
<1>3. CASE Step(1, modes, <<>>, {<<"441", p>>})
  <2>1. Accounted(p, <<>>, {<<"441", p>>})
    BY DEF Accounted
  <2>2. Letter(1, modes, <<>>, {<<"441", p>>})
    BY <1>1, <2>1, TakenLetter
  <2>3. QED
    BY <1>3, <2>2
<1>4. QED
  BY <1>2, <1>3 DEF SetOperator

LEMMA SetLimitLetter ==
  ASSUME TypeInv, SetLimit
  PROVE  \E taken, m, a, d : Step(taken, m, a, d) /\ Letter(taken, m, a, d)
<1> DEFINE p == params[paramIdx]
           limit == LimitOf[p]
           x == Change(TRUE, "l", Render[limit])
<1>1. /\ More /\ i <= Len(modeStr) /\ modeStr[i] = "l" /\ Takes(adding, modeStr[i])
      /\ limit > 0 => Render[limit] \in STRING \ {Empty} /\ LimitOf[Render[limit]] = limit
  BY ParameterType DEF SetLimit, At, Takes
<1>2. CASE limit > 0 /\ Step(1, [modes EXCEPT !.l = limit], <<x>>, {})
  <2>1. /\ x \in ChangeType /\ x.adding /\ x.letter = "l" /\ x.param = Render[limit]
        /\ x.param # Empty
    <3>1. Render[limit] \in STRING /\ Render[limit] # Empty /\ "l" \in STRING
      BY <1>1, <1>2, AtType
    <3>2. QED
      BY <3>1, SetFields, ZenonT(30)
  <2> HIDE DEF x
  <2>2. Makes(x, [modes EXCEPT !.l = limit])
    BY <1>1, <1>2, <2>1 DEF Makes, Announced, Echo, ReadSet, Takes
  <2>3. Accounted(p, <<x>>, {})
    BY <2>1 DEF Accounted
  <2>4. Letter(1, [modes EXCEPT !.l = limit], <<x>>, {})
    BY <1>1, <2>2, <2>3, TakenLetter
  <2>5. QED
    BY <1>2, <2>4
<1>3. CASE Step(1, modes, <<>>, {<<"696", p>>})
  <2>1. Accounted(p, <<>>, {<<"696", p>>})
    BY DEF Accounted
  <2>2. Letter(1, modes, <<>>, {<<"696", p>>})
    BY <1>1, <2>1, TakenLetter
  <2>3. QED
    BY <1>3, <2>2
<1>4. QED
  BY <1>2, <1>3 DEF SetLimit

LEMMA RemoveLimitLetter ==
  ASSUME TypeInv, RemoveLimit
  PROVE  \E taken, m, a, d : Step(taken, m, a, d) /\ Letter(taken, m, a, d)
<1> DEFINE x == Change(FALSE, "l", Empty)
<1>1. /\ i <= Len(modeStr) /\ modeStr[i] = "l"
      /\ Step(0, [modes EXCEPT !.l = 0], <<x>>, {})
  BY DEF RemoveLimit, At
<1>2. x \in ChangeType /\ ~x.adding /\ x.letter = "l" /\ x.param = Empty
  BY <1>1, AtType, EmptyType, ResetFields
<1> HIDE DEF x
<1>3. Makes(x, [modes EXCEPT !.l = 0])
  BY <1>2 DEF Makes, Announced, Echo, ReadSet, Takes
<1>4. Letter(0, [modes EXCEPT !.l = 0], <<x>>, {})
  BY <1>1, <1>3 DEF Letter
<1>5. QED
  BY <1>1, <1>4

LEMMA RemoveKeyLetter ==
  ASSUME TypeInv, RemoveKey
  PROVE  \E taken, m, a, d : Step(taken, m, a, d) /\ Letter(taken, m, a, d)
<1> DEFINE spare == More /\ Len(params) - paramIdx + 1 > paramsRequiredFrom(i + 1, adding)
           t == IF spare THEN 1 ELSE 0
           p == params[paramIdx]
           x == Change(FALSE, "k", IF spare THEN p ELSE Empty)
<1>1. /\ i <= Len(modeStr) /\ modeStr[i] = "k"
      /\ Step(t, [modes EXCEPT !.k = Empty], <<x>>, {})
  BY DEF RemoveKey, At
<1>2. /\ x \in ChangeType /\ ~x.adding /\ x.letter = "k"
      /\ spare => x.param = p
  <2> DEFINE q == IF spare THEN p ELSE Empty
  <2>1. q \in STRING /\ "k" \in STRING
    BY <1>1, AtType, EmptyType, ParameterType
  <2>2. spare => q = p
    OBVIOUS
  <2> HIDE DEF q
  <2>3. Change(FALSE, "k", q) \in ChangeType /\ ~Change(FALSE, "k", q).adding
        /\ Change(FALSE, "k", q).letter = "k" /\ Change(FALSE, "k", q).param = q
    BY <2>1, ResetFields
  <2>4. QED
    BY <2>2, <2>3 DEF q
<1> HIDE DEF x
<1>3. Makes(x, [modes EXCEPT !.k = Empty])
  BY <1>2 DEF Makes, Announced, Echo, ReadSet, Takes
<1>4. spare => Accounted(p, <<x>>, {})
  BY <1>2 DEF Accounted
<1>5. Letter(t, [modes EXCEPT !.k = Empty], <<x>>, {})
  BY <1>1, <1>3, <1>4 DEF Letter
<1>6. QED
  BY <1>1, <1>5

LEMMA Letters ==
  ASSUME TypeInv, handleChannelMode \/ handleUserMode
  PROVE  \E taken, m, a, d : Step(taken, m, a, d) /\ Letter(taken, m, a, d)
<1>1. CASE Flag("i") \/ Flag("t") \/ Flag("w")
  BY <1>1, FlagLetter
<1>2. CASE Unknown({"i", "t", "k", "o", "l"}, "472") \/ Unknown({"i", "w"}, "501")
  BY <1>2, UnknownLetter
<1>3. QED
  BY <1>1, <1>2, StarvedLetter, SetKeyLetter, RemoveKeyLetter, SetOperatorLetter,
     SetLimitLetter, RemoveLimitLetter DEF handleChannelMode, handleUserMode

-----------------------------------------------------------------------------
(* Types, concluded.                                                       *)

LEMMA GrownFields ==
  ASSUME NEW line \in LineType, NEW x \in ChangeType
  PROVE  LET new == (IF line.taken = 0 \/ x.adding # line.sign
                     THEN <<IF x.adding THEN "+" ELSE "-">> ELSE <<>>) \o <<x.letter>>
             more == IF x.param = Empty THEN <<>> ELSE <<x.param>>
         IN  /\ Grown(line, x) \in LineType
             /\ new \in Seq(STRING \cup {"+", "-"}) /\ more \in Seq(STRING)
             /\ Grown(line, x).modes = line.modes \o new
             /\ Grown(line, x).params = line.params \o more
             /\ Grown(line, x).sign = x.adding
             /\ Grown(line, x).taken = line.taken + 1
<1> DEFINE C == STRING \cup {"+", "-"}
           s == IF line.taken = 0 \/ x.adding # line.sign
                THEN <<IF x.adding THEN "+" ELSE "-">> ELSE <<>>
           new == s \o <<x.letter>>
           more == IF x.param = Empty THEN <<>> ELSE <<x.param>>
<1>1. /\ line.modes \in Seq(C) /\ line.params \in Seq(STRING) /\ line.taken \in Nat
      /\ x.adding \in BOOLEAN /\ x.letter \in C /\ x.param \in STRING
  BY DEF LineType, ChangeType
<1>2. s \in Seq(C) /\ <<x.letter>> \in Seq(C) /\ more \in Seq(STRING)
  <2>1. <<"+">> \in Seq(C) /\ <<"-">> \in Seq(C) /\ <<>> \in Seq(C) /\ <<x.letter>> \in Seq(C)
    BY <1>1
  <2>2. <<x.param>> \in Seq(STRING) /\ <<>> \in Seq(STRING)
    BY <1>1
  <2>3. s \in {<<"+">>, <<"-">>, <<>>} /\ more \in {<<x.param>>, <<>>}
    OBVIOUS
  <2>4. QED
    BY <2>1, <2>2, <2>3
<1> HIDE DEF s, more, C
<1>3. new \in Seq(C) /\ (line.modes \o s) \o <<x.letter>> = line.modes \o new
  <2>1. s \o <<x.letter>> \in Seq(C)
    BY <1>2, ConcatProperties
  <2>2. (line.modes \o s) \o <<x.letter>> = line.modes \o (s \o <<x.letter>>)
    <3> DEFINE k == line.modes
               l == <<x.letter>>
    <3>1. k \in Seq(C) /\ s \in Seq(C) /\ l \in Seq(C)
      BY <1>1, <1>2
    <3> HIDE DEF k, l
    <3>2. (k \o s) \o l = k \o (s \o l)
      BY <3>1, ConcatAssociative
    <3>3. QED
      BY <3>2 DEF k, l
  <2>3. QED
    BY <2>1, <2>2
<1>4. line.modes \o new \in Seq(C) /\ line.params \o more \in Seq(STRING)
  BY <1>1, <1>2, <1>3, ConcatProperties
<1> HIDE DEF new
<1>5. Grown(line, x) = [modes |-> line.modes \o new, params |-> line.params \o more,
                        sign |-> x.adding, taken |-> line.taken + 1]
  BY <1>3 DEF Grown, s, more
<1>6. QED
  BY <1>1, <1>2, <1>3, <1>4, <1>5, SMTT(30) DEF LineType, new, s, more, C

LEMMA LetterType ==
  ASSUME TypeInv, NEW taken, NEW m, NEW a, NEW c, Step(taken, m, a, c), Letter(taken, m, a, c)
  PROVE  TypeInv' /\ a \in Seq(ChangeType)
<1>1. a \in Seq(ChangeType)
  <2>1. CASE a = <<>>
    BY <2>1
  <2>2. CASE \E x : a = <<x>> /\ x \in ChangeType
    BY <2>2
  <2>3. QED
    BY <2>1, <2>2 DEF Letter, Makes, Announced
<1>2. QED
  BY <1>1, StepType DEF Letter

(* A step of renderModeLines.                                              *)
LEMMA RenderType ==
  ASSUME TypeInv, i > Len(modeStr),
         UNCHANGED <<input, modes, i, adding, paramIdx, applied, reported>>,
         at' \in 1 .. Len(applied) + 1, cur' \in LineType, lines' \in Seq(LineType)
  PROVE  TypeInv'
<1>1. UNCHANGED <<kind, modeStr, params, before, i, adding, paramIdx, applied>>
  BY DEF input
<1>2. Understood(params)' /\ InForce(i - 1)' = InForce(i - 1) /\ Len(modeStr) \in Nat
  BY <1>1 DEF TypeInv, Understood, InForce, Signs
<1>3. ~(i' <= Len(modeStr)')
  BY <1>1, <1>2 DEF TypeInv
<1>4. QED
  BY <1>1, <1>2, <1>3 DEF TypeInv

LEMMA TakeType ==
  ASSUME TypeInv, TakeChange
  PROVE  /\ TypeInv' /\ at \in 1 .. Len(applied) /\ applied[at] \in ChangeType
         /\ cur' = Grown(cur, applied[at]) /\ cur'.taken = cur.taken + 1
<1>1. /\ i > Len(modeStr) /\ at' = at + 1 /\ cur' = Grown(cur, applied[at]) /\ UNCHANGED lines
      /\ UNCHANGED <<input, modes, i, adding, paramIdx, applied, reported>>
      /\ at \in 1 .. Len(applied)
  BY DEF TakeChange, Rendering, TypeInv
<1>2. applied[at] \in ChangeType
  BY <1>1 DEF TypeInv
<1>3. cur' \in LineType /\ cur'.taken = cur.taken + 1
  BY <1>1, <1>2, GrownFields DEF TypeInv
<1>4. lines' \in Seq(LineType) /\ at' \in 1 .. Len(applied) + 1
  BY <1>1 DEF TypeInv
<1>5. QED
  BY <1>1, <1>2, <1>3, <1>4, RenderType

LEMMA BreakType ==
  ASSUME TypeInv, BreakLine \/ LastLine
  PROVE  TypeInv' /\ lines' = Append(lines, cur) /\ cur' = BlankLine /\ UNCHANGED at
<1>1. /\ i > Len(modeStr) /\ lines' = Append(lines, cur) /\ cur' = BlankLine /\ UNCHANGED at
      /\ UNCHANGED <<input, modes, i, adding, paramIdx, applied, reported>>
  BY DEF BreakLine, LastLine, Rendering
<1>2. BlankLine \in LineType
  BY DEF BlankLine, LineType
<1>3. lines' \in Seq(LineType) /\ at' \in 1 .. Len(applied) + 1 /\ cur' \in LineType
  BY <1>1, <1>2, AppendProperties DEF TypeInv
<1>4. QED
  BY <1>1, <1>3, RenderType

LEMMA StutterType ==
  ASSUME TypeInv, UNCHANGED vars
  PROVE  TypeInv'
<1>1. UNCHANGED <<kind, modeStr, params, i, adding, paramIdx, applied, at, cur, lines>>
  BY DEF vars
<1>2. Understood(params)' /\ InForce(i - 1)' = InForce(i - 1)
  BY <1>1 DEF TypeInv, Understood, InForce, Signs
<1>3. QED
  BY <1>1, <1>2 DEF TypeInv

-----------------------------------------------------------------------------
(* Lines.                                                                  *)

FitInv == LinesFit /\ (cur.taken > 1 => Width(cur) <= Budget)

LEMMA WidthSame == UNCHANGED cur => Width(cur)' = Width(cur)
  OBVIOUS

LEMMA FitKept ==
  ASSUME TypeInv, FitInv, UNCHANGED <<cur, lines>>
  PROVE  FitInv'
  BY WidthSame DEF FitInv, LinesFit

LEMMA FitNext ==
  ASSUME TypeInv, FitInv, [Next]_vars
  PROVE  FitInv'
<1>1. CASE Sign
  BY <1>1, FitKept DEF Sign, output
<1>2. CASE handleChannelMode \/ handleUserMode
  BY <1>2, Letters, FitKept DEF Step, output
<1>3. CASE TakeChange
  <2>1. cur.taken \in Nat /\ cur' = Grown(cur, applied[at]) /\ cur'.taken = cur.taken + 1
    BY <1>3, TakeType DEF TypeInv, LineType
  <2>2. cur'.taken > 1 => Width(Grown(cur, applied[at])) <= Budget
    BY <1>3, <2>1 DEF TakeChange, FitsOn
  <2>3. LinesFit'
    BY <1>3 DEF TakeChange, FitInv, LinesFit
  <2>4. QED
    BY <2>1, <2>2, <2>3 DEF FitInv
<1>4. CASE BreakLine \/ LastLine
  <2>1. lines' = Append(lines, cur) /\ cur' = BlankLine /\ lines \in Seq(LineType) /\ cur \in LineType
    BY <1>4, BreakType DEF TypeInv
  <2>2. \A n \in DOMAIN lines' : lines'[n] = cur \/ (n \in DOMAIN lines /\ lines'[n] = lines[n])
    <3>1. /\ Append(lines, cur) \in Seq(LineType) /\ Len(Append(lines, cur)) = Len(lines) + 1
          /\ \A n \in 1 .. Len(lines) : Append(lines, cur)[n] = lines[n]
          /\ Append(lines, cur)[Len(lines) + 1] = cur
      BY <2>1, AppendProperties
    <3>2. /\ DOMAIN lines = 1 .. Len(lines) /\ Len(lines) \in Nat
          /\ DOMAIN lines' = 1 .. Len(lines) + 1
      BY <2>1, <3>1, LenProperties
    <3>3. ASSUME NEW n \in DOMAIN lines'
          PROVE  lines'[n] = cur \/ (n \in DOMAIN lines /\ lines'[n] = lines[n])
      <4>1. n = Len(lines) + 1 \/ n \in 1 .. Len(lines)
        BY <3>2
      <4>2. QED
        BY <2>1, <3>1, <3>2, <4>1
    <3>4. QED
      BY <3>3
  <2>3. \A n \in DOMAIN lines' : lines'[n].taken > 1 => Width(lines'[n]) <= Budget
    BY <2>2 DEF FitInv, LinesFit
  <2>4. ~(cur'.taken > 1)
    BY <2>1 DEF BlankLine
  <2>5. QED
    BY <2>3, <2>4 DEF FitInv, LinesFit
<1>5. CASE UNCHANGED vars
  BY <1>5, FitKept DEF vars
<1>6. QED
  BY <1>1, <1>2, <1>3, <1>4, <1>5 DEF Next

-----------------------------------------------------------------------------
(* Parameters.                                                             *)

LEMMA VanishesIs ==
  ASSUME applied \in Seq(ChangeType)
  PROVE  NoParameterVanishes <=>
            \A n \in 1 .. paramIdx - 1 : Accounted(params[n], applied, reported)
  BY DEF NoParameterVanishes, Accounted, Range

(* What is accounted for stays so as more changes and complaints are made. *)
LEMMA AccountedStays ==
  ASSUME NEW p, NEW a \in Seq(ChangeType), NEW b \in Seq(ChangeType), NEW c, NEW d
  PROVE  Accounted(p, a, c) \/ Accounted(p, b, d) => Accounted(p, a \o b, c \cup d)
<1>1. /\ a \o b \in Seq(ChangeType) /\ Len(a \o b) = Len(a) + Len(b)
      /\ Len(a) \in Nat /\ Len(b) \in Nat
      /\ \A k \in 1 .. Len(a) + Len(b) :
            (a \o b)[k] = IF k <= Len(a) THEN a[k] ELSE b[k - Len(a)]
  BY ConcatProperties
<1>2. DOMAIN a = 1 .. Len(a) /\ DOMAIN b = 1 .. Len(b) /\ DOMAIN (a \o b) = 1 .. Len(a) + Len(b)
  BY <1>1
<1>3. ASSUME NEW k \in DOMAIN a
      PROVE  k \in DOMAIN (a \o b) /\ (a \o b)[k] = a[k]
  BY <1>1, <1>2
<1>4. ASSUME NEW k \in DOMAIN b
      PROVE  Len(a) + k \in DOMAIN (a \o b) /\ (a \o b)[Len(a) + k] = b[k]
  BY <1>1, <1>2
<1>5. ASSUME Accounted(p, a, c)
      PROVE  Accounted(p, a \o b, c \cup d)
  <2>1. CASE \E k \in DOMAIN a :
                \/ a[k].param = p
                \/ a[k].letter = "o" /\ a[k].param = Member[p]
                \/ a[k].letter = "l" /\ a[k].adding /\ a[k].param = Render[LimitOf[p]]
    BY <1>3, <2>1 DEF Accounted
  <2>2. CASE \E n \in {"441", "525", "696"} : <<n, p>> \in c
    BY <2>2 DEF Accounted
  <2>3. QED
    BY <1>5, <2>1, <2>2 DEF Accounted
<1>6. ASSUME Accounted(p, b, d)
      PROVE  Accounted(p, a \o b, c \cup d)
  <2>1. CASE \E k \in DOMAIN b :
                \/ b[k].param = p
                \/ b[k].letter = "o" /\ b[k].param = Member[p]
                \/ b[k].letter = "l" /\ b[k].adding /\ b[k].param = Render[LimitOf[p]]
    BY <1>4, <2>1 DEF Accounted
  <2>2. CASE \E n \in {"441", "525", "696"} : <<n, p>> \in d
    BY <2>2 DEF Accounted
  <2>3. QED
    BY <1>6, <2>1, <2>2 DEF Accounted
<1>7. QED
  BY <1>5, <1>6

LEMMA VanishesNext ==
  ASSUME TypeInv, NoParameterVanishes, [Next]_vars
  PROVE  NoParameterVanishes'
<1>1. CASE UNCHANGED <<params, paramIdx, applied, reported>>
  BY <1>1 DEF NoParameterVanishes, Range
<1>2. CASE handleChannelMode \/ handleUserMode
  <2>1. PICK taken, m, a, c : Step(taken, m, a, c) /\ Letter(taken, m, a, c)
    BY <1>2, Letters
  <2>2. a \in Seq(ChangeType) /\ TypeInv'
    BY <2>1, LetterType
  <2>3. /\ applied \in Seq(ChangeType) /\ applied' \in Seq(ChangeType)
        /\ paramIdx \in Nat \ {0}
    BY <2>2 DEF TypeInv
  <2>4. /\ paramIdx' = paramIdx + taken /\ applied' = applied \o a
        /\ reported' = reported \cup c /\ params' = params
    BY <2>1 DEF Step, input
  <2>5. ASSUME NEW n \in 1 .. paramIdx' - 1
        PROVE  Accounted(params[n], applied \o a, reported \cup c)
    <3>1. taken \in {0, 1}
      BY <2>1 DEF Letter
    <3>2. CASE n \in 1 .. paramIdx - 1
      <4>1. Accounted(params[n], applied, reported)
        BY <2>3, <3>2, VanishesIs
      <4>2. QED
        BY <2>2, <2>3, <4>1, AccountedStays
    <3>3. CASE n = paramIdx /\ taken = 1
      <4>1. Accounted(params[n], a, c)
        BY <2>1, <3>3 DEF Letter
      <4>2. QED
        BY <2>2, <2>3, <4>1, AccountedStays
    <3>4. QED
      BY <2>3, <2>4, <3>1, <3>2, <3>3
  <2>6. \A n \in 1 .. paramIdx' - 1 : Accounted(params[n], applied, reported)'
    BY <2>4, <2>5 DEF Accounted
  <2>7. QED
    BY <2>3, <2>6 DEF NoParameterVanishes, Accounted, Range
<1>3. QED
  BY <1>1, <1>2 DEF Next, Sign, TakeChange, BreakLine, LastLine, vars, input

(* The letters from character n on that need a parameter.                  *)
NeedyFrom(n) == {k \in Needy : k >= n}

LEMMA NeedyFinite ==
  ASSUME TypeInv, NEW T \in SUBSET Needy
  PROVE  IsFiniteSet(T) /\ Cardinality(T) \in Nat
<1>1. Needy \subseteq 1 .. Len(modeStr) /\ Len(modeStr) \in Nat
  BY NeedyIs DEF TypeInv
<1>2. IsFiniteSet(1 .. Len(modeStr))
  BY <1>1, FS_Interval
<1>3. IsFiniteSet(T)
  BY <1>1, <1>2, FS_Subset
<1>4. QED
  BY <1>3, FS_CardinalityType

LEMMA NeedySplit ==
  ASSUME TypeInv, NEW n \in 1 .. Len(modeStr)
  PROVE  Cardinality(NeedyFrom(n)) =
            IF n \in Needy THEN Cardinality(NeedyFrom(n + 1)) + 1
            ELSE Cardinality(NeedyFrom(n + 1))
<1>1. n \in Nat /\ \A k \in Needy : k \in Nat
  BY NeedyIs DEF TypeInv
<1> HIDE DEF Needy
<1>2. NeedyFrom(n + 1) \in SUBSET Needy /\ n \notin NeedyFrom(n + 1)
  BY <1>1 DEF NeedyFrom
<1>3. IsFiniteSet(NeedyFrom(n + 1))
  BY <1>2, NeedyFinite
<1>4. CASE n \in Needy
  <2>1. NeedyFrom(n) = NeedyFrom(n + 1) \cup {n}
    <3>1. \A k \in Needy : k >= n <=> k >= n + 1 \/ k = n
      BY <1>1
    <3>2. QED
      BY <1>4, <3>1 DEF NeedyFrom
  <2>2. QED
    BY <1>2, <1>3, <1>4, <2>1, FS_AddElement
<1>5. CASE n \notin Needy
  <2>1. NeedyFrom(n) = NeedyFrom(n + 1)
    BY <1>1, <1>5 DEF NeedyFrom
  <2>2. QED
    BY <1>5, <2>1
<1>6. QED
  BY <1>4, <1>5

(* paramsRequiredFrom counts the needy letters from there on.              *)
LEMMA RequiredCounts ==
  ASSUME TypeInv, NEW from \in 2 .. Len(modeStr) + 1, NEW sign \in BOOLEAN,
         sign = InForce(from - 1)
  PROVE  paramsRequiredFrom(from, sign) = Cardinality(NeedyFrom(from))
<1> DEFINE L == Len(modeStr)
           P(n) == {k \in Needy : from <= k /\ k <= n}
           h == [n \in 0 .. L |-> [need |-> Cardinality(P(n)),
                                   adding |-> IF n < from THEN sign ELSE InForce(n)]]
           Go(f) == [n \in 0 .. L |-> IF n < from THEN [need |-> 0, adding |-> sign]
                                      ELSE Count(f[n - 1], modeStr[n])]
           c == CHOOSE f : f = Go(f)
<1>1. L \in Nat /\ (\A k \in Needy : k \in 1 .. L) /\ from \in Nat /\ from - 1 \in Nat
  BY NeedyIs DEF TypeInv
<1>2. ASSUME NEW n \in 0 .. L, n < from
      PROVE  h[n] = [need |-> 0, adding |-> sign]
  <2>1. P(n) = {}
    BY <1>1, <1>2
  <2>2. Cardinality(P(n)) = 0
    BY <2>1, FS_EmptySet
  <2>3. QED
    BY <1>2, <2>2
<1>3. ASSUME NEW n \in 0 .. L, ~(n < from)
      PROVE  h[n] = Count(h[n - 1], modeStr[n])
  <2>1. n \in 1 .. L /\ n - 1 \in 0 .. L /\ n \in Nat \ {0} /\ n - 1 \in Nat
    BY <1>1, <1>3
  <2>2. h[n] = [need |-> Cardinality(P(n)), adding |-> InForce(n)]
    BY <1>3
  <2>3. h[n - 1] = [need |-> Cardinality(P(n - 1)), adding |-> InForce(n - 1)]
    BY <1>1, <1>3, <2>1
  <2>4. P(n - 1) \in SUBSET Needy /\ n \notin P(n - 1)
    BY <1>1, <2>1
  <2>5. IsFiniteSet(P(n - 1)) /\ Cardinality(P(n - 1)) \in Nat
    BY <2>4, NeedyFinite
  <2>6. InForce(n) \in BOOLEAN /\ InForce(n - 1) \in BOOLEAN
    BY DEF InForce
  <2>7. n \in Needy <=> Takes(InForce(n), modeStr[n])
    BY <2>1, NeedyIs
  <2>8. n \in Needy => Cardinality(P(n)) = Cardinality(P(n - 1)) + 1
    <3>1. ASSUME n \in Needy
          PROVE  P(n) = P(n - 1) \cup {n}
      <4>1. \A k \in Needy : k <= n <=> k <= n - 1 \/ k = n
        BY <1>1, <2>1
      <4>2. from <= n
        BY <1>1, <1>3, <2>1
      <4>3. QED
        BY <3>1, <4>1, <4>2
    <3>2. QED
      <4> HIDE DEF P
      <4>1. Cardinality(P(n - 1) \cup {n}) = Cardinality(P(n - 1)) + 1
        BY <2>4, <2>5, FS_AddElement
      <4>2. QED
        BY <3>1, <4>1
  <2>9. n \notin Needy => P(n) = P(n - 1)
    BY <1>1, <2>1
  <2> HIDE DEF h, P
  <2>10. CASE modeStr[n] \in {"+", "-"}
    <3>1. InForce(n) = (modeStr[n] = "+") /\ n \notin Needy
      BY <2>1, <2>7, <2>10, SignNow DEF Takes
    <3>2. Count(h[n - 1], modeStr[n]) = [h[n - 1] EXCEPT !.adding = (modeStr[n] = "+")]
      BY <2>10 DEF Count
    <3>3. QED
      BY <2>2, <2>3, <2>9, <3>1, <3>2
  <2>11. CASE modeStr[n] \notin {"+", "-"}
    <3>1. InForce(n) = InForce(n - 1)
      BY <2>1, <2>11, SignStays
    <3>2. CASE n \in Needy
      <4>1. Count(h[n - 1], modeStr[n]) = [h[n - 1] EXCEPT !.need = @ + 1]
        BY <2>3, <2>6, <2>7, <2>11, <3>1, <3>2 DEF Count, Takes
      <4>2. QED
        BY <2>2, <2>3, <2>8, <3>1, <3>2, <4>1
    <3>3. CASE n \notin Needy
      <4>1. Count(h[n - 1], modeStr[n]) = h[n - 1]
        BY <2>3, <2>6, <2>7, <2>11, <3>1, <3>3 DEF Count, Takes
      <4>2. QED
        BY <2>2, <2>3, <2>9, <3>1, <3>3, <4>1
    <3>4. QED
      BY <3>2, <3>3
  <2>12. QED
    BY <2>10, <2>11
<1> HIDE DEF h
<1>4. h = [n \in 0 .. L |-> h[n]]
  BY DEF h
<1>5. h = Go(h)
  BY <1>2, <1>3, <1>4
<1>6. c = Go(c)
  BY <1>5
<1> HIDE DEF c
<1>7. c[0] = h[0]
  <2>1. 0 \in 0 .. L /\ 0 < from
    BY <1>1
  <2>2. c[0] = [need |-> 0, adding |-> sign]
    BY <1>6, <2>1
  <2>3. QED
    BY <1>2, <2>1, <2>2
<1>8. ASSUME NEW n \in 1 .. L, c[n - 1] = h[n - 1]
      PROVE  c[n] = h[n]
  <2>1. n \in 0 .. L
    BY <1>1
  <2>2. c[n] = IF n < from THEN [need |-> 0, adding |-> sign] ELSE Count(c[n - 1], modeStr[n])
    BY <1>6, <2>1
  <2>3. h[n] = IF n < from THEN [need |-> 0, adding |-> sign] ELSE Count(h[n - 1], modeStr[n])
    BY <1>5, <2>1
  <2>4. QED
    BY <1>8, <2>2, <2>3
<1>9. c[L] = h[L]
  <2>1. \A n \in 1 .. L : c[n - 1] = h[n - 1] => c[n] = h[n]
    BY <1>8
  <2>2. L \in Nat
    BY <1>1
  <2> HIDE DEF L, Go, P
  <2>3. \A n \in 0 .. L : c[n] = h[n]
    BY <1>7, <2>1, <2>2, SameSteps
  <2>4. QED
    BY <2>2, <2>3
<1>10. paramsRequiredFrom(from, sign) = c[L].need
  BY DEF paramsRequiredFrom, c
<1>11. P(L) = NeedyFrom(from)
  BY <1>1 DEF NeedyFrom
<1>12. h[L].need = Cardinality(P(L))
  BY <1>1 DEF h
<1>13. QED
  BY <1>9, <1>10, <1>11, <1>12

(* If there were parameters enough, there still are for the letters left.  *)
StarveInv ==
    /\ NobodyStarves
    /\ Cardinality(Needy) <= Len(params) =>
            Cardinality(NeedyFrom(i)) <= Len(params) - paramIdx + 1

LEMMA NeedySame ==
  ASSUME UNCHANGED <<modeStr>>
  PROVE  Needy' = Needy /\ \A n : NeedyFrom(n)' = NeedyFrom(n)
<1>1. Needy' = Needy
  BY DEF Needy
<1>2. QED
  BY <1>1 DEF NeedyFrom

LEMMA StarveKept ==
  ASSUME TypeInv, StarveInv, UNCHANGED <<modeStr, params, paramIdx, reported, i>>
  PROVE  StarveInv'
<1>1. Needy' = Needy /\ NeedyFrom(i)' = NeedyFrom(i)
  BY NeedySame DEF NeedyFrom
<1>2. QED
  BY <1>1 DEF StarveInv, NobodyStarves

LEMMA StarveNext ==
  ASSUME TypeInv, StarveInv, [Next]_vars
  PROVE  StarveInv'
<1> DEFINE left == Len(params) - paramIdx + 1
<1>1. /\ Len(modeStr) \in Nat /\ Len(params) \in Nat /\ i \in Nat \ {0}
      /\ paramIdx \in Nat /\ left \in Nat /\ i \in 1 .. Len(modeStr) + 1
  BY DEF TypeInv
<1>2. /\ Cardinality(Needy) \in Nat
      /\ Cardinality(NeedyFrom(i)) \in Nat /\ Cardinality(NeedyFrom(i + 1)) \in Nat
  BY NeedyFinite DEF NeedyFrom
<1>3. ASSUME i <= Len(modeStr), i' = i + 1, UNCHANGED <<modeStr, params>>,
             <<"461", Empty>> \in reported' =>
                <<"461", Empty>> \in reported \/ Len(params) < Cardinality(Needy),
             Cardinality(Needy) <= Len(params) =>
                Cardinality(NeedyFrom(i + 1)) <= Len(params) - paramIdx' + 1
      PROVE  StarveInv'
  <2>1. Needy' = Needy /\ NeedyFrom(i)' = NeedyFrom(i + 1)
    BY <1>3, NeedySame DEF NeedyFrom
  <2>2. QED
    BY <1>3, <2>1 DEF StarveInv, NobodyStarves
<1>4. CASE Sign
  <2>1. /\ i <= Len(modeStr) /\ modeStr[i] \in {"+", "-"} /\ i' = i + 1
        /\ UNCHANGED <<modeStr, params, paramIdx, reported>>
    BY <1>4 DEF Sign, At, input
  <2>2. i \in 1 .. Len(modeStr) /\ i \notin Needy
    BY <1>1, <2>1, NeedyIs DEF Takes
  <2>3. Cardinality(NeedyFrom(i)) = Cardinality(NeedyFrom(i + 1))
    BY <2>2, NeedySplit
  <2>4. QED
    BY <1>3, <2>1, <2>3 DEF StarveInv
<1>5. CASE handleChannelMode \/ handleUserMode
  <2>1. PICK taken, m, a, c : Step(taken, m, a, c) /\ Letter(taken, m, a, c)
    BY <1>5, Letters
  <2>2. /\ i' = i + 1 /\ paramIdx' = paramIdx + taken /\ reported' = reported \cup c
        /\ UNCHANGED <<modeStr, params>>
    BY <2>1 DEF Step, input
  <2>3. /\ i <= Len(modeStr) /\ modeStr[i] \notin {"+", "-"} /\ taken \in {0, 1}
        /\ taken = 1 => More
        /\ taken = 1 => Takes(adding, modeStr[i]) \/ left > paramsRequiredFrom(i + 1, adding)
        /\ <<"461", Empty>> \in c => ~More /\ Takes(adding, modeStr[i])
    BY <2>1 DEF Letter
  <2>4. i # 1 /\ adding = InForce(i - 1) /\ adding \in BOOLEAN /\ InForce(i) = InForce(i - 1)
    BY <1>1, <2>3, SignStays DEF TypeInv
  <2>5. i \in 1 .. Len(modeStr) /\ (i \in Needy <=> Takes(adding, modeStr[i]))
    BY <1>1, <2>3, <2>4, NeedyIs
  <2>6. Cardinality(NeedyFrom(i)) = IF i \in Needy THEN Cardinality(NeedyFrom(i + 1)) + 1
                                    ELSE Cardinality(NeedyFrom(i + 1))
    BY <2>5, NeedySplit
  <2>7. paramsRequiredFrom(i + 1, adding) = Cardinality(NeedyFrom(i + 1))
    <3>1. i + 1 \in 2 .. Len(modeStr) + 1 /\ (i + 1) - 1 = i
      BY <1>1, <2>3, <2>4
    <3>2. QED
      BY <2>4, <3>1, RequiredCounts
  <2>8. Cardinality(Needy) <= Len(params) =>
            Cardinality(NeedyFrom(i + 1)) <= Len(params) - paramIdx' + 1
    BY <1>1, <1>2, <2>2, <2>3, <2>5, <2>6, <2>7 DEF StarveInv
  <2>9. <<"461", Empty>> \in c => Len(params) < Cardinality(Needy)
    <3>1. ~More => left = 0
      BY <1>1 DEF More
    <3>2. QED
      BY <1>1, <1>2, <2>3, <2>5, <2>6, <3>1 DEF StarveInv
  <2>10. QED
    BY <1>3, <2>2, <2>3, <2>8, <2>9
<1>6. CASE UNCHANGED <<modeStr, params, paramIdx, reported, i>>
  BY <1>6, StarveKept
<1>7. QED
  BY <1>4, <1>5, <1>6 DEF Next, TakeChange, BreakLine, LastLine, vars, input

LEMMA TypeNext ==
  ASSUME TypeInv, [Next]_vars
  PROVE  TypeInv'
<1>1. CASE handleChannelMode \/ handleUserMode
  BY <1>1, Letters, LetterType
<1>2. QED
  BY <1>1, SignType, TakeType, BreakType, StutterType DEF Next

LEMMA InitRest == Init => FitInv /\ NoParameterVanishes /\ StarveInv
<1> SUFFICES ASSUME Init
             PROVE  FitInv /\ NoParameterVanishes /\ StarveInv
  OBVIOUS
<1>1. /\ i = 1 /\ paramIdx = 1 /\ applied = <<>> /\ reported = {} /\ cur = BlankLine
      /\ lines = <<>>
  BY DEF Init
<1>2. FitInv
  BY <1>1 DEF FitInv, LinesFit, BlankLine
<1>3. NoParameterVanishes
  BY <1>1 DEF NoParameterVanishes
<1>4. NeedyFrom(i) = Needy /\ Len(params) \in Nat
  <2>1. TypeInv
    BY InitType
  <2>2. \A k \in Needy : k >= 1
    BY <2>1, NeedyIs DEF TypeInv
  <2>3. QED
    BY <1>1, <2>1, <2>2 DEF NeedyFrom, TypeInv
<1>5. StarveInv
  BY <1>1, <1>4 DEF StarveInv, NobodyStarves
<1>6. QED
  BY <1>2, <1>3, <1>5

-----------------------------------------------------------------------------
(* Reading.                                                                *)

Start(m) == [modes |-> m, sign |-> TRUE, next |-> 1]

Reader(r) ==
    /\ r = [modes |-> r.modes, sign |-> r.sign, next |-> r.next]
    /\ r.sign \in BOOLEAN /\ r.next \in Nat \ {0}

(* Character c finds a parameter among the first n if it takes one.        *)
Supplied(r, c, n) == c \notin {"+", "-"} /\ Takes(r.sign, c) => r.next <= n

(* h are the states of a reader that starts with the modes m on the        *)
(* characters cs and the parameters ps, and lacks none.                    *)
Reads(h, m, cs, ps) ==
    /\ h[0] = Start(m)
    /\ \A n \in 0 .. Len(cs) : Reader(h[n])
    /\ \A n \in 1 .. Len(cs) :
        /\ h[n] = ReadChar(h[n - 1], cs[n], ps)
        /\ Supplied(h[n - 1], cs[n], Len(ps))

Char == STRING \cup {"+", "-"}

LEMMA ReaderStart == \A m : Reader(Start(m))
  BY DEF Reader, Start

LEMMA ReaderStep ==
  ASSUME NEW r, Reader(r), NEW c, NEW ps
  PROVE  Reader(ReadChar(r, c, ps))
<1> DEFINE q == ReadChar(r, c, ps)
<1>1. r.sign \in BOOLEAN /\ r.next \in Nat \ {0}
      /\ r = [modes |-> r.modes, sign |-> r.sign, next |-> r.next]
  BY DEF Reader
<1>2. CASE c \in {"+", "-"}
  <2>1. q = [r EXCEPT !.sign = (c = "+")]
    BY <1>2 DEF ReadChar
  <2>2. q = [modes |-> r.modes, sign |-> (c = "+"), next |-> r.next]
    BY <1>1, <2>1
  <2>3. QED
    BY <1>1, <2>2 DEF Reader
<1>3. CASE c \notin {"+", "-"} /\ Takes(r.sign, c)
  <2> DEFINE m == ReadSet(r.modes, r.sign, c, ps[r.next])
  <2>1. q = IF r.next > Len(ps) THEN r ELSE [r EXCEPT !.modes = m, !.next = @ + 1]
    BY <1>3 DEF ReadChar
  <2> HIDE DEF m
  <2>2. q = r \/ q = [modes |-> m, sign |-> r.sign, next |-> r.next + 1]
    BY <1>1, <2>1
  <2>3. QED
    BY <1>1, <2>2 DEF Reader
<1>4. CASE c \notin {"+", "-"} /\ ~Takes(r.sign, c)
  <2> DEFINE m == ReadSet(r.modes, r.sign, c, Empty)
  <2>1. q = [r EXCEPT !.modes = m]
    BY <1>4 DEF ReadChar
  <2> HIDE DEF m
  <2>2. q = [modes |-> m, sign |-> r.sign, next |-> r.next]
    BY <1>1, <2>1
  <2>3. QED
    BY <1>1, <2>2 DEF Reader
<1>5. QED
  BY <1>2, <1>3, <1>4

LEMMA NothingRead ==
  ASSUME NEW m, NEW ps
  PROVE  Reads([n \in 0 .. 0 |-> Start(m)], m, <<>>, ps)
<1>1. Len(<<>>) = 0
  OBVIOUS
<1>2. QED
  BY <1>1, ReaderStart DEF Reads

(* Parameters added at the end change nothing of what was read.            *)
LEMMA MoreParameters ==
  ASSUME NEW h, NEW m, NEW cs \in Seq(Char), NEW ps \in Seq(STRING), NEW qs \in Seq(STRING),
         Reads(h, m, cs, ps)
  PROVE  Reads(h, m, cs, ps \o qs)
<1>1. /\ Len(ps) \in Nat /\ Len(qs) \in Nat /\ Len(ps \o qs) = Len(ps) + Len(qs)
      /\ \A k \in 1 .. Len(ps) : (ps \o qs)[k] = ps[k]
  BY ConcatProperties
<1>2. ASSUME NEW n \in 1 .. Len(cs)
      PROVE  /\ h[n] = ReadChar(h[n - 1], cs[n], ps \o qs)
             /\ Supplied(h[n - 1], cs[n], Len(ps \o qs))
  <2> DEFINE r == h[n - 1]
             c == cs[n]
  <2>1. h[n] = ReadChar(r, c, ps) /\ Supplied(r, c, Len(ps))
    BY DEF Reads
  <2>2. n - 1 \in 0 .. Len(cs)
    OBVIOUS
  <2>3. r.next \in Nat \ {0}
    BY <2>2 DEF Reads, Reader
  <2> HIDE DEF r, c
  <2>4. Supplied(r, c, Len(ps \o qs))
    BY <1>1, <2>1, <2>3 DEF Supplied
  <2>5. ReadChar(r, c, ps \o qs) = ReadChar(r, c, ps)
    <3>1. CASE c \notin {"+", "-"} /\ Takes(r.sign, c)
      <4>1. r.next \in 1 .. Len(ps) /\ ~(r.next > Len(ps)) /\ ~(r.next > Len(ps \o qs))
        BY <1>1, <2>1, <2>3, <3>1 DEF Supplied
      <4>2. (ps \o qs)[r.next] = ps[r.next]
        BY <1>1, <4>1
      <4>3. QED
        BY <3>1, <4>1, <4>2 DEF ReadChar
    <3>2. CASE c \in {"+", "-"} \/ ~Takes(r.sign, c)
      BY <3>2 DEF ReadChar
    <3>3. QED
      BY <3>1, <3>2
  <2>6. QED
    BY <2>1, <2>4, <2>5 DEF r, c
<1>3. QED
  BY <1>2 DEF Reads

LEMMA MoreCharacters ==
  ASSUME NEW h, NEW m, NEW cs \in Seq(Char), NEW ps, Reads(h, m, cs, ps), NEW c \in Char,
         Supplied(h[Len(cs)], c, Len(ps))
  PROVE  \E k : Reads(k, m, cs \o <<c>>, ps) /\ k[Len(cs) + 1] = ReadChar(h[Len(cs)], c, ps)
<1> DEFINE L == Len(cs)
           ds == cs \o <<c>>
           q == ReadChar(h[L], c, ps)
           k == [n \in 0 .. L + 1 |-> IF n = L + 1 THEN q ELSE h[n]]
<1>1. L \in Nat /\ Len(ds) = L + 1 /\ ds[L + 1] = c /\ \A n \in 1 .. L : ds[n] = cs[n]
  BY ConcatProperties
<1>2. Reader(h[L])
  BY <1>1 DEF Reads
<1>3. Reader(q)
  BY <1>2, ReaderStep
<1> HIDE DEF q
<1>4. k[L + 1] = q /\ \A n \in 0 .. L : k[n] = h[n]
  BY <1>1
<1> HIDE DEF k, ds
<1>5. k[0] = Start(m)
  BY <1>1, <1>4 DEF Reads
<1>6. \A n \in 0 .. L + 1 : Reader(k[n])
  <2>1. \A n \in 0 .. L : Reader(h[n])
    BY DEF Reads
  <2>2. \A n \in 0 .. L + 1 : n = L + 1 \/ n \in 0 .. L
    BY <1>1
  <2>3. QED
    BY <1>3, <1>4, <2>1, <2>2
<1>7. ASSUME NEW n \in 1 .. L + 1
      PROVE  k[n] = ReadChar(k[n - 1], ds[n], ps) /\ Supplied(k[n - 1], ds[n], Len(ps))
  <2>1. CASE n = L + 1
    <3>1. n - 1 = L /\ k[n - 1] = h[L]
      BY <1>1, <1>4, <2>1
    <3>2. QED
      BY <1>1, <1>4, <2>1, <3>1 DEF q
  <2>2. CASE n \in 1 .. L
    <3>1. n - 1 \in 0 .. L /\ n \in 0 .. L
      BY <1>1, <2>2
    <3>2. k[n - 1] = h[n - 1] /\ k[n] = h[n] /\ ds[n] = cs[n]
      BY <1>1, <1>4, <2>2, <3>1
    <3>3. h[n] = ReadChar(h[n - 1], cs[n], ps) /\ Supplied(h[n - 1], cs[n], Len(ps))
      BY <2>2 DEF Reads
    <3>4. QED
      BY <3>2, <3>3
  <2>3. QED
    BY <1>1, <2>1, <2>2
<1>8. Reads(k, m, ds, ps)
  BY <1>1, <1>5, <1>6, <1>7 DEF Reads
<1>9. QED
  BY <1>4, <1>8 DEF q, ds

(* ReadLine arrives where such a reader does.                              *)
LEMMA ReadLineIs ==
  ASSUME NEW h, NEW m, NEW line \in LineType, Reads(h, m, line.modes, line.params)
  PROVE  ReadLine(m, line) = h[Len(line.modes)].modes
<1> DEFINE L == Len(line.modes)
           Go(f) == [n \in 0 .. L |-> IF n = 0 THEN [modes |-> m, sign |-> TRUE, next |-> 1]
                                      ELSE ReadChar(f[n - 1], line.modes[n], line.params)]
           c == CHOOSE f : f = Go(f)
           k == [n \in 0 .. L |-> h[n]]
<1>1. L \in Nat
  BY DEF LineType
<1>2. \A n \in 1 .. L : h[n] = ReadChar(h[n - 1], line.modes[n], line.params)
  BY DEF Reads
<1>3. h[0] = [modes |-> m, sign |-> TRUE, next |-> 1]
  BY DEF Reads, Start
<1>4. k = Go(k)
  <2>1. ASSUME NEW n \in 0 .. L
        PROVE  k[n] = IF n = 0 THEN [modes |-> m, sign |-> TRUE, next |-> 1]
                      ELSE ReadChar(k[n - 1], line.modes[n], line.params)
    <3>1. CASE n = 0
      BY <1>1, <1>3, <3>1
    <3>2. CASE n # 0
      <4>1. n \in 1 .. L /\ n - 1 \in 0 .. L
        BY <1>1, <3>2
      <4>2. k[n] = h[n] /\ k[n - 1] = h[n - 1]
        BY <4>1
      <4>3. QED
        BY <1>2, <3>2, <4>1, <4>2
    <3>3. QED
      BY <3>1, <3>2
  <2> HIDE DEF k
  <2>2. k = [n \in 0 .. L |-> k[n]]
    BY DEF k
  <2>3. QED
    BY <2>1, <2>2
<1>5. c = Go(c)
  BY <1>4
<1> HIDE DEF c
<1>6. c[0] = h[0]
  BY <1>1, <1>3, <1>5
<1>7. ASSUME NEW n \in 1 .. L, c[n - 1] = h[n - 1]
      PROVE  c[n] = h[n]
  <2>1. n \in 0 .. L /\ n # 0
    BY <1>1
  <2>2. c[n] = ReadChar(c[n - 1], line.modes[n], line.params)
    BY <1>5, <2>1
  <2>3. QED
    BY <1>2, <1>7, <2>2
<1>8. c[L] = h[L]
  <2>1. \A n \in 1 .. L : c[n - 1] = h[n - 1] => c[n] = h[n]
    BY <1>7
  <2> HIDE DEF L, Go, k
  <2>2. \A n \in 0 .. L : c[n] = h[n]
    BY <1>1, <1>6, <2>1, SameSteps
  <2>3. QED
    BY <1>1, <2>2
<1>9. ReadLine(m, line) = c[L].modes
  BY DEF ReadLine, c
<1>10. QED
  BY <1>8, <1>9

(* g are the modes known after each line.                                  *)
LinesRead(g) ==
    g[0] = before /\ \A n \in 1 .. Len(lines) : g[n] = ReadLine(g[n - 1], lines[n])

LEMMA ReadBackIs ==
  ASSUME TypeInv, NEW g, LinesRead(g)
  PROVE  ReadBack = g[Len(lines)]
<1> DEFINE L == Len(lines)
           Go(f) == [n \in 0 .. L |-> IF n = 0 THEN before ELSE ReadLine(f[n - 1], lines[n])]
           c == CHOOSE f : f = Go(f)
           k == [n \in 0 .. L |-> g[n]]
<1>1. L \in Nat
  BY DEF TypeInv
<1>2. g[0] = before /\ \A n \in 1 .. L : g[n] = ReadLine(g[n - 1], lines[n])
  BY DEF LinesRead
<1>3. k = Go(k)
  <2>1. ASSUME NEW n \in 0 .. L
        PROVE  k[n] = IF n = 0 THEN before ELSE ReadLine(k[n - 1], lines[n])
    <3>1. CASE n = 0
      BY <1>1, <1>2, <3>1
    <3>2. CASE n # 0
      <4>1. n \in 1 .. L /\ n - 1 \in 0 .. L
        BY <1>1, <3>2
      <4>2. k[n] = g[n] /\ k[n - 1] = g[n - 1]
        BY <4>1
      <4>3. QED
        BY <1>2, <3>2, <4>1, <4>2
    <3>3. QED
      BY <3>1, <3>2
  <2> HIDE DEF k
  <2>2. k = [n \in 0 .. L |-> k[n]]
    BY DEF k
  <2>3. QED
    BY <2>1, <2>2
<1>4. c = Go(c)
  BY <1>3
<1> HIDE DEF c
<1>5. c[0] = g[0]
  BY <1>1, <1>2, <1>4
<1>6. ASSUME NEW n \in 1 .. L, c[n - 1] = g[n - 1]
      PROVE  c[n] = g[n]
  <2>1. n \in 0 .. L /\ n # 0
    BY <1>1
  <2>2. c[n] = ReadLine(c[n - 1], lines[n])
    BY <1>4, <2>1
  <2>3. QED
    BY <1>2, <1>6, <2>2
<1>7. c[L] = g[L]
  <2>1. \A n \in 1 .. L : c[n - 1] = g[n - 1] => c[n] = g[n]
    BY <1>6
  <2> HIDE DEF L, Go, k
  <2>2. \A n \in 0 .. L : c[n] = g[n]
    BY <1>1, <1>5, <2>1, SameSteps
  <2>3. QED
    BY <1>1, <2>2
<1>8. ReadBack = c[L]
  BY DEF ReadBack, c
<1>9. QED
  BY <1>7, <1>8

GrownRead(h, m, line, x) ==
    LET new == Grown(line, x)
        r == h[Len(line.modes)]
    IN  \E k : /\ Reads(k, m, new.modes, new.params)
               /\ k[Len(new.modes)].modes = ReadSet(r.modes, x.adding, x.letter, x.param)
               /\ k[Len(new.modes)].sign = x.adding
               /\ k[Len(new.modes)].next =
                        IF Takes(x.adding, x.letter) THEN r.next + 1 ELSE r.next

(* A change put on a line is read as it was made, with its parameter if it *)
(* takes one, which is then the first not read yet.                        *)
LEMMA GrowRead ==
  ASSUME NEW h, NEW m, NEW line \in LineType, NEW x, Announced(x),
         Reads(h, m, line.modes, line.params),
         line.taken = 0 \/ h[Len(line.modes)].sign = line.sign,
         Takes(x.adding, x.letter) => h[Len(line.modes)].next = Len(line.params) + 1
  PROVE  GrownRead(h, m, line, x)
<1> DEFINE cs == line.modes
           L == Len(cs)
           r == h[L]
           sg == IF line.taken = 0 \/ x.adding # line.sign
                 THEN <<IF x.adding THEN "+" ELSE "-">> ELSE <<>>
           more == IF x.param = Empty THEN <<>> ELSE <<x.param>>
           ps == line.params \o more
           new == Grown(line, x)
<1>1. /\ cs \in Seq(Char) /\ line.params \in Seq(STRING) /\ L \in Nat /\ Len(line.params) \in Nat
      /\ x \in ChangeType /\ x.letter \in Char /\ x.adding \in BOOLEAN /\ x.letter \notin {"+", "-"}
  BY DEF LineType, Char, Announced, ChangeType
<1>2. /\ new.modes = cs \o (sg \o <<x.letter>>) /\ new.params = ps /\ more \in Seq(STRING)
  BY <1>1, GrownFields
<1>3. Reads(h, m, cs, ps) /\ Reader(r)
  <2> HIDE DEF more
  <2>1. Reads(h, m, cs, ps)
    BY <1>1, <1>2, MoreParameters
  <2>2. L \in 0 .. L
    BY <1>1
  <2>3. Reader(r)
    BY <2>2 DEF Reads
  <2>4. QED
    BY <2>1, <2>3
<1>4. Takes(x.adding, x.letter) => /\ Len(ps) = Len(line.params) + 1
                                   /\ ps[Len(line.params) + 1] = x.param
  <2>1. ASSUME Takes(x.adding, x.letter)
        PROVE  more = <<x.param>> /\ Len(more) = 1
    BY <2>1 DEF Announced
  <2> HIDE DEF more
  <2>2. /\ Len(ps) = Len(line.params) + Len(more)
        /\ \A k \in 1 .. Len(line.params) + Len(more) :
              ps[k] = IF k <= Len(line.params) THEN line.params[k]
                      ELSE more[k - Len(line.params)]
    BY <1>1, <1>2, ConcatProperties
  <2>3. ASSUME Takes(x.adding, x.letter)
        PROVE  Len(ps) = Len(line.params) + 1 /\ ps[Len(line.params) + 1] = x.param
    <3> DEFINE n == Len(line.params)
    <3>1. n \in Nat /\ n + 1 \in 1 .. n + 1 /\ ~(n + 1 <= n) /\ (n + 1) - n = 1
      BY <1>1
    <3>2. Len(more) = 1 /\ more[1] = x.param
      BY <2>1, <2>3
    <3>3. ps[n + 1] = more[(n + 1) - n]
      BY <2>2, <3>1, <3>2
    <3>4. QED
      BY <2>2, <3>1, <3>2, <3>3
  <2>4. QED
    BY <2>3
<1> HIDE DEF ps
(* The letter, read with the sign of the change in force.                  *)
<1>5. ASSUME NEW ds \in Seq(Char), NEW j, Reads(j, m, ds, ps), NEW n, n = Len(ds),
             j[n].modes = r.modes, j[n].sign = x.adding, j[n].next = r.next,
             new.modes = ds \o <<x.letter>>
      PROVE  GrownRead(h, m, line, x)
  <2> HIDE DEF new, r
  <2>1. Supplied(j[n], x.letter, Len(ps))
    BY <1>1, <1>4, <1>5 DEF Supplied, r
  <2>2. PICK k : Reads(k, m, ds \o <<x.letter>>, ps) /\ k[n + 1] = ReadChar(j[n], x.letter, ps)
    BY <1>1, <1>5, <2>1, MoreCharacters
  <2>3. n \in Nat /\ Len(new.modes) = n + 1
    BY <1>1, <1>5, ConcatProperties
  <2>4. Reader(j[n])
    BY <1>5, <2>3 DEF Reads
  <2> DEFINE q == ReadChar(j[n], x.letter, ps)
  <2>5. /\ q.modes = ReadSet(r.modes, x.adding, x.letter, x.param)
        /\ q.sign = x.adding
        /\ q.next = IF Takes(x.adding, x.letter) THEN r.next + 1 ELSE r.next
    <3>1. CASE Takes(x.adding, x.letter)
      <4>1. ~(j[n].next > Len(ps)) /\ ps[j[n].next] = x.param
        BY <1>1, <1>4, <1>5, <3>1 DEF r
      <4>2. q = [j[n] EXCEPT !.modes = ReadSet(@, x.adding, x.letter, x.param), !.next = @ + 1]
        BY <1>1, <1>5, <3>1, <4>1 DEF ReadChar
      <4>3. QED
        BY <1>5, <2>4, <3>1, <4>2 DEF Reader
    <3>2. CASE ~Takes(x.adding, x.letter)
      <4>1. q = [j[n] EXCEPT !.modes = ReadSet(@, x.adding, x.letter, Empty)]
        BY <1>1, <1>5, <3>2 DEF ReadChar
      <4>2. ReadSet(r.modes, x.adding, x.letter, Empty) = ReadSet(r.modes, x.adding, x.letter, x.param)
        BY <3>2 DEF ReadSet, Takes
      <4>3. QED
        BY <1>5, <2>4, <3>2, <4>1, <4>2 DEF Reader
    <3>3. QED
      BY <3>1, <3>2
  <2> HIDE DEF q
  <2>6. Reads(k, m, new.modes, new.params) /\ k[Len(new.modes)] = q
    BY <1>2, <1>5, <2>2, <2>3 DEF q
  <2>7. QED
    BY <2>5, <2>6 DEF GrownRead, new, r
<1>6. CASE sg = <<>>
  <2>1. r.sign = x.adding
    BY <1>6
  <2>2. new.modes = cs \o <<x.letter>>
    <3>1. sg \o <<x.letter>> = <<x.letter>>
      <4> DEFINE d == <<x.letter>>
      <4>1. d \in Seq(Char)
        BY <1>1
      <4> HIDE DEF d
      <4>2. <<>> \o d = d
        BY <4>1, ConcatEmptySeq
      <4>3. QED
        BY <1>6, <4>2 DEF d
    <3>2. QED
      BY <1>2, <3>1
  <2>3. QED
    BY <1>1, <1>3, <1>5, <2>1, <2>2
<1>7. CASE sg # <<>>
  <2> DEFINE c == IF x.adding THEN "+" ELSE "-"
  <2>1. sg = <<c>> /\ c \in {"+", "-"} /\ c \in Char /\ (c = "+") = x.adding
    BY <1>1, <1>7 DEF Char
  <2> HIDE DEF c, sg
  <2>2. Supplied(r, c, Len(ps))
    BY <2>1 DEF Supplied
  <2>3. PICK j : Reads(j, m, cs \o <<c>>, ps) /\ j[L + 1] = ReadChar(r, c, ps)
    BY <1>1, <1>3, <2>1, <2>2, MoreCharacters, SMTT(30)
  <2>4. cs \o <<c>> \in Seq(Char) /\ Len(cs \o <<c>>) = L + 1
    BY <1>1, <2>1, ConcatProperties
  <2>5. ReadChar(r, c, ps) = [r EXCEPT !.sign = (c = "+")]
    BY <2>1 DEF ReadChar
  <2>6. j[L + 1].modes = r.modes /\ j[L + 1].sign = x.adding /\ j[L + 1].next = r.next
    BY <1>1, <1>3, <2>1, <2>3, <2>5 DEF Reader
  <2>7. new.modes = (cs \o <<c>>) \o <<x.letter>>
    <3> DEFINE a == cs
               b == <<c>>
               d == <<x.letter>>
    <3>1. a \in Seq(Char) /\ b \in Seq(Char) /\ d \in Seq(Char)
      BY <1>1, <2>1
    <3> HIDE DEF a, b, d
    <3>2. a \o (b \o d) = (a \o b) \o d
      BY <3>1, ConcatAssociative
    <3>3. QED
      BY <1>2, <2>1, <3>2 DEF a, b, d
  <2>8. QED
    BY <1>5, <2>3, <2>4, <2>6, <2>7
<1>8. QED
  BY <1>6, <1>7

(* s are the modes after each change, from those before the command to     *)
(* those now.                                                              *)
Follows(s) ==
    /\ s[0] = before /\ s[Len(applied)] = modes
    /\ \A n \in 1 .. Len(applied) :
        /\ Announced(applied[n])
        /\ s[n] = ReadSet(s[n - 1], applied[n].adding, applied[n].letter, applied[n].param)

Echoed == \E n \in 1 .. at - 1 : Echo(applied[n])

(* Who has read the finished lines, and then reads the one being put       *)
(* together, knows the modes as they were after the changes rendered.      *)
Told(s, g, h) ==
    LET r == h[Len(cur.modes)]
    IN  /\ LinesRead(g)
        /\ Reads(h, g[Len(lines)], cur.modes, cur.params)
        /\ r.modes = s[at - 1]
        /\ cur.taken = 0 \/ r.sign = cur.sign
        /\ Echoed \/ r.next = Len(cur.params) + 1

ToldInv ==
    /\ cur.taken = 0 => cur = BlankLine
    /\ \E s : Follows(s) /\ (NoEchoInTheWay => \E g, h : Told(s, g, h))

(* Nothing is rendered yet.                                                *)
LEMMA ToldStart ==
  at = 1 /\ cur = BlankLine /\ lines = <<>> /\ (\E s : Follows(s)) => ToldInv
<1> SUFFICES ASSUME at = 1, cur = BlankLine, lines = <<>>, NEW s, Follows(s)
             PROVE  ToldInv
  OBVIOUS
<1> DEFINE g == [n \in 0 .. 0 |-> before]
           h == [n \in 0 .. 0 |-> Start(before)]
<1>1. /\ Len(lines) = 0 /\ cur.modes = <<>> /\ cur.params = <<>> /\ Len(cur.modes) = 0
      /\ Len(cur.params) = 0 /\ cur.taken = 0 /\ at - 1 = 0
  BY DEF BlankLine
<1>2. g[0] = before /\ h[0] = Start(before)
  OBVIOUS
<1>3. Reads(h, before, <<>>, cur.params)
  BY NothingRead
<1> HIDE DEF g, h
<1>4. LinesRead(g)
  BY <1>1, <1>2 DEF LinesRead
<1>5. h[0].modes = before /\ h[0].next = 1
  BY <1>2 DEF Start
<1>6. Told(s, g, h)
  BY <1>1, <1>2, <1>3, <1>4, <1>5 DEF Told, Follows
<1>7. QED
  BY <1>6 DEF ToldInv

LEMMA ToldStartNext ==
  (at = 1 /\ cur = BlankLine /\ lines = <<>> /\ (\E s : Follows(s)) => ToldInv)'
  BY ToldStart, PTL

LEMMA ToldInit == Init => ToldInv
<1> SUFFICES ASSUME Init PROVE ToldInv
  OBVIOUS
<1> DEFINE s == [n \in 0 .. 0 |-> before]
<1>1. /\ at = 1 /\ cur = BlankLine /\ lines = <<>> /\ applied = <<>> /\ modes = before
      /\ Len(applied) = 0 /\ s[0] = before
  BY DEF Init
<1> HIDE DEF s
<1>2. Follows(s)
  BY <1>1 DEF Follows
<1>3. QED
  BY <1>1, <1>2, ToldStart

LEMMA ToldLetter ==
  ASSUME TypeInv, ToldInv, NEW taken, NEW m, NEW a, NEW c,
         Step(taken, m, a, c), Letter(taken, m, a, c)
  PROVE  ToldInv'
<1>1. /\ modes' = m /\ applied' = applied \o a /\ UNCHANGED <<before, at, cur, lines>>
      /\ applied \in Seq(ChangeType) /\ a \in Seq(ChangeType)
  BY LetterType DEF Step, input, output, TypeInv
<1>2. at = 1 /\ cur = BlankLine /\ lines = <<>>
  BY DEF Letter, TypeInv
<1>3. PICK s : Follows(s)
  BY DEF ToldInv
<1>4. CASE a = <<>> /\ m = modes
  <2>1. applied' = applied
    BY <1>1, <1>4, ConcatEmptySeq
  <2>2. Follows(s)'
    BY <1>1, <1>3, <1>4, <2>1 DEF Follows
  <2>3. QED
    BY <1>1, <1>2, <2>2, ToldStartNext
<1>5. ASSUME NEW x, a = <<x>>, Makes(x, m)
      PROVE  ToldInv'
  <2> DEFINE L == Len(applied)
  <2>0. PICK t : t = [n \in 0 .. L + 1 |-> IF n = L + 1 THEN m ELSE s[n]]
    OBVIOUS
  <2>1. /\ L \in Nat /\ Len(applied') = L + 1 /\ applied'[L + 1] = x
        /\ \A n \in 1 .. L : applied'[n] = applied[n]
    BY <1>1, <1>5, ConcatProperties
  <2>2. t[L + 1] = m /\ \A n \in 0 .. L : t[n] = s[n]
    BY <2>0, <2>1
  <2>3. t[0] = before /\ t[L] = modes
    BY <1>3, <2>1, <2>2 DEF Follows
  <2>4. ASSUME NEW n \in 1 .. L + 1
        PROVE  /\ Announced(applied'[n])
               /\ t[n] = ReadSet(t[n - 1], applied'[n].adding, applied'[n].letter,
                                 applied'[n].param)
    <3>1. CASE n = L + 1
      <4>1. n - 1 = L
        BY <2>1, <3>1
      <4>2. QED
        BY <1>5, <2>1, <2>2, <2>3, <3>1, <4>1 DEF Makes
    <3>2. CASE n \in 1 .. L
      <4>1. n \in 0 .. L /\ n - 1 \in 0 .. L
        BY <2>1, <3>2
      <4>2. t[n] = s[n] /\ t[n - 1] = s[n - 1] /\ applied'[n] = applied[n]
        BY <2>1, <2>2, <3>2, <4>1
      <4>3. Announced(applied[n]) /\ s[n] = ReadSet(s[n - 1], applied[n].adding,
                                                   applied[n].letter, applied[n].param)
        BY <1>3, <3>2 DEF Follows
      <4>4. QED
        BY <4>2, <4>3
    <3>3. QED
      BY <2>1, <3>1, <3>2
  <2>5. Follows(t)'
    <3>1. before' = before /\ modes' = m
      BY <1>1
    <3> HIDE DEF L
    <3>2. \A n \in 1 .. Len(applied') :
            /\ Announced(applied'[n])
            /\ t[n] = ReadSet(t[n - 1], applied'[n].adding, applied'[n].letter, applied'[n].param)
      BY <2>1, <2>4
    <3>3. t[0] = before' /\ t[Len(applied')] = modes'
      BY <2>1, <2>2, <2>3, <3>1
    <3>4. QED
      BY <3>2, <3>3 DEF Follows
  <2>6. QED
    BY <1>1, <1>2, <2>5, ToldStartNext
<1>6. QED
  BY <1>4, <1>5 DEF Letter

LEMMA FollowsKept ==
  ASSUME NEW s, Follows(s), UNCHANGED <<before, applied, modes>>
  PROVE  Follows(s)' /\ NoEchoInTheWay' = NoEchoInTheWay
  BY DEF Follows, NoEchoInTheWay

LEMMA ToldTake ==
  ASSUME TypeInv, ToldInv, TakeChange
  PROVE  ToldInv'
<1> DEFINE x == applied[at]
           L == Len(cur.modes)
<1>1. /\ at \in 1 .. Len(applied) /\ x \in ChangeType /\ cur' = Grown(cur, x) /\ at' = at + 1
      /\ cur'.taken = cur.taken + 1 /\ UNCHANGED <<before, applied, modes, lines>>
  BY TakeType DEF TakeChange, input
<1>2. /\ cur \in LineType /\ cur.taken \in Nat /\ cur'.taken # 0 /\ at \in Nat \ {0}
      /\ cur.params \in Seq(STRING) /\ Len(cur.params) \in Nat
  <2>1. cur \in LineType /\ at \in Nat \ {0}
    BY <1>1 DEF TypeInv
  <2>2. cur.taken \in Nat /\ cur.params \in Seq(STRING)
    BY <2>1 DEF LineType
  <2>3. QED
    BY <1>1, <2>1, <2>2
<1>3. PICK s : Follows(s) /\ (NoEchoInTheWay => \E g, h : Told(s, g, h))
  BY DEF ToldInv
<1>4. /\ Announced(x) /\ s[at] = ReadSet(s[at - 1], x.adding, x.letter, x.param)
  BY <1>1, <1>3 DEF Follows
<1>5. ASSUME NoEchoInTheWay
      PROVE  \E g, h : Told(s, g, h)'
  <2>1. PICK g, h : Told(s, g, h)
    BY <1>3, <1>5
  <2> DEFINE r == h[L]
  <2>2. /\ LinesRead(g) /\ Reads(h, g[Len(lines)], cur.modes, cur.params)
        /\ r.modes = s[at - 1] /\ (cur.taken = 0 \/ r.sign = cur.sign)
        /\ Echoed \/ r.next = Len(cur.params) + 1
    BY <2>1 DEF Told
  <2>3. Echoed => ~Takes(x.adding, x.letter)
    <3>1. DOMAIN applied = 1 .. Len(applied)
      BY DEF TypeInv
    <3>2. ASSUME NEW n \in 1 .. at - 1, Echo(applied[n])
          PROVE  ~Takes(x.adding, x.letter)
      <4>1. n \in DOMAIN applied /\ at \in DOMAIN applied /\ n < at
        BY <1>1, <1>2, <3>1
      <4>2. QED
        BY <1>5, <3>2, <4>1 DEF NoEchoInTheWay, Echo
    <3>3. QED
      BY <3>2 DEF Echoed
  <2> DEFINE new == Grown(cur, x)
  <2>4. PICK k : /\ Reads(k, g[Len(lines)], new.modes, new.params)
                 /\ k[Len(new.modes)].modes = ReadSet(r.modes, x.adding, x.letter, x.param)
                 /\ k[Len(new.modes)].sign = x.adding
                 /\ k[Len(new.modes)].next =
                         IF Takes(x.adding, x.letter) THEN r.next + 1 ELSE r.next
    <3>1. Takes(x.adding, x.letter) => h[Len(cur.modes)].next = Len(cur.params) + 1
      BY <2>2, <2>3
    <3>2. cur.taken = 0 \/ h[Len(cur.modes)].sign = cur.sign
      BY <2>2
    <3>3. Reads(h, g[Len(lines)], cur.modes, cur.params)
      BY <2>2
    <3> HIDE DEF x
    <3>4. QED
      <4>1. GrownRead(h, g[Len(lines)], cur, x)
        BY <1>2, <1>4, <3>1, <3>2, <3>3, GrowRead
      <4>2. QED
        BY <4>1 DEF GrownRead
  <2>5. new.sign = x.adding /\ new.params = cur.params \o (IF x.param = Empty THEN <<>> ELSE <<x.param>>)
    BY <1>1, <1>2, GrownFields
  <2>6. Echoed' \/ k[Len(new.modes)].next = Len(new.params) + 1
    <3>1. Echoed => Echoed'
      BY <1>1, <1>2 DEF Echoed, Echo
    <3>2. Echo(x) => Echoed'
      <4>1. at \in 1 .. at' - 1
        BY <1>1, <1>2
      <4>2. QED
        BY <1>1, <4>1 DEF Echoed, Echo
    <3>3. CASE ~Echoed /\ ~Echo(x) /\ Takes(x.adding, x.letter)
      <4>1. x.param # Empty /\ x.param \in STRING
        BY <1>1, <1>4, <3>3 DEF Announced, ChangeType
      <4>2. Len(cur.params \o <<x.param>>) = Len(cur.params) + 1
        <5> DEFINE p == x.param
                   ps == cur.params
        <5>1. p \in STRING /\ ps \in Seq(STRING)
          BY <1>2, <4>1
        <5> HIDE DEF p, ps
        <5>2. Len(ps \o <<p>>) = Len(ps) + 1
          BY <5>1, ConcatProperties
        <5>3. QED
          BY <5>2 DEF p, ps
      <4>3. Len(new.params) = Len(cur.params) + 1
        BY <2>5, <4>1, <4>2
      <4>4. QED
        BY <1>2, <2>2, <2>4, <3>3, <4>3
    <3>4. CASE ~Echoed /\ ~Echo(x) /\ ~Takes(x.adding, x.letter)
      <4>1. x.param = Empty
        BY <1>4, <3>4 DEF Announced
      <4>2. new.params = cur.params
        BY <1>2, <2>5, <4>1, ConcatEmptySeq
      <4>3. QED
        BY <2>2, <2>4, <3>4, <4>2
    <3>5. QED
      BY <3>1, <3>2, <3>3, <3>4
  <2>7. at' - 1 = at /\ LinesRead(g)'
    BY <1>1, <1>2, <2>2 DEF LinesRead
  <2> HIDE DEF new, x
  <2>8. cur' = new
    BY <1>1 DEF new
  <2>9. k[Len(new.modes)].modes = s[at]
    BY <1>4, <2>2, <2>4
  <2>10. Told(s, g, k)'
    BY <1>1, <2>4, <2>5, <2>6, <2>7, <2>8, <2>9 DEF Told
  <2>11. QED
    BY <2>10
<1>6. Follows(s)' /\ NoEchoInTheWay' = NoEchoInTheWay
  BY <1>1, <1>3, FollowsKept
<1>7. QED
  BY <1>2, <1>5, <1>6 DEF ToldInv

LEMMA ToldBreak ==
  ASSUME TypeInv, ToldInv, BreakLine \/ LastLine
  PROVE  ToldInv'
<1>1. /\ lines' = Append(lines, cur) /\ cur' = BlankLine
      /\ UNCHANGED <<before, applied, modes, at>>
  BY BreakType DEF BreakLine, LastLine, input
<1>2. /\ cur \in LineType /\ lines \in Seq(LineType) /\ Len(lines) \in Nat
  BY DEF TypeInv
<1>3. PICK s : Follows(s) /\ (NoEchoInTheWay => \E g, h : Told(s, g, h))
  BY DEF ToldInv
<1>4. /\ cur'.modes = <<>> /\ cur'.params = <<>> /\ cur'.taken = 0
      /\ Len(cur'.modes) = 0 /\ Len(cur'.params) = 0
  BY <1>1 DEF BlankLine
<1>5. ASSUME NoEchoInTheWay
      PROVE  \E g, h : Told(s, g, h)'
  <2>1. PICK g, h : Told(s, g, h)
    BY <1>3, <1>5
  <2> DEFINE L == Len(lines)
  <2> PICK m : m = ReadLine(g[L], cur)
    OBVIOUS
  <2> PICK f : f = [n \in 0 .. L + 1 |-> IF n = L + 1 THEN m ELSE g[n]]
    OBVIOUS
  <2> PICK k : k = [n \in 0 .. 0 |-> Start(m)]
    OBVIOUS
  <2>2. /\ LinesRead(g) /\ Reads(h, g[L], cur.modes, cur.params)
        /\ h[Len(cur.modes)].modes = s[at - 1]
    BY <2>1 DEF Told
  <2>3. m = s[at - 1]
    BY <1>2, <2>2, ReadLineIs
  <2>4. Reads(k, m, <<>>, cur'.params) /\ k[0] = Start(m)
    <3>1. Reads([n \in 0 .. 0 |-> Start(m)], m, <<>>, cur'.params)
      BY NothingRead
    <3>2. QED
      BY <3>1
  <2>5. f[L + 1] = m /\ \A n \in 0 .. L : f[n] = g[n]
    BY <1>2
  <2>6. Len(lines') = L + 1 /\ lines'[L + 1] = cur /\ \A n \in 1 .. L : lines'[n] = lines[n]
    BY <1>1, <1>2, AppendProperties
  <2>7. LinesRead(f)'
    <3>1. f[0] = before
      BY <1>2, <2>2, <2>5 DEF LinesRead
    <3>2. ASSUME NEW n \in 1 .. L + 1
          PROVE  f[n] = ReadLine(f[n - 1], lines'[n])
      <4>1. CASE n = L + 1
        <5>1. n - 1 = L /\ f[n - 1] = g[L]
          BY <1>2, <2>5, <4>1
        <5>2. QED
          BY <2>5, <2>6, <4>1, <5>1
      <4>2. CASE n \in 1 .. L
        <5>1. n - 1 \in 0 .. L /\ n \in 0 .. L
          BY <1>2, <4>2
        <5>2. f[n] = g[n] /\ f[n - 1] = g[n - 1] /\ lines'[n] = lines[n]
          BY <2>5, <2>6, <4>2, <5>1
        <5>3. g[n] = ReadLine(g[n - 1], lines[n])
          BY <2>2, <4>2 DEF LinesRead
        <5>4. QED
          BY <5>2, <5>3
      <4>3. QED
        BY <1>2, <4>1, <4>2
    <3>3. f[0] = before' /\ \A n \in 1 .. Len(lines') : f[n] = ReadLine(f[n - 1], lines'[n])
      BY <1>1, <2>6, <3>1, <3>2
    <3>4. QED
      BY <3>3 DEF LinesRead
  <2>8. k[0].modes = s[at - 1] /\ k[0].next = 1
    BY <2>3, <2>4 DEF Start
  <2>9. Told(s, f, k)'
    <3>1. f[Len(lines')] = m /\ at' = at
      BY <1>1, <2>5, <2>6
    <3>2. Reads(k, f[Len(lines')], cur'.modes, cur'.params)
      BY <1>4, <2>4, <3>1
    <3>3. QED
      BY <1>4, <2>7, <2>8, <3>1, <3>2 DEF Told
  <2>10. QED
    BY <2>9
<1>6. Follows(s)' /\ NoEchoInTheWay' = NoEchoInTheWay
  BY <1>1, <1>3, FollowsKept
<1>7. QED
  BY <1>1, <1>5, <1>6 DEF ToldInv

LEMMA ToldNext ==
  ASSUME TypeInv, ToldInv, [Next]_vars
  PROVE  ToldInv'
<1>1. CASE handleChannelMode \/ handleUserMode
  BY <1>1, Letters, ToldLetter
<1>2. CASE UNCHANGED <<before, applied, modes, at, cur, lines>>
  <2>1. PICK s : Follows(s) /\ (NoEchoInTheWay => \E g, h : Told(s, g, h))
    BY DEF ToldInv
  <2>2. Follows(s)' /\ NoEchoInTheWay' = NoEchoInTheWay
    BY <1>2, <2>1, FollowsKept
  <2>3. \A g, h : Told(s, g, h) => Told(s, g, h)'
    BY <1>2 DEF Told, LinesRead, Echoed, Echo
  <2>4. QED
    BY <1>2, <2>1, <2>2, <2>3 DEF ToldInv
<1>3. QED
  BY <1>1, <1>2, ToldTake, ToldBreak DEF Next, Sign, input, output, vars

-----------------------------------------------------------------------------
(* The loop index, the sign in force, the next parameter and the lines     *)
(* keep their types, the loops their order.                                *)
THEOREM Types == Spec => []TypeInv
<1>1. Init => TypeInv
  BY InitType
<1>2. TypeInv /\ [Next]_vars => TypeInv'
  BY TypeNext
<1>3. QED
  BY <1>1, <1>2, PTL DEF Spec

(* However many changes a MODE makes and however long its parameters are,  *)
(* a line with more than one change on it is within the budget, so that    *)
(* queueMessage cuts nothing off it (renderModeLines).                     *)
THEOREM LinesAlwaysFit == Spec => []LinesFit
<1>1. Init => FitInv
  BY InitRest
<1>2. TypeInv /\ FitInv /\ [Next]_vars => FitInv'
  BY FitNext
<1>3. FitInv => LinesFit
  BY DEF FitInv
<1>4. QED
  BY <1>1, <1>2, <1>3, Types, PTL DEF Spec

(* Whatever the letters and the parameters, one that a letter took is in   *)
(* an announced change or named in a complaint (handleChannelMode).        *)
THEOREM ParametersAreAccountedFor == Spec => []NoParameterVanishes
<1>1. Init => NoParameterVanishes
  BY InitRest
<1>2. TypeInv /\ NoParameterVanishes /\ [Next]_vars => NoParameterVanishes'
  BY VanishesNext
<1>3. QED
  BY <1>1, <1>2, Types, PTL DEF Spec

(* No mode string, whatever its signs, repetitions and -k, is answered     *)
(* that parameters are missing when there are as many as letters that need *)
(* one: the count paramsRequiredFrom makes is exact, and the key -k takes  *)
(* beyond it is nobody else's (handleChannelMode).                         *)
THEOREM NobodyEverStarves == Spec => []NobodyStarves
<1>1. Init => StarveInv
  BY InitRest
<1>2. TypeInv /\ StarveInv /\ [Next]_vars => StarveInv'
  BY StarveNext
<1>3. StarveInv => NobodyStarves
  BY DEF StarveInv
<1>4. QED
  BY <1>1, <1>2, <1>3, Types, PTL DEF Spec

(* Whoever reads the announced lines, whatever the budget cut them to,     *)
(* arrives at the modes the server has, unless the key that a -k was sent  *)
(* with is echoed before a change that takes a parameter                   *)
(* (renderModeLines, broadcastModeChanges).                                *)
THEOREM LinesAlwaysTell == Spec => []LinesTellTheModes
<1>1. Init => ToldInv
  BY ToldInit
<1>2. TypeInv /\ ToldInv /\ [Next]_vars => ToldInv'
  BY ToldNext
<1>3. TypeInv /\ ToldInv => LinesTellTheModes
  <2> SUFFICES ASSUME TypeInv, ToldInv, Done, NoEchoInTheWay
               PROVE  ReadBack = modes
    BY DEF LinesTellTheModes
  <2>1. PICK s, g, h : Follows(s) /\ Told(s, g, h)
    BY DEF ToldInv
  <2>2. cur = BlankLine /\ at - 1 = Len(applied)
    BY DEF Done, ToldInv, TypeInv
  <2>3. Len(cur.modes) = 0
    BY <2>2 DEF BlankLine
  <2>4. h[0] = Start(g[Len(lines)]) /\ h[0].modes = s[Len(applied)]
    BY <2>1, <2>2, <2>3 DEF Told, Reads
  <2>5. g[Len(lines)] = modes
    BY <2>1, <2>4 DEF Start, Follows
  <2>6. ReadBack = g[Len(lines)]
    BY <2>1, ReadBackIs DEF Told
  <2>7. QED
    BY <2>5, <2>6
<1>4. QED
  BY <1>1, <1>2, <1>3, Types, PTL DEF Spec
=============================================================================
