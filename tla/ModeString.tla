----------------------------- MODULE ModeString -----------------------------
(***************************************************************************)
(* One MODE command, letter by letter: which parameter each letter takes,  *)
(* what is changed, what is complained about, and how the changes are cut  *)
(* into lines for the members (handleChannelMode, handleUserMode,          *)
(* renderModeLines).  IrcServer takes over from here: its MODE changes are *)
(* already paired with their parameters.                                   *)
(***************************************************************************)
EXTENDS Naturals, Sequences, FiniteSets, SequencesExt

CONSTANTS
    ModeStrs,  \* mode strings, as sequences of characters
    Params,    \* parameter lists that may follow
    ValidKey,  \* parameters isValidChannelKey accepts
    Member,    \* parameter -> the member findMember finds; Nobody where none
    LimitOf,   \* parameter -> parse_long(parameter, 1, MAX_USERLIMIT); 0 fails
    Render,    \* to_string on limits
    Size,      \* the length of a parameter
    Nobody,    \* NULL
    Empty,     \* the empty string
    Starts,    \* the modes set when the command comes in
    HeadSize,  \* the length of ":prefix MODE target "
    Budget     \* MAX_MSGLEN - 2

(* A valid key is not empty and no member has an empty nickname; a limit   *)
(* that was parsed is read back from what to_string makes of it.           *)
ASSUME ParameterAssumption ==
    /\ ModeStrs \subseteq Seq(STRING) /\ Params \subseteq Seq(STRING)
    /\ Empty \in STRING \ ValidKey
    /\ \A list \in Params : \A n \in DOMAIN list :
        /\ Member[list[n]] \in (STRING \ {Empty}) \cup {Nobody}
        /\ LimitOf[list[n]] \in Nat
        /\ LimitOf[list[n]] > 0 =>
            LET shown == Render[LimitOf[list[n]]]
            IN  shown \in STRING \ {Empty} /\ LimitOf[shown] = LimitOf[list[n]]

VARIABLES
    kind,      \* "channel" or "user"
    modeStr,   \* msg.params[1]
    params,    \* the parameters after it
    before,    \* the modes before the command
    modes,     \* the modes now
    i,         \* the character the loop is at
    adding,    \* the sign in force
    paramIdx,  \* the next parameter
    applied,   \* the changes made
    reported,  \* the complaints sent
    at,        \* renderModeLines: the next change to render
    cur,       \* ... the line being put together
    lines      \* ... the finished lines

vars == <<kind, modeStr, params, before, modes, i, adding, paramIdx, applied, reported,
          at, cur, lines>>

input == <<kind, modeStr, params, before>>
output == <<at, cur, lines>>

Change(add, c, p) == [adding |-> add, letter |-> c, param |-> p]

BlankLine == [modes |-> <<>>, params |-> <<>>, sign |-> TRUE, taken |-> 0]

Init ==
    /\ kind \in {"channel", "user"}
    /\ modeStr \in {s \in ModeStrs : s # <<>> /\ s[1] \in {"+", "-"}}
    /\ params \in IF kind = "channel" THEN Params ELSE {<<>>}
    /\ before \in Starts /\ modes = before
    /\ i = 1 /\ adding = TRUE /\ paramIdx = 1
    /\ applied = <<>> /\ reported = {}
    /\ at = 1 /\ cur = BlankLine /\ lines = <<>>

-----------------------------------------------------------------------------
(* The loop over the characters.                                           *)

At(c) == i <= Len(modeStr) /\ modeStr[i] = c

More == paramIdx <= Len(params)

(* Faulty: only +o and -o are counted.                                     *)
Count_ops(r, c) == IF c = "o" THEN [r EXCEPT !.need = @ + 1] ELSE r

Count(r, c) ==
    CASE c \in {"+", "-"} -> [r EXCEPT !.adding = c = "+"]
      [] c = "o" \/ (c \in {"k", "l"} /\ r.adding) -> [r EXCEPT !.need = @ + 1]
      [] OTHER -> r

(* How many parameters the letters from here on cannot do without.         *)
paramsRequiredFrom(from, sign) ==
    LET counted[n \in 0 .. Len(modeStr)] ==
            IF n < from THEN [need |-> 0, adding |-> sign]
            ELSE Count(counted[n - 1], modeStr[n])
    IN  counted[Len(modeStr)].need

(* The letter is done, with what it took, changed, announced or complained *)
(* of.  A complaint is sent once (alreadyReported).                        *)
Step(taken, newModes, newApplied, complaints) ==
    /\ i' = i + 1
    /\ paramIdx' = paramIdx + taken
    /\ modes' = newModes
    /\ applied' = applied \o newApplied
    /\ reported' = reported \cup complaints
    /\ UNCHANGED <<input, adding, output>>

Sign ==
    /\ At("+") \/ At("-")
    /\ adding' = At("+")
    /\ i' = i + 1
    /\ UNCHANGED <<input, modes, paramIdx, applied, reported, output>>

Flag(c) ==
    /\ At(c)
    /\ Step(0, [modes EXCEPT ![c] = adding], <<Change(adding, c, Empty)>>, {})

(* A letter that needs a parameter when there is none left.                *)
Starved ==
    /\ kind = "channel" /\ ~More
    /\ At("o") \/ (adding /\ (At("k") \/ At("l")))
    /\ Step(0, modes, <<>>, {<<"461", Empty>>})

SetKey ==
    /\ At("k") /\ adding /\ More
    /\ LET key == params[paramIdx]
       IN  \/ key \in ValidKey
              /\ Step(1, [modes EXCEPT !.k = key], <<Change(TRUE, "k", key)>>, {})
           \/ key \notin ValidKey
              /\ Step(1, modes, <<>>, {<<"525", key>>})

(* Faulty: the parameter of -k is taken and thrown away.                   *)
RemoveKey_swallows ==
    /\ At("k") /\ ~adding
    /\ LET spare == More /\ Len(params) - paramIdx + 1 > paramsRequiredFrom(i + 1, adding)
       IN  Step(IF spare THEN 1 ELSE 0, [modes EXCEPT !.k = Empty],
                <<Change(FALSE, "k", Empty)>>, {})

(* -k takes a parameter only if the letters after it can spare one.        *)
RemoveKey ==
    /\ At("k") /\ ~adding
    /\ LET spare == More /\ Len(params) - paramIdx + 1 > paramsRequiredFrom(i + 1, adding)
       IN  Step(IF spare THEN 1 ELSE 0, [modes EXCEPT !.k = Empty],
                <<Change(FALSE, "k", IF spare THEN params[paramIdx] ELSE Empty)>>, {})

SetOperator ==
    /\ At("o") /\ More
    /\ LET who == Member[params[paramIdx]]
       IN  \/ who # Nobody
              /\ Step(1, [modes EXCEPT !.ops = IF adding THEN @ \cup {who} ELSE @ \ {who}],
                      <<Change(adding, "o", who)>>, {})
           \/ who = Nobody
              /\ Step(1, modes, <<>>, {<<"441", params[paramIdx]>>})

SetLimit ==
    /\ At("l") /\ adding /\ More
    /\ LET limit == LimitOf[params[paramIdx]]
       IN  \/ limit > 0
              /\ Step(1, [modes EXCEPT !.l = limit], <<Change(TRUE, "l", Render[limit])>>, {})
           \/ limit = 0
              /\ Step(1, modes, <<>>, {<<"696", params[paramIdx]>>})

RemoveLimit ==
    /\ At("l") /\ ~adding
    /\ Step(0, [modes EXCEPT !.l = 0], <<Change(FALSE, "l", Empty)>>, {})

Unknown(known, numeric) ==
    /\ i <= Len(modeStr)
    /\ modeStr[i] \notin known \cup {"+", "-"}
    /\ Step(0, modes, <<>>, {<<numeric, modeStr[i]>>})

handleChannelMode ==
    /\ kind = "channel"
    /\ \/ Flag("i") \/ Flag("t")
       \/ Starved
       \/ SetKey \/ RemoveKey
       \/ SetOperator
       \/ SetLimit \/ RemoveLimit
       \/ Unknown({"i", "t", "k", "o", "l"}, "472")

handleUserMode ==
    /\ kind = "user"
    /\ \/ Flag("i") \/ Flag("w")
       \/ Unknown({"i", "w"}, "501")

-----------------------------------------------------------------------------
(* renderModeLines: changes are put on a line while it stays in the budget. *)

Grown(line, x) ==
    [modes |-> line.modes
               \o (IF line.taken = 0 \/ x.adding # line.sign
                   THEN <<IF x.adding THEN "+" ELSE "-">> ELSE <<>>)
               \o <<x.letter>>,
     params |-> line.params \o (IF x.param = Empty THEN <<>> ELSE <<x.param>>),
     sign |-> x.adding,
     taken |-> line.taken + 1]

Width(line) ==
    HeadSize + Len(line.modes) + FoldLeft(LAMBDA w, p : w + 1 + Size[p], 0, line.params)

Rendering == i > Len(modeStr) /\ at <= Len(applied)

(* Faulty: the line is measured before the change is on it.                *)
FitsOn_before(line, x) == line.taken = 0 \/ Width(line) <= Budget

FitsOn(line, x) == line.taken = 0 \/ Width(Grown(line, x)) <= Budget

TakeChange ==
    /\ Rendering /\ FitsOn(cur, applied[at])
    /\ cur' = Grown(cur, applied[at])
    /\ at' = at + 1
    /\ UNCHANGED <<input, modes, i, adding, paramIdx, applied, reported, lines>>

(* Faulty: the new line goes on with the sign of the last one.             *)
BreakLine_keepsSign ==
    /\ Rendering /\ ~FitsOn(cur, applied[at])
    /\ lines' = Append(lines, cur)
    /\ cur' = [BlankLine EXCEPT !.sign = cur.sign, !.taken = 1]
    /\ UNCHANGED <<input, modes, i, adding, paramIdx, applied, reported, at>>

BreakLine ==
    /\ Rendering /\ ~FitsOn(cur, applied[at])
    /\ lines' = Append(lines, cur)
    /\ cur' = BlankLine
    /\ UNCHANGED <<input, modes, i, adding, paramIdx, applied, reported, at>>

LastLine ==
    /\ i > Len(modeStr) /\ at > Len(applied)
    /\ cur.taken > 0
    /\ lines' = Append(lines, cur)
    /\ cur' = BlankLine
    /\ UNCHANGED <<input, modes, i, adding, paramIdx, applied, reported, at>>

Next ==
    \/ Sign \/ handleChannelMode \/ handleUserMode
    \/ TakeChange \/ BreakLine \/ LastLine

Spec == Init /\ [][Next]_vars

Done == i > Len(modeStr) /\ at > Len(applied) /\ cur.taken = 0

-----------------------------------------------------------------------------
(* A member that reads a line as 005 tells it to, CHANMODES=,,kl,it: o has *)
(* a parameter, k and l have one when they are set.                        *)

Takes(sign, c) == c = "o" \/ (c \in {"k", "l"} /\ sign)

ReadSet(m, sign, c, p) ==
    CASE c = "k" -> [m EXCEPT !.k = IF sign THEN p ELSE Empty]
      [] c = "l" -> [m EXCEPT !.l = IF sign THEN LimitOf[p] ELSE 0]
      [] c = "o" -> [m EXCEPT !.ops = IF sign THEN @ \cup {p} ELSE @ \ {p}]
      [] OTHER -> [m EXCEPT ![c] = sign]

ReadChar(r, c, list) ==
    CASE c \in {"+", "-"} -> [r EXCEPT !.sign = c = "+"]
      [] c \notin {"+", "-"} /\ Takes(r.sign, c) ->
            IF r.next > Len(list) THEN r
            ELSE [r EXCEPT !.modes = ReadSet(@, r.sign, c, list[r.next]), !.next = @ + 1]
      [] OTHER -> [r EXCEPT !.modes = ReadSet(@, r.sign, c, Empty)]

ReadLine(m, line) ==
    LET read[n \in 0 .. Len(line.modes)] ==
            IF n = 0 THEN [modes |-> m, sign |-> TRUE, next |-> 1]
            ELSE ReadChar(read[n - 1], line.modes[n], line.params)
    IN  read[Len(line.modes)].modes

ReadBack ==
    LET back[n \in 0 .. Len(lines)] ==
            IF n = 0 THEN before ELSE ReadLine(back[n - 1], lines[n])
    IN  back[Len(lines)]

-----------------------------------------------------------------------------
(* Correctness.                                                            *)

(* The letters that cannot do without a parameter, by the sign before them. *)
Needy ==
    {n \in 1 .. Len(modeStr) :
        LET signs == {k \in 1 .. n : modeStr[k] \in {"+", "-"}}
        IN  Takes(modeStr[Max(signs)] = "+", modeStr[n])}

(* A MODE with as many parameters as its letters need is never answered    *)
(* that parameters are missing: the optional key of -k starves nobody      *)
(* after it (paramsRequiredFrom).                                          *)
NobodyStarves ==
    <<"461", Empty>> \in reported => Len(params) < Cardinality(Needy)

(* A parameter that was taken is either in an announced change or named in *)
(* a complaint: none disappears (handleChannelMode).                       *)
NoParameterVanishes ==
    \A n \in 1 .. paramIdx - 1 :
        \/ \E x \in Range(applied) :
            \/ x.param = params[n]
            \/ x.letter = "o" /\ x.param = Member[params[n]]
            \/ x.letter = "l" /\ x.adding /\ x.param = Render[LimitOf[params[n]]]
        \/ \E c \in {"441", "525", "696"} : <<c, params[n]>> \in reported

(* A line that holds more than one change is within the budget, so         *)
(* queueMessage does not cut it.                                           *)
LinesFit == \A n \in DOMAIN lines : lines[n].taken > 1 => Width(lines[n]) <= Budget

(* No change that takes a parameter comes after a -k that echoes a key,    *)
(* which CHANMODES does not announce and a reader would take for its own.  *)
NoEchoInTheWay ==
    \A m, n \in DOMAIN applied :
        /\ m < n
        /\ applied[m].letter = "k" /\ ~applied[m].adding /\ applied[m].param # Empty
        => ~Takes(applied[n].adding, applied[n].letter)

(* Whoever reads the announced lines, however they were cut, arrives at    *)
(* the modes the server has, unless an echoed key is in the way            *)
(* (renderModeLines, broadcastModeChanges).                                *)
LinesTellTheModes == Done /\ NoEchoInTheWay => ReadBack = modes
=============================================================================
