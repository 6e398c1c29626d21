----------------------------- MODULE MCIrcServer -----------------------------
(* A small instance of IrcServer.                                          *)
EXTENDS IrcServer, TLC

(* Two spellings of one nickname, a nickname too long whose cut form is    *)
(* one of them, another, and the bot's.                                    *)
MCToken == {"al", "AL", "alLong", "bo", "ircbot", "pw", "wrong", "key", "1", "hello"}
MCFold == [t \in MCToken \cup {"*", ""} |-> IF t = "AL" THEN "al" ELSE t]
MCLimitOf == [t \in MCToken \cup {""} |-> IF t = "1" THEN 1 ELSE 0]
MCValidNick == {"al", "AL", "alLong", "bo", "ircbot"}
MCTruncate == [n \in MCValidNick |-> IF n = "alLong" THEN "al" ELSE n]

(* Both channels, one of them with a key; one twice and a bad name between. *)
MCJoinLists == {<< <<"#a", "">>, <<"#b", "key">> >>, << <<"#b", "">>, <<"bad", "">>, <<"#b", "">> >>}
MCPartLists == {<<"#a">>, <<"#b", "#a", "#b">>}

Set(l) == [add |-> TRUE, letter |-> l, arg |-> ""]
Unset(l) == [add |-> FALSE, letter |-> l, arg |-> ""]
With(x, a) == [x EXCEPT !.arg = a]

(* Everything on; everything off, and parameters that are missing or bad;  *)
(* an operator made, by another spelling, and a letter that is none; an    *)
(* operator bit taken, the giver's own perhaps, with +i behind it.         *)
MCModeStrings ==
    {<<Set("i"), Set("t"), With(Set("k"), "key"), With(Set("l"), "1")>>,
     <<Unset("i"), Unset("t"), Unset("k"), Unset("l"), Set("k"), With(Set("l"), "hello")>>,
     <<With(Set("o"), "AL"), Set("unknown")>>,
     <<With(Unset("o"), "bo"), Set("i")>>}

Symmetry == Permutations(Fd)
==============================================================================
