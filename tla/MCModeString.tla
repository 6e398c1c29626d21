---------------------------- MODULE MCModeString ----------------------------
(* Small instances of ModeString.                                          *)
EXTENDS ModeString

CONSTANTS MaxLen, MaxParams

(* Every mode string up to MaxLen over the signs, a plain flag, the three  *)
(* letters with parameters and one that only users have; +t is a flag more. *)
MCModeStrs == BoundedSeq({"+", "-", "i", "k", "o", "l", "w"}, MaxLen) \cup {<<"+", "t">>}

(* A member's nickname in another spelling, a limit with a leading zero    *)
(* (both good as keys) and a parameter that no letter accepts.             *)
Token == {"BO", "05", "a,"}
MCParams == BoundedSeq(Token, MaxParams)
MCMember == [p \in Token |-> IF p = "BO" THEN "bo" ELSE "nobody"]
MCLimitOf == [p \in Token \cup {"5", "bo", "old"} |-> IF p \in {"05", "5"} THEN 5 ELSE 0]
MCRender == [n \in {0, 5} |-> IF n = 5 THEN "5" ELSE "0"]
MCSize == [p \in Token \cup {"5", "bo", "old"} |-> IF p = "5" THEN 1 ELSE IF p = "old" THEN 3 ELSE 2]

MCStarts ==
    {[i |-> FALSE, t |-> FALSE, w |-> FALSE, k |-> "", l |-> 0, ops |-> {"bo"}],
     [i |-> TRUE, t |-> FALSE, w |-> TRUE, k |-> "old", l |-> 5, ops |-> {}]}
=============================================================================
