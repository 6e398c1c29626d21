------------------------------- MODULE Sessions -------------------------------
(***************************************************************************)
(* What the server promises about a connection, whatever it carries: a     *)
(* session opens on a free descriptor, is torn down once, and then either  *)
(* ends at once or is leaving, which it can only stop doing by ending.     *)
(* Several sessions may move in one step (a timeout sweep).                *)
(***************************************************************************)
CONSTANT Fd
VARIABLE state

Init == state = [c \in Fd |-> "free"]

(* From free only to open; from open anywhere; from leaving only to free.  *)
Move == {<<"free", "open">>, <<"open", "leaving">>, <<"open", "free">>, <<"leaving", "free">>}

Next ==
    /\ state' \in [Fd -> {"free", "open", "leaving"}]
    /\ \A c \in Fd : state'[c] = state[c] \/ <<state[c], state'[c]>> \in Move

SafeSpec == Init /\ [][Next]_state

Spec == SafeSpec /\ \A c \in Fd : state[c] = "leaving" ~> state[c] = "free"
===============================================================================
