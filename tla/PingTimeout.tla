----------------------------- MODULE PingTimeout -----------------------------
(***************************************************************************)
(* The idle timer of one client in seconds: checkTimeouts runs at the end  *)
(* of every pass of the event loop but looks at the clients only when      *)
(* thirty seconds have gone by since it last did, and measures both the    *)
(* PING and the disconnection from the client's last input.  EventLoop has *)
(* the same sweep without the numbers.  Times are kept as ages, counted    *)
(* from time(NULL); a disconnected client's timers stop.                   *)
(***************************************************************************)
EXTENDS Naturals

CONSTANTS
    PING_INTERVAL,  \* silence before a PING, 120 in Replies.hpp
    PING_TIMEOUT,   \* further silence before the disconnection, 120
    SweepPeriod,    \* the 30 of checkTimeouts
    MaxPass         \* bound: the clock's advance over one pass, in seconds

ASSUME PingAssumption ==
    /\ PING_INTERVAL \in Nat /\ PING_TIMEOUT \in Nat
    /\ SweepPeriod \in Nat \ {0} /\ MaxPass \in Nat \ {0}

(* A sweep comes round within the timeout, by a wide margin in the code.   *)
ASSUME SweepAssumption == SweepPeriod + MaxPass <= PING_TIMEOUT + 1

VARIABLES
    idle,      \* now - _lastActivity
    unswept,   \* now - _lastPingCheck
    phase,     \* "quiet", "pinged" (_pingSent), or "dropped"
    asked      \* seconds since the PING that is unanswered, 0 without one

vars == <<idle, unswept, phase, asked>>

(* The client may connect at any time in the sweep's period.               *)
Init ==
    /\ idle = 0 /\ asked = 0
    /\ unswept \in 0..(SweepPeriod - 1)
    /\ phase = "quiet"

(* handleClientInput, on any input (and cmdPong again).                    *)
Input ==
    /\ idle' = 0 /\ phase' = "quiet" /\ asked' = 0
    /\ UNCHANGED unswept

(* A pass that takes t seconds and ends with checkTimeouts.                *)
Later(t) == [idle |-> idle + t, unswept |-> unswept + t,
             asked |-> IF phase = "pinged" THEN asked + t ELSE 0]

NoSweep(t) ==
    /\ Later(t).unswept < SweepPeriod
    /\ unswept' = Later(t).unswept
    /\ idle' = Later(t).idle /\ asked' = Later(t).asked
    /\ UNCHANGED phase

(* Faulty: the second limit alone is compared.                             *)
Overdue_early(i) == phase = "pinged" /\ i > PING_TIMEOUT

Overdue(i) == phase = "pinged" /\ i > PING_INTERVAL + PING_TIMEOUT

(* Faulty: the PING goes out when the client should be dropped.            *)
PingDue_late(i) == phase = "quiet" /\ i > PING_INTERVAL + PING_TIMEOUT

PingDue(i) == phase = "quiet" /\ i > PING_INTERVAL

Sweep(t) ==
    /\ Later(t).unswept >= SweepPeriod
    /\ unswept' = 0
    /\ idle' = Later(t).idle /\ asked' = Later(t).asked
    /\ phase' = IF Overdue(idle') THEN "dropped"
                ELSE IF PingDue(idle') THEN "pinged" ELSE phase

Next == phase # "dropped" /\ (Input \/ \E t \in 0..MaxPass : NoSweep(t) \/ Sweep(t))

Spec == Init /\ [][Next]_vars

-----------------------------------------------------------------------------
(* Ages are numbers within their bounds: a connected client is swept every *)
(* period, however the passes fall.                                        *)
TypeOK ==
    /\ idle \in Nat /\ asked \in Nat /\ unswept \in 0..(SweepPeriod - 1)
    /\ phase \in {"quiet", "pinged", "dropped"}

(* A connected client is never silent for longer than both limits and one  *)
(* sweep: the PING is always out by the time the second limit is judged    *)
(* (SweepAssumption).                                                      *)
SilenceIsBounded ==
    phase # "dropped" => idle < PING_INTERVAL + PING_TIMEOUT + SweepPeriod + MaxPass

(* A client is dropped only after a PING it had time to answer: all of the *)
(* timeout but the lateness of one sweep (checkTimeouts measures both      *)
(* limits from the last input).                                            *)
DroppedAfterGrace ==
    phase = "dropped" => asked + SweepPeriod + MaxPass > PING_TIMEOUT + 1

(* What wiki/scenarios/08-resilience.md promises: a client that does not   *)
(* answer is dropped 120 seconds after the PING.  checkTimeouts counts the *)
(* second limit from the last input too, so a PING that a sweep sends late *)
(* leaves less.                                                            *)
DroppedAfterTimeout == phase = "dropped" => asked >= PING_TIMEOUT

(* The inductive invariant behind both: at the last sweep a client not     *)
(* pinged was within the first limit and one pinged within both, and a     *)
(* PING is never later than one sweep past the first limit.                *)
IInv ==
    /\ TypeOK
    /\ phase = "quiet" => asked = 0 /\ idle <= PING_INTERVAL + unswept
    /\ phase = "pinged" => idle <= PING_INTERVAL + PING_TIMEOUT + unswept
    /\ phase # "quiet" => idle < asked + PING_INTERVAL + SweepPeriod + MaxPass
    /\ phase = "dropped" => idle > PING_INTERVAL + PING_TIMEOUT
===============================================================================
