-------------------------- MODULE PingTimeout_proofs --------------------------
(* The bounds of PingTimeout for every value of its constants.             *)
EXTENDS PingTimeout, TLAPS

LEMMA InitIInv == Init => IInv
  BY PingAssumption, SweepAssumption DEF Init, IInv, TypeOK

LEMMA NextIInv == IInv /\ [Next]_vars => IInv'
<1> SUFFICES ASSUME IInv, [Next]_vars PROVE IInv'
  OBVIOUS
<1> USE PingAssumption, SweepAssumption DEF IInv, TypeOK
<1>1. CASE Input
  BY <1>1 DEF Input
<1>2. ASSUME phase # "dropped", NEW t \in 0..MaxPass, NoSweep(t) PROVE IInv'
  BY <1>2 DEF NoSweep, Later
<1>3. ASSUME phase # "dropped", NEW t \in 0..MaxPass, Sweep(t) PROVE IInv'
  <2>1. CASE phase = "pinged"
    BY <1>3, <2>1 DEF Sweep, Later, Overdue, PingDue
  <2>2. CASE phase = "quiet"
    BY <1>3, <2>2 DEF Sweep, Later, Overdue, PingDue
  <2>3. QED
    BY <1>3, <2>1, <2>2
<1>4. CASE UNCHANGED vars
  BY <1>4 DEF vars
<1>5. QED
  BY <1>1, <1>2, <1>3, <1>4 DEF Next

(* The timers keep to their types and to the inductive invariant.          *)
THEOREM Invariance == Spec => []IInv
  BY InitIInv, NextIInv, PTL DEF Spec

(* However the passes of the loop fall, a connected client is silent for   *)
(* less than both limits, a sweep period and a pass.                       *)
THEOREM Bounded == Spec => []SilenceIsBounded
<1>1. IInv => SilenceIsBounded
  BY PingAssumption, SweepAssumption DEF IInv, TypeOK, SilenceIsBounded
<1>2. QED
  BY <1>1, Invariance, PTL

(* A client is dropped only after a PING left unanswered for all of the    *)
(* timeout but the lateness of one sweep.                                  *)
THEOREM Grace == Spec => []DroppedAfterGrace
<1>1. IInv => DroppedAfterGrace
  BY PingAssumption, SweepAssumption DEF IInv, TypeOK, DroppedAfterGrace
<1>2. QED
  BY <1>1, Invariance, PTL
===============================================================================
