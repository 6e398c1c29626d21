---------------------------- MODULE ProgramMatcher ----------------------------
(***************************************************************************)
(* The compiled matcher, grammar/compiled/ProgramMatcher.cpp: it runs all  *)
(* the threads of a program in lockstep over the line (a Pike machine).    *)
(* One step of this specification is one position of the line.             *)
(*                                                                         *)
(* Addresses count from 1.  A class is the set of octets of its bitmap; a  *)
(* thread carries its capture slots instead of an index into the arena     *)
(* they are stored in.  `generation' outlives a line, as in the code; it   *)
(* counts the turns, and the int the code keeps is its Stamp.              *)
(***************************************************************************)
EXTENDS Integers, Sequences, FiniteSets

CONSTANTS Grammars,         \* the grammars a server may have been started with
          Program(_),       \* what the start rule of a grammar compiles to
          Lines(_),         \* the lines a matcher of a grammar may be given
          Reuse(_),         \* how many of them, one after the other
          Generations       \* how many values the generation counter has

VARIABLES grammar, program, line, pos, current, seen, generation, verdict, caps, count

vars == <<grammar, program, line, pos, current, seen, generation, verdict, caps, count>>

-----------------------------------------------------------------------------
(* The instructions that are entered from pc without consuming an octet,   *)
(* in the order of their priority.                                         *)
Follows(code, pc) ==
    CASE code[pc].op = "Jump" -> <<code[pc].x>>
      [] code[pc].op = "Split" -> <<code[pc].x, code[pc].y>>
      [] code[pc].op = "Save" -> <<pc + 1>>
      [] OTHER -> <<>>

Consumes(code, pc, octet) == code[pc].op = "Class" /\ octet \in code[pc].set

(* What waits for an octet, or for the end of the line.                    *)
Waits(code, pc) == code[pc].op \in {"Class", "Match"}

(* A program that can be run: every instruction is one of the five, and    *)
(* none leads outside the code.                                            *)
WellFormed(code) ==
    /\ code \in Seq({code[pc] : pc \in DOMAIN code})
    /\ code # <<>>
    /\ \A pc \in DOMAIN code :
        /\ code[pc].op \in {"Class", "Split", "Jump", "Save", "Match"}
        /\ \A k \in DOMAIN Follows(code, pc) : Follows(code, pc)[k] \in DOMAIN code
        /\ code[pc].op = "Class" => pc + 1 \in DOMAIN code

(* The compiler writes such programs; lines are sequences of octets.       *)
ASSUME ProgramAssumption ==
    /\ \A g \in Grammars : WellFormed(Program(g).code) /\ Lines(g) \subseteq Seq(Nat)
    /\ Generations \in Nat \ {0}

-----------------------------------------------------------------------------
(* Faulty: a counter that is as narrow as it can be.                       *)
Stamp_bit(n) == n % 2

(* The int that counts the turns.                                          *)
Stamp(n) == n % Generations

(* No address: the thread ended at the octet just read.                    *)
Dead == 0

(* A thread is at an instruction and has slots; A is the set of the slots. *)
(* A call may be for no address.  A walk has the threads listed, the marks *)
(* and the calls still to be made.                                         *)
Slot == 1 .. 2 * Len(program.slotCapture)
Thread(code, A) == [pc : DOMAIN code, slots : [A -> Int]]
Call(code, A) == [pc : {Dead} \cup DOMAIN code, slots : [A -> Int]]
Walk(code, A) ==
    [list : Seq(Thread(code, A)), seen : [DOMAIN code -> Nat], todo : Seq(Call(code, A))]

cloneSlots(slots, index, value) ==
    [s \in DOMAIN slots |-> IF s = index THEN value ELSE slots[s]]

(* One call of addThread, the next of those still to be made: follow the   *)
(* instructions that consume nothing, depth first, each at most once per   *)
(* stamp.  The calls it makes itself come before the ones that wait.       *)
Visit(code, t, at, stamp) ==
    LET th == Head(t.todo)
        slots == IF code[th.pc].op = "Save" THEN cloneSlots(th.slots, code[th.pc].x, at)
                 ELSE th.slots
        calls == [k \in DOMAIN Follows(code, th.pc) |->
                    [pc |-> Follows(code, th.pc)[k], slots |-> slots]]
    IN  IF th.pc = Dead \/ t.seen[th.pc] = stamp THEN [t EXCEPT !.todo = Tail(@)]
        ELSE [list |-> IF Waits(code, th.pc) THEN Append(t.list, th) ELSE t.list,
              seen |-> [t.seen EXCEPT ![th.pc] = stamp],
              todo |-> calls \o Tail(t.todo)]

(* addThread, for a sequence of calls, from the marks there are.           *)
addThreads(code, A, calls, marks, at, stamp) ==
    LET Add[t \in Walk(code, A)] ==
            IF t.todo = <<>> THEN t ELSE Add[Visit(code, t, at, stamp)]
    IN  Add[[list |-> <<>>, seen |-> marks, todo |-> calls]]

(* The captures of a thread: a slot pair counts when both ends were saved, *)
(* in the order of the slots.                                              *)
Captured(p, slots, l) ==
    LET full == SelectSeq([s \in DOMAIN p.slotCapture |-> s],
                          LAMBDA s : 0 <= slots[2 * s - 1] /\ slots[2 * s - 1] <= slots[2 * s])
    IN  [k \in DOMAIN full |->
            [rule |-> p.slotCapture[full[k]],
             text |-> SubSeq(l, slots[2 * full[k] - 1] + 1, slots[2 * full[k]])]]

(* Before the first line: no thread, no mark.                              *)
Init ==
    /\ grammar \in Grammars
    /\ program = Program(grammar)
    /\ line = <<>>
    /\ pos = 0
    /\ current = <<>>
    /\ seen = [pc \in DOMAIN program.code |-> 0]
    /\ generation = 0
    /\ verdict = "idle"
    /\ caps = <<>>
    /\ count = 0

(* match(), up to its loop: MatchResult::reset, the slots and the seen     *)
(* marks cleared, the threads before the first octet added.                *)
Begin(l) ==
    LET unset == [s \in Slot |-> -1]
        clear == [pc \in DOMAIN program.code |-> 0]
        t == addThreads(program.code, Slot, <<[pc |-> 1, slots |-> unset]>>, clear, 0,
                        Stamp(generation + 1))
    IN  /\ verdict # "running"
        /\ count < Reuse(grammar)
        /\ line' = l
        /\ pos' = 0
        /\ current' = t.list
        /\ seen' = t.seen
        /\ generation' = generation + 1
        /\ verdict' = "running"
        /\ caps' = <<>>
        /\ count' = count + 1
        /\ UNCHANGED <<grammar, program>>

(* What each thread asks addThread for, once the octet at `pos' is read.   *)
Survivors ==
    [k \in DOMAIN current |->
        [pc |-> IF Consumes(program.code, current[k].pc, line[pos + 1])
                THEN current[k].pc + 1 ELSE Dead,
         slots |-> current[k].slots]]

(* Faulty: the marks of the position before are still believed.            *)
Survive_stale == addThreads(program.code, Slot, Survivors, seen, pos + 1, Stamp(generation))

(* The threads after the octet at `pos'.                                   *)
Survive == addThreads(program.code, Slot, Survivors, seen, pos + 1, Stamp(generation + 1))

(* One turn of the loop with an octet left.                                *)
Advance ==
    LET t == Survive
    IN  /\ verdict = "running"
        /\ pos < Len(line)
        /\ pos' = pos + 1
        /\ current' = t.list
        /\ seen' = t.seen
        /\ generation' = generation + 1
        /\ verdict' = IF t.list = <<>> THEN "no" ELSE "running"
        /\ UNCHANGED <<grammar, program, line, caps, count>>

(* The last turn: the first thread at Match decides.                       *)
Finish ==
    LET done == {k \in DOMAIN current : program.code[current[k].pc].op = "Match"}
        first == CHOOSE k \in done : \A j \in done : k <= j
    IN  /\ verdict = "running"
        /\ pos = Len(line)
        /\ generation' = generation + 1
        /\ \/ /\ done # {}
              /\ verdict' = "yes"
              /\ caps' = Captured(program, current[first].slots, line)
           \/ /\ done = {}
              /\ verdict' = "no"
              /\ UNCHANGED caps
        /\ UNCHANGED <<grammar, program, line, pos, current, seen, count>>

Next == (\E l \in Lines(grammar) : Begin(l)) \/ Advance \/ Finish

Spec == Init /\ [][Next]_vars

-----------------------------------------------------------------------------
(* The verdict on a line is in and is about this grammar.                  *)
Decided == verdict \in {"yes", "no"}

(* What a program accepts, one thread at a time and without any marks: a   *)
(* run is at an instruction and a position.                                *)
Runs(code, l) == (DOMAIN code) \X (0 .. Len(l))

Moves(code, l, c) ==
    {<<Follows(code, c[1])[k], c[2]>> : k \in DOMAIN Follows(code, c[1])}
    \cup (IF c[2] < Len(l) /\ Consumes(code, c[1], l[c[2] + 1]) THEN {<<c[1] + 1, c[2] + 1>>}
          ELSE {})

(* Everywhere a run can get to, by rounds: w[1] is where it may have been, *)
(* w[2] where it may be now.                                               *)
Reachable(code, l) ==
    LET Grow[w \in (SUBSET Runs(code, l)) \X (SUBSET Runs(code, l))] ==
            IF w[2] \subseteq w[1] THEN w[1]
            ELSE Grow[<<w[1] \cup w[2], UNION {Moves(code, l, c) : c \in w[2] \ w[1]}>>]
    IN  Grow[<<{}, {<<1, 0>>}>>]

Accepts(code, l) ==
    \E c \in Reachable(code, l) : code[c[1]].op = "Match" /\ c[2] = Len(l)

(* In lockstep and with each instruction entered once per position the     *)
(* machine still decides what its program accepts, whatever lines came     *)
(* before, until the int that counts the turns comes round.                *)
DecidesItsProgram ==
    Decided /\ generation < Generations =>
        (verdict = "yes") = Accepts(program.code, line)
=============================================================================
