------------------------------ MODULE MCMemory -------------------------------
(* A small instance of MessageMemory.tla and TimerMemory.tla for TLC.  The   *)
(* two have no variable in common, so what holds of one while the other      *)
(* rests holds of both: a behaviour works on one of them only.               *)
EXTENDS MessageMemory, TimerMemory, TLC

VARIABLE works_on

Symmetry == Permutations(Queues) \cup Permutations(PCBs)

MCText       == [text |-> "x", length |-> 1]
MCSleepTimes == {-1, 0, 1, 2, 3}

MCInit == Init /\ TimerInit /\ works_on \in {"messages", "timers"}

MCNext ==
    /\ UNCHANGED works_on
    /\ \/ works_on = "messages" /\ Next /\ UNCHANGED timerVars
       \/ works_on = "timers" /\ TimerNext /\ UNCHANGED memVars

MCSpec == MCInit /\ [][MCNext]_<<memVars, timerVars, works_on>>
=============================================================================
