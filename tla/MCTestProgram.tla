---------------------------- MODULE MCTestProgram ----------------------------
(* Two small instances of TestProgram.tla for TLC: one queue, with a timer   *)
(* that interrupts anywhere; and the two queues of the code, with a timer    *)
(* that interrupts the sleeper and the children on the first queue.          *)
EXTENDS TestProgram

VARIABLE queues   \* the instance, by its number of queues

Labels == {"sleeper", "create", "spawn", "wait", "waited", "destroy", "shutdown",
           "getc", "open", "read", "write", "load", "store", "sleep", "close", "exit"}

OnePair == ({2, 3} \X Labels) \cup {<<sleeper, "getc">>}

One == INSTANCE TestProgram WITH
    NumQueues <- 1, Iterations <- 3, PreemptAt <- (0 .. 3) \X Labels

Either(one, two) == (queues = 1 /\ one) \/ (queues = 2 /\ two)

MCInit == Either(One!Init, Init)
MCNext == Either(One!Next, Next) /\ UNCHANGED queues

mcVars == <<vars, queues>>

\* The fairness of TestProgram.tla.
Tick   == Either(One!timerInterrupt, timerInterrupt) /\ UNCHANGED queues
Parent == Either(One!initFunction, initFunction) /\ UNCHANGED queues
Child(p) ==
    /\ Either(One!read_childFunction(p) \/ One!write_childFunction(p),
              read_childFunction(p) \/ write_childFunction(p))
    /\ UNCHANGED queues

MCSpec ==
    /\ MCInit /\ [][MCNext]_mcVars
    /\ WF_mcVars(Tick)
    /\ SF_mcVars(Parent)
    /\ \A p \in 2 .. 5 : SF_mcVars(Child(p))
=============================================================================
