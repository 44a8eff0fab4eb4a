---------------------------- MODULE MCProcesses ------------------------------
(* Small instances of Processes.tla for TLC.                                 *)
EXTENDS Processes

\* Blocks other than the first are interchangeable (safety runs only).
BlockSymmetry == Permutations(PCBs \ {InitPCB})

\* The safety part of the specification.
SafetySpec == Init /\ [][Next]_vars

\* No guard and no property reads syscall_retvalue.
StateView == <<machine, running, init_pcb, lists, timer_list, family, status, signals,
               awaits, no_context, returned, pcbptr_pool>>
=============================================================================
