------------------------------- MODULE MCKernel ------------------------------
(* A small instance of Kernel.tla for TLC.                                   *)
EXTENDS Kernel, TLC

MCMessages == {[text |-> "x", length |-> 1]}
MCModes    == {DSOS_CREATE, DSOS_READ, DSOS_WRITE}

Symmetry == Permutations(Descriptors) \cup Permutations(PCBs \ {InitPCB})

\* No guard reads the result fields, the signals or which process has a role,
\* and nothing follows a state in which the machine has stopped: the properties
\* are checked on every step to it, and what it holds is of no consequence.
StateView ==
    IF machine = "up"
    THEN <<pcbs, pcbptr_pool, R!Roles, msgs, message, m_pool, stale_links,
           resources_list, resource_id, pointerVars, descriptors, last_fd,
           running, init_pcb, ready_list, waiting_list, zombie_list, timer_list,
           status, parent, children, awaits, no_context, returned>>
    ELSE <<machine>>
=============================================================================
