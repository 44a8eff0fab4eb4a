----------------------------- MODULE MCResources -----------------------------
(* Small instances of Resources.tla for TLC.                                 *)
EXTENDS Resources, TLC

\* Two texts that fit and one that is too long (MESSAGE_STRING_MAX_LENGTH = 2).
MCMessages == {[text |-> "x", length |-> 1], [text |-> "y", length |-> 2],
               [text |-> "z", length |-> 3]}

\* Blocks of one pool are interchangeable: no constant and no property names one.
BlockSymmetry == Permutations(MsgBlocks) \cup Permutations(Descriptors)

\* No guard reads syscall_retvalue or return_value; a run whose properties do
\* not either may take states that differ only there as one.
StateView == <<mqVars, machine, listVars, descVars, pcbs, listed>>
=============================================================================
