----------------------------- MODULE TimerLists ------------------------------
(* The ordered list of timers as a sequence of [pcb, left] records, left      *)
(* being the ticks that remain.  Processes.tla uses these operators, and      *)
(* TimerMemory.tla shows that the list of disastrOS_timer.c implements them.  *)
EXTENDS Integers, SequencesExt

\* Fault: the timer goes to the end of the list.
TimerList_position_Last(list, ticks) == Len(list) + 1

\* After the timers that elapse at the same tick or earlier.
TimerList_position(list, ticks) ==
    LET i == SelectInSeq(list, LAMBDA t : ticks < t.left)
    IN  IF i = 0 THEN Len(list) + 1 ELSE i

TimerList_add(list, ticks, p) ==
    InsertAt(list, TimerList_position(list, ticks), [pcb |-> p, left |-> ticks])

\* Fault: disastrOS_time does not advance.
Ticked_Not(list) == list

\* ++disastrOS_time.
Ticked(list) == [i \in DOMAIN list |-> [list[i] EXCEPT !.left = @ - 1]]

\* How many timers TimerList_current and TimerList_removeCurrent take, one
\* after the other: the scheduler stops at the first that has not elapsed.
NumElapsed(list) ==
    LET i == SelectInSeq(list, LAMBDA t : t.left > 0)
    IN  IF i = 0 THEN Len(list) ELSE i - 1

Elapsed(list)   == SubSeq(list, 1, NumElapsed(list))
Remaining(list) == SubSeq(list, NumElapsed(list) + 1, Len(list))

\* exit detaches the timers of the process that ends, from the first on.
WithoutTimersOf(list, p) ==
    LET kept[n \in 0 .. Len(list)] ==
            IF n = 0 THEN <<>>
            ELSE IF list[n].pcb = p THEN kept[n - 1] ELSE Append(kept[n - 1], list[n])
    IN  kept[Len(list)]
=============================================================================
