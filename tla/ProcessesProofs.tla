--------------------------- MODULE ProcessesProofs ---------------------------
(* The safety invariants of Processes.tla hold for any number of PCBs and     *)
(* PCBPtrs, any sleep times and any calls.  They are proved together, from    *)
(* one inductive invariant: the family needs to know where every process is,  *)
(* and the timers need to know who waits.                                     *)
EXTENDS Processes, SequenceFacts

\* The processes in a list of children.
Kids(r) == ToSet(children[r])

Timers == [pcb : PCBs, left : Int]

Statuses == {"Created", "Ready", "Running", "Waiting", "Zombie"}

TypeOK ==
    /\ machine \in {"up", "segv", "hang", "off"}
    /\ running \in PCBs \cup {NULL} /\ init_pcb \in PCBs
    /\ ready_list \in Seq(PCBs)
    /\ waiting_list \subseteq PCBs /\ zombie_list \subseteq PCBs
    /\ timer_list \in Seq(Timers)
    /\ pcbs \subseteq PCBs /\ returned \subseteq PCBs /\ no_context \subseteq PCBs
    /\ status \in [PCBs -> Statuses]
    /\ parent \in [PCBs -> PCBs \cup {NULL}]
    /\ children \in [PCBs -> Seq(PCBs)]
    /\ signals \in [PCBs -> SUBSET {"SIGHUP", "SIGCHLD"}]
    /\ awaits \in [PCBs -> PCBs \cup {AnyChild, NoPid, NULL}]
    /\ pcbptr_pool \in Nat
    /\ syscall_retvalue \in
          [PCBs -> PCBs \cup {0, DSOS_EWAIT, DSOS_ESLEEP} \cup OtherResults]

\* Where a process is.
PlacesOK ==
    /\ pcbs = ({running} \ {NULL}) \cup ToSet(ready_list) \cup waiting_list
                \cup zombie_list \cup returned
    /\ running \notin ToSet(ready_list) \cup waiting_list \cup zombie_list \cup returned
    /\ ToSet(ready_list) \cap (waiting_list \cup zombie_list \cup returned) = {}
    /\ waiting_list \cap (zombie_list \cup returned) = {}
    /\ zombie_list \cap returned = {}
    /\ Distinct(ready_list)

\* What its status says.  The status of a freed block still counts: exit reads
\* it through a parent field that was never updated.
StatusOK ==
    /\ \A b \in ToSet(ready_list) : status[b] = "Ready"
    /\ \A b \in PCBs : status[b] = "Waiting" <=> b \in waiting_list
    /\ \A b \in pcbs : status[b] = "Zombie" <=> b \in zombie_list

\* No process has two timers, and they are in order.
OneTimerEach(list) ==
    \A i, j \in DOMAIN list : list[i].pcb = list[j].pcb => i = j

InOrder(list) ==
    \A i, j \in DOMAIN list : i < j => list[i].left <= list[j].left

TimersOK ==
    /\ Timed = {b \in waiting_list : awaits[b] = NULL}
    /\ \A b \in PCBs : awaits[b] # NULL => b \in waiting_list
    /\ OneTimerEach(timer_list)
    /\ InOrder(timer_list)

\* The lists of children: of live processes, disjoint, and a list holds a
\* process that another one created only when it is that of an init.
FamilyOK ==
    /\ init_pcb \in pcbs \ zombie_list /\ parent[init_pcb] = NULL
    /\ \A r \in PCBs : Distinct(children[r])
    /\ \A r \in PCBs : Kids(r) # {} => r \in pcbs \ zombie_list
    /\ \A r \in PCBs : \A c \in Kids(r) :
          /\ c \in pcbs /\ parent[c] # NULL
          /\ parent[c] = r \/ parent[r] = NULL
          /\ \A q \in PCBs : c \in Kids(q) => q = r
    /\ \A b \in pcbs : parent[b] # NULL => \E r \in PCBs : b \in Kids(r)

IInv == TypeOK /\ PlacesOK /\ StatusOK /\ TimersOK /\ FamilyOK /\ NoMissedExit /\ FamilySignalled
-----------------------------------------------------------------------------
\* disastrOS_start establishes the invariant.
LEMMA InitIInv == Init => IInv
<1> SUFFICES ASSUME Init PROVE IInv
  OBVIOUS
<1> USE ProcessAssumption
<1>1. TypeOK
  BY DEF Init, TypeOK, Statuses
<1>2. ToSet(ready_list) = {} /\ Distinct(ready_list)
  BY EmptyList DEF Init
<1>3. \A r \in PCBs : Kids(r) = {} /\ Distinct(children[r])
  BY EmptyList DEF Init, Kids
<1>4. PlacesOK
  BY <1>2 DEF Init, PlacesOK
<1>5. StatusOK
  BY <1>2 DEF Init, StatusOK
<1>6. TimersOK
  <2>1. Timed = {}
    BY DEF Init, Timed
  <2>2. \A b \in PCBs : awaits[b] = NULL
    BY DEF Init
  <2> QED BY <2>1, <2>2 DEF Init, TimersOK, OneTimerEach, InOrder
<1>7. FamilyOK
  BY <1>3 DEF Init, FamilyOK
<1>8. NoMissedExit /\ FamilySignalled
  BY <1>3 DEF Init, NoMissedExit, FamilySignalled, Kids
<1> QED BY <1>1, <1>4, <1>5, <1>6, <1>7, <1>8 DEF IInv

\* The machine stops, or a call changes nothing but its result.
LEMMA QuietStep ==
    ASSUME IInv,
           UNCHANGED <<running, init_pcb, lists, timer_list, family, status, signals,
                       awaits, no_context, returned>>,
           machine' \in {"up", "segv", "hang", "off"}, pcbptr_pool' \in Nat,
           syscall_retvalue' \in
              [PCBs -> PCBs \cup {0, DSOS_EWAIT, DSOS_ESLEEP} \cup OtherResults]
    PROVE  IInv'
<1> USE DEF IInv, lists, family
<1>1. TypeOK'
  BY DEF TypeOK
<1>2. PlacesOK' /\ StatusOK'
  BY DEF PlacesOK, StatusOK
<1>3. TimersOK'
  BY DEF TimersOK, Timed, OneTimerEach, InOrder
<1>4. FamilyOK' /\ NoMissedExit' /\ FamilySignalled'
  BY DEF FamilyOK, Kids, NoMissedExit, FamilySignalled
<1> QED BY <1>1, <1>2, <1>3, <1>4

\* The process that runs in user mode.
LEMMA InUserMode ==
    ASSUME IInv, UserMode
    PROVE  /\ running \in pcbs /\ running \in PCBs /\ running # NULL
           /\ running \notin ToSet(ready_list) \cup waiting_list \cup zombie_list \cup returned
           /\ running \notin Timed /\ status[running] # "Waiting" /\ awaits[running] = NULL
           /\ machine = "up"
BY ProcessAssumption DEF IInv, UserMode, TypeOK, PlacesOK, StatusOK, TimersOK
-----------------------------------------------------------------------------
\* Spawn and fork: a block from the pool becomes ready and the running process's
\* last child.
LEMMA NewChildStep ==
    ASSUME IInv, UserMode, NEW b \in PCBs, NewChild(b), no_context' \subseteq PCBs
    PROVE  IInv'
<1> USE DEF IInv
<1>1. /\ running \in pcbs /\ running \in PCBs /\ b \notin pcbs /\ b # running
      /\ running \notin zombie_list \cup waiting_list
  BY InUserMode DEF NewChild, FreeBlocks
<1>2. /\ \A r \in PCBs : Kids(r)' = IF r = b THEN {}
                                    ELSE IF r = running THEN Kids(r) \cup {b} ELSE Kids(r)
      /\ \A r \in PCBs : Distinct(children[r]')
      /\ children' \in [PCBs -> Seq(PCBs)]
  <2>1. children \in [PCBs -> Seq(PCBs)]
    BY DEF TypeOK
  <2>2. /\ children' \in [PCBs -> Seq(PCBs)]
        /\ \A r \in PCBs : children'[r] =
              IF r = b THEN <<>>
              ELSE IF r = running THEN Append(children[r], b) ELSE children[r]
    <3> DEFINE longer == Append(children[running], b)
    <3>1. longer \in Seq(PCBs) /\ <<>> \in Seq(PCBs)
      BY <1>1, <2>1, AppendList
    <3>2. children' = [children EXCEPT ![b] = <<>>, ![running] = longer]
      BY <1>1, <2>1 DEF NewChild
    <3> HIDE DEF longer
    <3>3. /\ children' \in [PCBs -> Seq(PCBs)]
          /\ \A r \in PCBs : children'[r] =
                IF r = b THEN <<>> ELSE IF r = running THEN longer ELSE children[r]
      BY <1>1, <2>1, <3>1, <3>2
    <3> QED BY <3>3 DEF longer
  <2>3. Kids(b) = {} /\ b \notin Kids(running)
    BY <1>1 DEF FamilyOK
  <2>4. /\ ToSet(Append(children[running], b)) = Kids(running) \cup {b}
        /\ Distinct(Append(children[running], b))
    BY <1>1, <2>1, <2>3, AppendList DEF FamilyOK, Kids
  <2>5. ASSUME NEW r \in PCBs
        PROVE  /\ Distinct(children'[r])
               /\ ToSet(children'[r]) = IF r = b THEN {}
                     ELSE IF r = running THEN Kids(r) \cup {b} ELSE Kids(r)
    <3>1. CASE r = b
      BY <1>1, <2>2, <3>1, EmptyList
    <3>2. CASE r = running
      BY <1>1, <2>2, <2>4, <3>2
    <3>3. CASE r # b /\ r # running
      BY <2>2, <3>3 DEF Kids, FamilyOK
    <3> QED BY <3>1, <3>2, <3>3
  <2> QED BY <2>2, <2>5 DEF Kids
<1>3. ready_list' \in Seq(PCBs) /\ ToSet(ready_list') = ToSet(ready_list) \cup {b}
      /\ Distinct(ready_list')
  <2>1. b \notin ToSet(ready_list)
    BY <1>1 DEF PlacesOK
  <2> QED BY <2>1, AppendList DEF NewChild, TypeOK, PlacesOK
<1>4. TypeOK'
  <2>1. pcbptr_pool' \in Nat
    BY DEF NewChild, NoRoom, TypeOK
  <2>2. status' \in [PCBs -> Statuses] /\ parent' \in [PCBs -> PCBs \cup {NULL}]
    BY <1>1 DEF NewChild, TypeOK, Statuses
  <2>3. signals' \in [PCBs -> SUBSET {"SIGHUP", "SIGCHLD"}]
    BY DEF NewChild, TypeOK
  <2>4. syscall_retvalue' \in
          [PCBs -> PCBs \cup {0, DSOS_EWAIT, DSOS_ESLEEP} \cup OtherResults]
    BY <1>1 DEF NewChild, TypeOK, Return
  <2> QED BY <1>1, <1>2, <1>3, <2>1, <2>2, <2>3, <2>4 DEF NewChild, TypeOK
<1>5. PlacesOK'
  BY <1>1, <1>3 DEF NewChild, PlacesOK
<1>6. /\ \A c \in PCBs : status'[c] = IF c = b THEN "Ready" ELSE status[c]
      /\ \A c \in PCBs : parent'[c] = IF c = b THEN running ELSE parent[c]
      /\ \A c \in PCBs : signals'[c] = IF c = b THEN {} ELSE signals[c]
      /\ pcbs' = pcbs \cup {b}
      /\ UNCHANGED <<init_pcb, waiting_list, zombie_list, timer_list, awaits>>
  BY DEF NewChild, TypeOK
<1>7. b \notin waiting_list /\ b \notin zombie_list
  BY <1>1 DEF PlacesOK
<1>8. StatusOK'
  <2>1. ready_list \in Seq(PCBs) /\ ToSet(ready_list) \subseteq PCBs
    BY ToSetType DEF TypeOK
  <2> QED BY <1>3, <1>6, <1>7, <2>1 DEF StatusOK, TypeOK
<1>9. TimersOK'
  BY <1>6 DEF TimersOK, Timed, OneTimerEach, InOrder
<1>10. FamilyOK'
  <2>1. running # NULL /\ init_pcb # b
    BY <1>1, ProcessAssumption DEF FamilyOK
  <2>2. \A r \in PCBs : b \notin Kids(r) /\ Kids(b) = {}
    BY <1>1 DEF FamilyOK
  <2>3. init_pcb' \in pcbs' \ zombie_list' /\ parent'[init_pcb'] = NULL
    BY <1>6, <2>1 DEF FamilyOK, TypeOK
  <2>4. ASSUME NEW r \in PCBs, Kids(r)' # {} PROVE r \in pcbs' \ zombie_list'
    BY <1>1, <1>2, <1>6, <2>4 DEF FamilyOK
  <2>5. ASSUME NEW r \in PCBs, NEW c \in Kids(r)'
        PROVE  /\ c \in pcbs' /\ parent'[c] # NULL
               /\ parent'[c] = r \/ parent'[r] = NULL
               /\ \A q \in PCBs : c \in Kids(q)' => q = r
    <3>1. r # b
      BY <1>2
    <3>2. CASE c = b
      BY <1>2, <1>6, <2>1, <2>2, <3>1, <3>2
    <3>3. CASE c # b
      <4>0. c \in Kids(r)
        BY <1>2, <3>1, <3>3
      <4>1. c \in Kids(r) /\ c \in pcbs /\ c \in PCBs
        BY <4>0 DEF FamilyOK, TypeOK
      <4>2. parent'[c] = parent[c] /\ parent'[r] = parent[r]
        BY <1>6, <3>1, <3>3, <4>1
      <4>3. \A q \in PCBs : c \in Kids(q)' => c \in Kids(q)
        BY <1>2, <3>3
      <4> QED BY <1>6, <4>1, <4>2, <4>3 DEF FamilyOK
    <3> QED BY <3>2, <3>3
  <2>6. ASSUME NEW c \in pcbs', parent'[c] # NULL PROVE \E r \in PCBs : c \in Kids(r)'
    <3>1. CASE c = b
      BY <1>1, <1>2, <3>1
    <3>2. CASE c # b
      <4>1. c \in pcbs /\ parent[c] # NULL
        BY <1>6, <2>6, <3>2 DEF TypeOK
      <4>2. PICK r \in PCBs : c \in Kids(r)
        BY <4>1 DEF FamilyOK
      <4> QED BY <1>2, <2>2, <4>2
    <3> QED BY <3>1, <3>2
  <2> QED BY <1>2, <2>3, <2>4, <2>5, <2>6 DEF FamilyOK
<1>11. NoMissedExit'
  <2> SUFFICES ASSUME NEW p \in waiting_list', NEW z \in zombie_list',
                      awaits'[p] \in {AnyChild, z}, z \in Kids(p)'
               PROVE  parent'[z] # p
    BY DEF NoMissedExit, Kids
  <2>1. /\ p \in waiting_list /\ z \in zombie_list /\ p \in PCBs /\ z \in PCBs
        /\ awaits[p] \in {AnyChild, z}
    BY <1>6 DEF TypeOK
  <2>2. p # b /\ z # b /\ p # running
    BY <1>1, <1>7, <2>1
  <2>3. z \in Kids(p)
    BY <1>2, <2>1, <2>2
  <2>4. parent[z] # p
    BY <2>1, <2>3 DEF NoMissedExit, Kids
  <2> QED BY <1>6, <2>1, <2>2, <2>4
<1>12. FamilySignalled'
  <2> SUFFICES ASSUME NEW p \in pcbs', NEW c \in Kids(p)'
               PROVE  /\ parent'[c] # p => "SIGHUP" \in signals'[c]
                      /\ parent'[c] = p /\ c \in zombie_list' => "SIGCHLD" \in signals'[p]
    BY DEF FamilySignalled, Kids
  <2>1. p \in PCBs /\ p \in pcbs /\ p # b
    BY <1>1, <1>2, <1>6 DEF TypeOK
  <2>2. CASE c = b
    <3>1. b \notin Kids(p)
      BY <1>1, <2>1 DEF FamilyOK
    <3>2. p = running
      BY <1>2, <2>1, <2>2, <3>1
    <3> QED BY <1>6, <1>7, <2>2, <3>2
  <2>3. CASE c # b
    <3>0. c \in Kids(p)
      BY <1>2, <2>1, <2>3
    <3>1. c \in Kids(p) /\ c \in PCBs
      BY <2>1, <3>0 DEF FamilyOK, TypeOK
    <3> QED BY <1>6, <2>1, <2>3, <3>1 DEF FamilySignalled, Kids
  <2> QED BY <2>2, <2>3
<1> QED BY <1>4, <1>5, <1>8, <1>9, <1>10, <1>11, <1>12

\* A block that no process uses becomes the second init.
LEMMA StartAgainStep ==
    ASSUME IInv, disastrOS_start_again
    PROVE  IInv'
<1> USE DEF IInv
<1>1. CASE Segv
  BY <1>1, QuietStep DEF Segv, Stop, TypeOK
<1>2. ASSUME ~ Segv PROVE IInv'
  <2>1. PICK b \in FreeBlocks :
            /\ pcbs' = pcbs \cup {b}
            /\ returned' = returned \cup ({running} \ {NULL})
            /\ running' = b
            /\ init_pcb' = b
            /\ status' = [status EXCEPT ![b] = "Running"]
            /\ parent' = [parent EXCEPT ![b] = NULL]
            /\ children' = [children EXCEPT ![b] = <<>>]
            /\ signals' = [signals EXCEPT ![b] = {}]
            /\ no_context' = no_context \ {b}
            /\ UNCHANGED <<machine, lists, timer_list, awaits, pcbptr_pool,
                           syscall_retvalue>>
    BY <1>2 DEF disastrOS_start_again
  <2>2. b \in PCBs /\ b \notin pcbs /\ b # NULL /\ running \in PCBs \cup {NULL}
    BY ProcessAssumption DEF FreeBlocks, TypeOK
  <2>3. TypeOK'
    BY <2>1, <2>2 DEF TypeOK, Statuses, lists
  <2>4. PlacesOK'
    BY <2>1, <2>2 DEF PlacesOK, lists
  <2>5. b \notin ToSet(ready_list) \cup waiting_list \cup zombie_list
    BY <2>2 DEF PlacesOK
  <2>6. /\ \A c \in PCBs : status'[c] = IF c = b THEN "Running" ELSE status[c]
        /\ \A c \in PCBs : parent'[c] = IF c = b THEN NULL ELSE parent[c]
        /\ \A c \in PCBs : signals'[c] = IF c = b THEN {} ELSE signals[c]
        /\ UNCHANGED <<ready_list, waiting_list, zombie_list, timer_list, awaits>>
    BY <2>1 DEF TypeOK, lists
  <2>7. StatusOK'
    <3>1. ToSet(ready_list) \subseteq PCBs
      BY ToSetType DEF TypeOK
    <3> QED BY <2>1, <2>2, <2>5, <2>6, <3>1 DEF StatusOK, TypeOK
  <2>8. TimersOK'
    BY <2>6 DEF TimersOK, Timed, OneTimerEach, InOrder
  <2>9. Kids(b) = {} /\ \A r \in PCBs : b \notin Kids(r)
    BY <2>2 DEF FamilyOK
  <2>10. /\ \A r \in PCBs : Kids(r)' = Kids(r)
         /\ \A r \in PCBs : Distinct(children'[r])
    <3>1. children[b] = <<>>
      BY <2>2, <2>9, ToSetType DEF Kids, TypeOK
    <3>2. children' = children
      BY <2>1, <2>2, <3>1 DEF TypeOK
    <3> QED BY <3>2 DEF Kids, FamilyOK
  <2>11. FamilyOK'
    BY <2>1, <2>2, <2>5, <2>6, <2>9, <2>10 DEF FamilyOK, TypeOK
  <2>12. NoMissedExit'
    <3> SUFFICES ASSUME NEW p \in waiting_list', NEW z \in zombie_list',
                        awaits'[p] \in {AnyChild, z}, z \in Kids(p)'
                 PROVE  parent'[z] # p
      BY DEF NoMissedExit, Kids
    <3>1. /\ p \in waiting_list /\ z \in zombie_list /\ p \in PCBs /\ z \in PCBs
          /\ awaits[p] \in {AnyChild, z}
      BY <2>6 DEF TypeOK
    <3>2. z # b /\ z \in Kids(p)
      BY <2>5, <2>10, <3>1
    <3>3. parent[z] # p
      BY <3>1, <3>2 DEF NoMissedExit, Kids
    <3> QED BY <2>6, <3>1, <3>2, <3>3
  <2>13. FamilySignalled'
    BY <2>1, <2>2, <2>5, <2>6, <2>9, <2>10 DEF FamilySignalled, Kids, TypeOK
  <2> QED BY <2>3, <2>4, <2>7, <2>8, <2>11, <2>12, <2>13
<1> QED BY <1>1, <1>2
-----------------------------------------------------------------------------
\* A process that has no timer leaves the timers as they are when it ends.
LEMMA NoTimersOf ==
    ASSUME NEW list \in Seq(Timers), NEW p, \A i \in DOMAIN list : list[i].pcb # p
    PROVE  WithoutTimersOf(list, p) = list
<1> DEFINE Kept(f) == [n \in 0 .. Len(list) |->
                          IF n = 0 THEN <<>>
                          ELSE IF list[n].pcb = p THEN f[n - 1]
                          ELSE Append(f[n - 1], list[n])]
           prefix == [n \in 0 .. Len(list) |-> SubSeq(list, 1, n)]
           kept == CHOOSE f : f = Kept(f)
<1>1. DOMAIN list = 1 .. Len(list) /\ Len(list) \in Nat
  OBVIOUS
<1>2. ASSUME NEW n \in 1 .. Len(list)
      PROVE  SubSeq(list, 1, n) = Append(SubSeq(list, 1, n - 1), list[n])
  <2>1. 1 \in 1 .. Len(list)
    OBVIOUS
  <2>2. SubSeq(list, 1, n) = SubSeq(list, 1, n - 1) \o <<list[n]>>
    BY <2>1, SubSeqRecursiveSecond
  <2>3. SubSeq(list, 1, n - 1) \in Seq(Timers)
    <3>1. n - 1 \in 0 .. Len(list)
      OBVIOUS
    <3> QED BY <3>1, SplitList
  <2> QED BY <2>2, <2>3
<1>3. SubSeq(list, 1, 0) = <<>>
  BY SubSeqEmpty
<1>4. prefix = Kept(prefix)
  <2> SUFFICES ASSUME NEW n \in 0 .. Len(list)
               PROVE  SubSeq(list, 1, n) =
                         IF n = 0 THEN <<>>
                         ELSE IF list[n].pcb = p THEN prefix[n - 1]
                         ELSE Append(prefix[n - 1], list[n])
    OBVIOUS
  <2>1. CASE n = 0
    BY <1>3, <2>1
  <2>2. CASE n # 0
    <3>1. n \in 1 .. Len(list) /\ n - 1 \in 0 .. Len(list) /\ list[n].pcb # p
      BY <1>1, <2>2
    <3> QED BY <1>2, <2>2, <3>1
  <2> QED BY <2>1, <2>2
<1>5. kept = Kept(kept)
  <2> HIDE DEF Kept, prefix
  <2> QED BY <1>4
<1>6. ASSUME NEW n \in 0 .. Len(list)
      PROVE  kept[n] = IF n = 0 THEN <<>>
                       ELSE IF list[n].pcb = p THEN kept[n - 1]
                       ELSE Append(kept[n - 1], list[n])
  <2> HIDE DEF kept
  <2> QED BY <1>5
<1> HIDE DEF kept, prefix
<1>7. \A n \in Nat : n \in {m \in Nat : m <= Len(list) => kept[m] = SubSeq(list, 1, m)}
  <2> DEFINE T == {m \in Nat : m <= Len(list) => kept[m] = SubSeq(list, 1, m)}
  <2>1. 0 \in T
    <3>1. 0 \in 0 .. Len(list)
      BY <1>1
    <3>2. kept[0] = <<>>
      BY <1>6, <3>1
    <3> QED BY <1>3, <3>2
  <2>2. ASSUME NEW n \in Nat, n \in T PROVE n + 1 \in T
    <3> SUFFICES ASSUME n + 1 <= Len(list) PROVE kept[n + 1] = SubSeq(list, 1, n + 1)
      OBVIOUS
    <3>1. /\ n + 1 \in 1 .. Len(list) /\ n + 1 \in 0 .. Len(list) /\ n + 1 # 0
          /\ (n + 1) - 1 = n /\ n <= Len(list)
      BY <1>1
    <3>2. kept[n] = SubSeq(list, 1, n)
      BY <2>2, <3>1
    <3>3. kept[n + 1] = Append(kept[n], list[n + 1])
      BY <1>1, <1>6, <3>1
    <3>4. SubSeq(list, 1, n + 1) = Append(SubSeq(list, 1, n), list[n + 1])
      BY <1>2, <3>1
    <3> QED BY <3>2, <3>3, <3>4
  <2> HIDE DEF T
  <2>3. \A n \in Nat : n \in T
    BY <2>1, <2>2, Induction
  <2> QED BY <2>3 DEF T
<1>8. kept[Len(list)] = SubSeq(list, 1, Len(list))
  BY <1>1, <1>7
<1>9. WithoutTimersOf(list, p) = kept[Len(list)]
  BY DEF WithoutTimersOf, kept
<1> QED BY <1>8, <1>9, SubSeqFull

\* The children go to init; the list of the process is empty then.
LEMMA Reparented ==
    ASSUME IInv, UserMode, running # init_pcb
    PROVE  /\ AfterReparenting \in [PCBs -> Seq(PCBs)]
           /\ \A r \in PCBs : Distinct(AfterReparenting[r])
           /\ \A r \in PCBs : ToSet(AfterReparenting[r]) =
                 IF r = running THEN {}
                 ELSE IF r = init_pcb THEN Kids(r) \cup Kids(running) ELSE Kids(r)
<1> USE DEF IInv
<1> DEFINE joined == children[init_pcb] \o children[running]
<1>1. running \in PCBs /\ init_pcb \in PCBs /\ children \in [PCBs -> Seq(PCBs)]
  BY InUserMode DEF TypeOK
<1>2. Kids(init_pcb) \cap Kids(running) = {}
  BY <1>1 DEF FamilyOK
<1>3. /\ joined \in Seq(PCBs) /\ ToSet(joined) = Kids(init_pcb) \cup Kids(running)
      /\ Distinct(joined)
  <2>1. Distinct(children[init_pcb]) /\ Distinct(children[running])
    BY <1>1 DEF FamilyOK
  <2> QED BY <1>1, <1>2, <2>1, ConcatList DEF Kids
<1>4. AfterReparenting = [children EXCEPT ![running] = <<>>, ![init_pcb] = joined]
  BY <1>1 DEF AfterReparenting
<1> HIDE DEF joined
<1>5. /\ AfterReparenting \in [PCBs -> Seq(PCBs)]
      /\ \A r \in PCBs : AfterReparenting[r] =
            IF r = running THEN <<>> ELSE IF r = init_pcb THEN joined ELSE children[r]
  <2>1. <<>> \in Seq(PCBs)
    OBVIOUS
  <2> QED BY <1>1, <1>3, <1>4, <2>1
<1>6. ASSUME NEW r \in PCBs
      PROVE  /\ Distinct(AfterReparenting[r])
             /\ ToSet(AfterReparenting[r]) =
                   IF r = running THEN {}
                   ELSE IF r = init_pcb THEN Kids(r) \cup Kids(running) ELSE Kids(r)
  <2>1. CASE r = running
    BY <1>5, <2>1, EmptyList
  <2>2. CASE r # running /\ r = init_pcb
    BY <1>3, <1>5, <2>2
  <2>3. CASE r # running /\ r # init_pcb
    BY <1>5, <2>3 DEF FamilyOK, Kids
  <2> QED BY <2>1, <2>2, <2>3
<1> QED BY <1>5, <1>6

\* What exit does to the signals.
LEMMA ExitSignalled ==
    ASSUME IInv, UserMode
    PROVE  /\ ExitSignals \in [PCBs -> SUBSET {"SIGHUP", "SIGCHLD"}]
           /\ \A b \in PCBs : signals[b] \subseteq ExitSignals[b]
           /\ \A b \in Kids(running) : b \in PCBs /\ "SIGHUP" \in ExitSignals[b]
           /\ parent[running] \in PCBs => "SIGCHLD" \in ExitSignals[parent[running]]
<1>1. Kids(running) \subseteq PCBs
  BY InUserMode, ToSetType DEF IInv, TypeOK, Kids
<1> QED BY <1>1 DEF IInv, TypeOK, ExitSignals, Kids

\* Exit under a parent that does not wait: the caller becomes a zombie, its
\* children go to init, and the next ready process runs.
LEMMA ExitToZombieStep ==
    ASSUME IInv, UserMode, ExitToZombie
    PROVE  IInv'
<1> USE DEF IInv
<1> DEFINE h == Head(ready_list)
<1>1. /\ running \in pcbs /\ running \in PCBs /\ running # NULL
      /\ running \notin ToSet(ready_list) \cup waiting_list \cup zombie_list \cup returned
      /\ running # init_pcb /\ machine = "up"
  BY InUserMode DEF ExitToZombie
<1>2. /\ h \in PCBs /\ ready_list' \in Seq(PCBs) /\ Distinct(ready_list')
      /\ ToSet(ready_list) = ToSet(ready_list') \cup {h} /\ h \notin ToSet(ready_list')
  BY TailList DEF ExitToZombie, TypeOK, PlacesOK
<1>3. /\ children' \in [PCBs -> Seq(PCBs)]
      /\ \A r \in PCBs : Distinct(children[r]')
      /\ \A r \in PCBs : Kids(r)' =
            IF r = running THEN {}
            ELSE IF r = init_pcb THEN Kids(r) \cup Kids(running) ELSE Kids(r)
  BY <1>1, Reparented DEF ExitToZombie, Kids
<1>4. /\ signals' \in [PCBs -> SUBSET {"SIGHUP", "SIGCHLD"}]
      /\ \A b \in PCBs : signals[b] \subseteq signals'[b]
      /\ \A b \in Kids(running) : b \in PCBs /\ "SIGHUP" \in signals'[b]
      /\ parent[running] \in PCBs => "SIGCHLD" \in signals'[parent[running]]
  BY ExitSignalled DEF ExitToZombie
<1>5. /\ running' = h /\ zombie_list' = zombie_list \cup {running}
      /\ h # running /\ h # NULL
      /\ UNCHANGED <<init_pcb, waiting_list, timer_list, pcbs, parent, awaits, returned>>
  BY <1>1, <1>2, ProcessAssumption DEF ExitToZombie, Dispatch
<1>6. \A b \in PCBs : status'[b] = IF b = h THEN "Running"
                                   ELSE IF b = running THEN "Zombie" ELSE status[b]
  BY <1>1, <1>2 DEF ExitToZombie, TypeOK
<1> HIDE DEF h
<1>7. TypeOK'
  <2>1. status' \in [PCBs -> Statuses] /\ machine' \in {"up", "segv", "hang", "off"}
    BY <1>1, <1>2 DEF ExitToZombie, TypeOK, Statuses, Dispatch
  <2>2. UNCHANGED <<no_context, pcbptr_pool, syscall_retvalue>>
    BY DEF ExitToZombie
  <2> QED BY <1>1, <1>2, <1>3, <1>4, <1>5, <2>1, <2>2 DEF TypeOK
<1>8. PlacesOK'
  BY <1>1, <1>2, <1>5 DEF PlacesOK
<1>9. StatusOK'
  <2>1. h \notin waiting_list \cup zombie_list
    BY <1>2 DEF PlacesOK
  <2>2. ToSet(ready_list) \subseteq PCBs /\ pcbs \subseteq PCBs
    BY ToSetType DEF TypeOK
  <2> QED BY <1>1, <1>2, <1>5, <1>6, <2>1, <2>2 DEF StatusOK
<1>10. TimersOK'
  BY <1>5 DEF TimersOK, Timed, OneTimerEach, InOrder
<1>11. FamilyOK'
  <2>1. init_pcb' \in pcbs' \ zombie_list' /\ parent'[init_pcb'] = NULL
    BY <1>1, <1>5 DEF FamilyOK
  <2>2. ASSUME NEW r \in PCBs, Kids(r)' # {} PROVE r \in pcbs' \ zombie_list'
    BY <1>1, <1>3, <1>5, <2>1, <2>2 DEF FamilyOK
  <2>3. ASSUME NEW r \in PCBs, NEW c \in Kids(r)'
        PROVE  /\ c \in pcbs' /\ parent'[c] # NULL
               /\ parent'[c] = r \/ parent'[r] = NULL
               /\ \A q \in PCBs : c \in Kids(q)' => q = r
    <3>1. r # running /\ init_pcb \in PCBs /\ parent[init_pcb] = NULL
      BY <1>3 DEF FamilyOK, TypeOK
    <3>2. PICK q \in PCBs : c \in Kids(q) /\ (q = r \/ (q = running /\ r = init_pcb))
      BY <1>1, <1>3, <3>1
    <3>3. c \in pcbs /\ parent[c] # NULL
      BY <3>2 DEF FamilyOK
    <3>4. parent[c] = r \/ parent[r] = NULL
      BY <3>1, <3>2 DEF FamilyOK
    <3>5. \A t \in PCBs : c \in Kids(t) => t = q
      BY <3>2 DEF FamilyOK
    <3>6. ASSUME NEW t \in PCBs, c \in Kids(t)' PROVE t = r
      <4>1. t # running
        BY <1>3, <3>6
      <4>2. CASE t = init_pcb
        BY <1>1, <1>3, <3>1, <3>2, <3>5, <3>6, <4>1, <4>2
      <4>3. CASE t # init_pcb
        <5>1. c \in Kids(t)
          BY <1>3, <3>6, <4>1, <4>3
        <5>2. t = q
          BY <3>5, <5>1
        <5> QED BY <3>2, <4>1, <5>2
      <4> QED BY <4>2, <4>3
    <3> QED BY <1>5, <3>3, <3>4, <3>6
  <2>4. ASSUME NEW b \in pcbs', parent'[b] # NULL PROVE \E r \in PCBs : b \in Kids(r)'
    <3>1. PICK r \in PCBs : b \in Kids(r)
      BY <1>5, <2>4 DEF FamilyOK
    <3>2. CASE r = running
      BY <1>1, <1>3, <3>1, <3>2 DEF TypeOK
    <3>3. CASE r # running
      BY <1>3, <3>1, <3>3
    <3> QED BY <3>2, <3>3
  <2> QED BY <1>3, <2>1, <2>2, <2>3, <2>4 DEF FamilyOK
<1>12. NoMissedExit'
  <2> SUFFICES ASSUME NEW p \in waiting_list', NEW b \in zombie_list',
                      awaits'[p] \in {AnyChild, b}, b \in Kids(p)'
               PROVE  parent'[b] # p
    BY DEF NoMissedExit, Kids
  <2>1. p \in PCBs /\ p \in waiting_list /\ p # running
    BY <1>1, <1>5 DEF TypeOK
  <2>2. CASE b = running
    <3>1. status[p] = "Waiting"
      BY <2>1 DEF StatusOK
    <3> QED BY <1>5, <2>1, <2>2, <3>1 DEF ExitToZombie, ParentAwaits
  <2>3. CASE b # running /\ b \in Kids(p)
    BY <1>5, <2>1, <2>3 DEF NoMissedExit, Kids
  <2>4. CASE b # running /\ b \notin Kids(p)
    <3>1. p = init_pcb /\ b \in Kids(running)
      BY <1>3, <2>1, <2>4
    <3>2. parent[b] = running
      BY <1>1, <3>1 DEF FamilyOK, ExitToZombie
    <3> QED BY <1>1, <1>5, <3>1, <3>2
  <2> QED BY <2>2, <2>3, <2>4
<1>13. FamilySignalled'
  <2> SUFFICES ASSUME NEW p \in pcbs', NEW b \in Kids(p)'
               PROVE  /\ parent'[b] # p => "SIGHUP" \in signals'[b]
                      /\ parent'[b] = p /\ b \in zombie_list' => "SIGCHLD" \in signals'[p]
    BY DEF FamilySignalled, Kids
  <2>1. p \in PCBs /\ p \in pcbs /\ p # running
    BY <1>3, <1>5 DEF TypeOK
  <2>2. CASE b \in Kids(p)
    <3>1. b \in PCBs /\ b \in pcbs
      BY <2>1, <2>2 DEF FamilyOK, TypeOK
    <3>2. /\ parent[b] # p => "SIGHUP" \in signals[b]
          /\ parent[b] = p /\ b \in zombie_list => "SIGCHLD" \in signals[p]
      BY <2>1, <2>2 DEF FamilySignalled, Kids
    <3> QED BY <1>4, <1>5, <2>1, <3>1, <3>2
  <2>3. CASE b \notin Kids(p)
    <3>1. p = init_pcb /\ b \in Kids(running)
      BY <1>3, <2>1, <2>3
    <3>2. parent[b] = running
      BY <1>1, <3>1 DEF FamilyOK, ExitToZombie
    <3> QED BY <1>1, <1>4, <1>5, <3>1, <3>2
  <2> QED BY <2>2, <2>3
<1> QED BY <1>7, <1>8, <1>9, <1>10, <1>11, <1>12, <1>13

\* Exit under a waiting parent: the PCB is freed at once and the parent runs.
LEMMA ExitWakesParentStep ==
    ASSUME IInv, UserMode, ExitWakesParent
    PROVE  IInv'
<1> USE DEF IInv
<1> DEFINE p == parent[running]
<1>1. /\ running \in pcbs /\ running \in PCBs /\ running # NULL
      /\ running \notin ToSet(ready_list) \cup waiting_list \cup zombie_list \cup returned
      /\ running \notin Timed /\ running # init_pcb /\ machine = "up"
  BY InUserMode DEF ExitWakesParent
<1>2. /\ p \in PCBs /\ p \in waiting_list /\ p # running /\ p # NULL
      /\ p \in pcbs /\ awaits[p] # NULL
      /\ p \notin ToSet(ready_list) \cup zombie_list \cup returned
  <2>1. p \in PCBs /\ p # NULL
    BY <1>1 DEF TypeOK, ExitWakesParent
  <2>2. p \in waiting_list /\ awaits[p] # NULL
    BY <1>1, <2>1, ProcessAssumption DEF ExitWakesParent, ParentAwaits, StatusOK
  <2> QED BY <1>1, <2>1, <2>2 DEF PlacesOK
<1>3. running \in Kids(p) /\ running \notin Kids(running)
  <2>1. running \notin Kids(running)
    BY <1>1, <1>2 DEF FamilyOK
  <2>2. running \in ToSet(AfterReparenting[p])
    BY DEF ExitWakesParent
  <2> QED BY <1>1, <1>2, <2>1, <2>2, Reparented
<1>4. /\ children' \in [PCBs -> Seq(PCBs)]
      /\ \A r \in PCBs : Distinct(children[r]')
      /\ \A r \in PCBs : Kids(r)' =
            IF r = running THEN {}
            ELSE IF r = init_pcb THEN (Kids(r) \cup Kids(running)) \ {running}
            ELSE Kids(r) \ {running}
  <2>1. /\ AfterReparenting \in [PCBs -> Seq(PCBs)]
        /\ \A r \in PCBs : Distinct(AfterReparenting[r])
        /\ \A r \in PCBs : ToSet(AfterReparenting[r]) =
              IF r = running THEN {}
              ELSE IF r = init_pcb THEN Kids(r) \cup Kids(running) ELSE Kids(r)
    BY <1>1, Reparented
  <2> DEFINE shorter == RemoveFirst(AfterReparenting[p], running)
  <2>2. /\ shorter \in Seq(PCBs) /\ Distinct(shorter)
        /\ ToSet(shorter) = ToSet(AfterReparenting[p]) \ {running}
    <3>1. AfterReparenting[p] \in Seq(PCBs) /\ Distinct(AfterReparenting[p])
      BY <1>2, <2>1
    <3> QED BY <3>1, RemoveFirstList
  <2>3. children' = [AfterReparenting EXCEPT ![p] = shorter]
    BY DEF ExitWakesParent, Unlisted
  <2> HIDE DEF shorter, p
  <2>4. /\ children' \in [PCBs -> Seq(PCBs)]
        /\ \A r \in PCBs : children'[r] = IF r = p THEN shorter ELSE AfterReparenting[r]
    BY <1>2, <2>1, <2>2, <2>3
  <2>5. ASSUME NEW r \in PCBs
        PROVE  /\ Distinct(children'[r])
               /\ ToSet(children'[r]) = ToSet(AfterReparenting[r]) \ {running}
    <3>1. CASE r = p
      BY <2>2, <2>4, <3>1
    <3>2. CASE r # p
      <4>1. running \notin Kids(r)
        BY <1>2, <1>3, <3>2 DEF FamilyOK
      <4>2. running \notin ToSet(AfterReparenting[r])
        BY <1>3, <2>1, <4>1
      <4> QED BY <2>1, <2>4, <3>2, <4>2
    <3> QED BY <3>1, <3>2
  <2>6. ASSUME NEW r \in PCBs
        PROVE  ToSet(children'[r]) =
                  IF r = running THEN {}
                  ELSE IF r = init_pcb THEN (Kids(r) \cup Kids(running)) \ {running}
                  ELSE Kids(r) \ {running}
    <3> HIDE DEF Kids, IInv
    <3> QED BY <2>1, <2>5
  <2> QED BY <2>4, <2>5, <2>6 DEF Kids
<1>5. /\ signals' \in [PCBs -> SUBSET {"SIGHUP", "SIGCHLD"}]
      /\ \A b \in PCBs : signals[b] \subseteq signals'[b]
      /\ \A b \in Kids(running) : b \in PCBs /\ "SIGHUP" \in signals'[b]
  BY ExitSignalled DEF ExitWakesParent
<1>6. timer_list' = timer_list
  <2>1. \A i \in DOMAIN timer_list : timer_list[i].pcb # running
    BY <1>1 DEF Timed
  <2> QED BY <2>1, NoTimersOf DEF ExitWakesParent, TypeOK
<1>7. /\ running' = p /\ pcbs' = pcbs \ {running} /\ waiting_list' = waiting_list \ {p}
      /\ UNCHANGED <<init_pcb, ready_list, zombie_list, returned>>
      /\ \A b \in PCBs : status'[b] = IF b = p THEN "Running"
                                      ELSE IF b = running THEN "Zombie" ELSE status[b]
      /\ \A b \in PCBs : awaits'[b] = IF b = p THEN NULL ELSE awaits[b]
      /\ \A b \in PCBs : parent'[b] = IF b = running THEN NULL ELSE parent[b]
  BY <1>1, <1>2 DEF ExitWakesParent, TypeOK, Dispatch
<1>8. TypeOK'
  <2>1. /\ status' \in [PCBs -> Statuses] /\ machine' \in {"up", "segv", "hang", "off"}
        /\ parent' \in [PCBs -> PCBs \cup {NULL}]
        /\ awaits' \in [PCBs -> PCBs \cup {AnyChild, NoPid, NULL}]
    BY <1>1, <1>2 DEF ExitWakesParent, TypeOK, Statuses, Dispatch
  <2>2. syscall_retvalue' \in
           [PCBs -> PCBs \cup {0, DSOS_EWAIT, DSOS_ESLEEP} \cup OtherResults]
    BY <1>1, <1>2 DEF ExitWakesParent, TypeOK
  <2>3. UNCHANGED <<no_context, pcbptr_pool>>
    BY DEF ExitWakesParent
  <2> QED BY <1>2, <1>4, <1>5, <1>6, <1>7, <2>1, <2>2, <2>3 DEF TypeOK
<1> HIDE DEF p
<1>9. PlacesOK'
  BY <1>1, <1>2, <1>7 DEF PlacesOK
<1>10. StatusOK'
  <2>1. ToSet(ready_list) \subseteq PCBs /\ pcbs \subseteq PCBs
    BY ToSetType DEF TypeOK
  <2> QED BY <1>1, <1>2, <1>7, <2>1 DEF StatusOK
<1>11. TimersOK'
  <2>1. Timed' = Timed /\ OneTimerEach(timer_list') /\ InOrder(timer_list')
    BY <1>6 DEF Timed, TimersOK
  <2>2. waiting_list \subseteq PCBs
    BY DEF TypeOK
  <2>3. Timed' = {b \in waiting_list' : awaits'[b] = NULL}
    BY <1>2, <1>7, <2>1, <2>2 DEF TimersOK
  <2>4. \A b \in PCBs : awaits'[b] # NULL => b \in waiting_list'
    BY <1>2, <1>7 DEF TimersOK
  <2> QED BY <2>1, <2>3, <2>4 DEF TimersOK
<1>12. FamilyOK'
  <2>1. init_pcb' \in pcbs' \ zombie_list' /\ parent'[init_pcb'] = NULL
    BY <1>1, <1>7 DEF FamilyOK, TypeOK
  <2>2. ASSUME NEW r \in PCBs, Kids(r)' # {} PROVE r \in pcbs' \ zombie_list'
    BY <1>1, <1>4, <1>7, <2>1, <2>2 DEF FamilyOK
  <2>3. ASSUME NEW r \in PCBs, NEW c \in Kids(r)'
        PROVE  /\ c \in pcbs' /\ parent'[c] # NULL
               /\ parent'[c] = r \/ parent'[r] = NULL
               /\ \A q \in PCBs : c \in Kids(q)' => q = r
    <3>0. r # running /\ c # running
      BY <1>3, <1>4
    <3>1. r # running /\ c # running /\ init_pcb \in PCBs /\ parent[init_pcb] = NULL
      BY <3>0 DEF FamilyOK, TypeOK
    <3>2. PICK q \in PCBs : c \in Kids(q) /\ (q = r \/ (q = running /\ r = init_pcb))
      BY <1>1, <1>4, <3>1
    <3>3. c \in pcbs /\ parent[c] # NULL /\ c \in PCBs
      BY <3>2 DEF FamilyOK, TypeOK
    <3>4. parent[c] = r \/ parent[r] = NULL
      BY <3>1, <3>2 DEF FamilyOK
    <3>5. \A t \in PCBs : c \in Kids(t) => t = q
      BY <3>2 DEF FamilyOK
    <3>6. ASSUME NEW t \in PCBs, c \in Kids(t)' PROVE t = r
      <4>1. t # running
        BY <1>4, <3>6
      <4>2. CASE t = init_pcb
        BY <1>1, <1>4, <3>1, <3>2, <3>5, <3>6, <4>1, <4>2
      <4>3. CASE t # init_pcb
        <5>1. c \in Kids(t)
          BY <1>4, <3>6, <4>1, <4>3
        <5>2. t = q
          BY <3>5, <5>1
        <5> QED BY <3>2, <4>1, <5>2
      <4> QED BY <4>2, <4>3
    <3> QED BY <1>7, <3>1, <3>3, <3>4, <3>6
  <2>4. ASSUME NEW b \in pcbs', parent'[b] # NULL PROVE \E r \in PCBs : b \in Kids(r)'
    <3>1. b \in pcbs /\ b # running /\ parent[b] # NULL
      BY <1>7, <2>4 DEF TypeOK
    <3>2. PICK r \in PCBs : b \in Kids(r)
      BY <3>1 DEF FamilyOK
    <3>3. CASE r = running
      BY <1>1, <1>4, <3>1, <3>2, <3>3 DEF TypeOK
    <3>4. CASE r # running
      BY <1>4, <3>1, <3>2, <3>4
    <3> QED BY <3>3, <3>4
  <2> QED BY <1>4, <2>1, <2>2, <2>3, <2>4 DEF FamilyOK
<1>13. ASSUME NEW q \in pcbs', NEW b \in Kids(q)'
       PROVE  /\ q \in PCBs /\ q \in pcbs /\ q # running /\ b # running
              /\ b \in PCBs /\ parent'[b] = parent[b]
              /\ b \in Kids(q) \/ (b \in Kids(running) /\ parent[b] # q)
  <2>1. q \in PCBs /\ q \in pcbs /\ q # running
    BY <1>7 DEF TypeOK
  <2>2. b # running /\ (b \in Kids(q) \/ (b \in Kids(running) /\ q = init_pcb))
    BY <1>4, <2>1
  <2>3. b \in pcbs /\ b \in PCBs
    BY <1>1, <2>1, <2>2 DEF FamilyOK, TypeOK
  <2>4. b \in Kids(running) => parent[b] = running
    BY <1>1, <1>2 DEF FamilyOK, p
  <2> QED BY <1>1, <1>7, <2>1, <2>2, <2>3, <2>4
<1>14. NoMissedExit'
  <2> SUFFICES ASSUME NEW q \in waiting_list', NEW b \in zombie_list',
                      awaits'[q] \in {AnyChild, b}, b \in Kids(q)'
               PROVE  parent'[b] # q
    BY DEF NoMissedExit, Kids
  <2>1. q \in waiting_list /\ q # p /\ q \in pcbs' /\ q \in PCBs
    BY <1>7, <1>9 DEF PlacesOK, TypeOK
  <2> QED BY <1>7, <1>13, <2>1 DEF NoMissedExit, Kids
<1>15. FamilySignalled'
  <2> SUFFICES ASSUME NEW q \in pcbs', NEW b \in Kids(q)'
               PROVE  /\ parent'[b] # q => "SIGHUP" \in signals'[b]
                      /\ parent'[b] = q /\ b \in zombie_list' => "SIGCHLD" \in signals'[q]
    BY DEF FamilySignalled, Kids
  <2>1. CASE b \in Kids(q)
    <3>1. /\ parent[b] # q => "SIGHUP" \in signals[b]
          /\ parent[b] = q /\ b \in zombie_list => "SIGCHLD" \in signals[q]
      BY <1>13, <2>1 DEF FamilySignalled, Kids
    <3> QED BY <1>5, <1>7, <1>13, <3>1
  <2>2. CASE b \notin Kids(q)
    BY <1>5, <1>13, <2>2
  <2> QED BY <2>1, <2>2
<1> QED BY <1>8, <1>9, <1>10, <1>11, <1>12, <1>14, <1>15
-----------------------------------------------------------------------------
\* The scan of wait ends at a child; at a zombie if it looks for any child and
\* there is one; and at the child asked for if it is one.
LEMMA ScannedChild ==
    ASSUME IInv, UserMode, children[running] # <<>>, NEW pid
    PROVE  /\ Scanned(pid) \in Kids(running)
           /\ pid = AnyChild => \A b \in Kids(running) :
                                   status[b] = "Zombie" => status[Scanned(pid)] = "Zombie"
           /\ pid # AnyChild /\ pid \in Kids(running) => Scanned(pid) = pid
<1> DEFINE c == children[running]
           I == {i \in 1 .. Len(c) : IF pid = AnyChild THEN status[c[i]] = "Zombie"
                                                       ELSE c[i] = pid}
           n == IF I # {} THEN Min(I) ELSE 0
<1>1. c \in Seq(PCBs) /\ c # <<>> /\ Len(c) \in 1 .. Len(c)
  BY InUserMode DEF IInv, TypeOK
<1>2. \A b : b \in Kids(running) <=> \E i \in 1 .. Len(c) : c[i] = b
  BY <1>1 DEF Kids, ToSet
<1>3. Scanned(pid) = IF n = 0 THEN Last(c) ELSE c[n]
  BY DEF Scanned, SelectInSeq
<1>4. I # {} => n \in I /\ n # 0
  <2>1. I \in SUBSET Nat /\ 0 \notin I
    OBVIOUS
  <2>2. I # {} => n = Min(I)
    OBVIOUS
  <2> HIDE DEF I, n
  <2> QED BY <2>1, <2>2, MinInSet
<1>5. I = {} => n = 0
  OBVIOUS
<1> HIDE DEF c, n
<1>6. CASE I = {}
  <2>1. Scanned(pid) = c[Len(c)]
    BY <1>3, <1>5, <1>6 DEF Last
  <2> QED BY <1>1, <1>2, <1>6, <2>1
<1>7. CASE I # {}
  <2>1. Scanned(pid) = c[n] /\ n \in I
    BY <1>3, <1>4, <1>7
  <2> QED BY <1>1, <1>2, <2>1
<1> QED BY <1>6, <1>7

\* A wait that finds a zombie frees its PCB and drops it from the family.
LEMMA WaitReapsStep ==
    ASSUME IInv, UserMode, NEW pid, WaitReaps(pid)
    PROVE  IInv'
<1> USE DEF IInv
<1> DEFINE z == Scanned(pid)
<1>1. /\ running \in pcbs /\ running \in PCBs /\ running # NULL
      /\ running \notin ToSet(ready_list) \cup waiting_list \cup zombie_list \cup returned
      /\ machine = "up"
  BY InUserMode
<1>2. /\ z \in Kids(running) /\ z \in PCBs /\ z \in pcbs /\ z \in zombie_list
      /\ z # running /\ z # init_pcb /\ Kids(z) = {}
      /\ z \notin ToSet(ready_list) \cup waiting_list \cup returned
  <2>1. z \in Kids(running) /\ status[z] = "Zombie"
    BY ScannedChild DEF WaitReaps
  <2> HIDE DEF z
  <2>2. z \in pcbs /\ z \in PCBs
    BY <1>1, <2>1 DEF FamilyOK, TypeOK
  <2>3. z \in zombie_list
    BY <2>1, <2>2 DEF StatusOK
  <2>4. z # running /\ z # init_pcb
    BY <1>1, <2>3 DEF FamilyOK
  <2>5. Kids(z) = {}
    BY <2>2, <2>3 DEF FamilyOK
  <2>6. z \notin ToSet(ready_list) \cup waiting_list \cup returned
    BY <2>3 DEF PlacesOK
  <2> QED BY <2>1, <2>2, <2>3, <2>4, <2>5, <2>6
<1>3. /\ children' \in [PCBs -> Seq(PCBs)]
      /\ \A r \in PCBs : Distinct(children[r]')
      /\ \A r \in PCBs : Kids(r)' = Kids(r) \ {z}
  <2> DEFINE shorter == RemoveFirst(children[running], z)
  <2>1. /\ shorter \in Seq(PCBs) /\ Distinct(shorter)
        /\ ToSet(shorter) = ToSet(children[running]) \ {z}
    <3>1. children[running] \in Seq(PCBs) /\ Distinct(children[running])
      BY <1>1 DEF TypeOK, FamilyOK
    <3> QED BY <3>1, RemoveFirstList
  <2>2. children' = [children EXCEPT ![running] = shorter]
    BY DEF WaitReaps, Unlisted
  <2> HIDE DEF shorter, z
  <2>3. /\ children' \in [PCBs -> Seq(PCBs)]
        /\ \A r \in PCBs : children'[r] = IF r = running THEN shorter ELSE children[r]
    BY <1>1, <2>1, <2>2 DEF TypeOK
  <2>4. ASSUME NEW r \in PCBs
        PROVE  Distinct(children'[r]) /\ ToSet(children'[r]) = Kids(r) \ {z}
    <3>1. CASE r = running
      BY <2>1, <2>3, <3>1 DEF Kids
    <3>2. CASE r # running
      <4>1. z \notin Kids(r)
        BY <1>1, <1>2, <3>2 DEF FamilyOK
      <4>2. Distinct(children[r])
        BY DEF FamilyOK
      <4> QED BY <2>3, <3>2, <4>1, <4>2 DEF Kids
    <3> QED BY <3>1, <3>2
  <2> QED BY <2>3, <2>4 DEF Kids
<1>4. /\ pcbs' = pcbs \ {z} /\ zombie_list' = zombie_list \ {z}
      /\ \A b \in PCBs : parent'[b] = IF b = z THEN NULL ELSE parent[b]
      /\ UNCHANGED <<running, machine, init_pcb, ready_list, waiting_list, timer_list,
                     status, signals, awaits, no_context, returned>>
  BY DEF WaitReaps, TypeOK
<1>5. TypeOK'
  <2>1. pcbptr_pool' \in Nat
    <3>1. pcbptr_pool \in Nat /\ pcbptr_pool' = pcbptr_pool + 1
      BY DEF WaitReaps, TypeOK
    <3> QED BY <3>1
  <2>3. parent' \in [PCBs -> PCBs \cup {NULL}]
    <3>1. parent \in [PCBs -> PCBs \cup {NULL}] /\ parent' = [parent EXCEPT ![z] = NULL]
      BY DEF WaitReaps, TypeOK
    <3> QED BY <1>2, <3>1
  <2>2. syscall_retvalue' \in
           [PCBs -> PCBs \cup {0, DSOS_EWAIT, DSOS_ESLEEP} \cup OtherResults]
    BY <1>1, <1>2 DEF WaitReaps, TypeOK, Return
  <2> QED BY <1>3, <1>4, <2>1, <2>2, <2>3 DEF TypeOK
<1> HIDE DEF z
<1>6. PlacesOK'
  BY <1>1, <1>2, <1>4 DEF PlacesOK
<1>7. StatusOK'
  BY <1>4 DEF StatusOK
<1>8. TimersOK'
  BY <1>4 DEF TimersOK, Timed, OneTimerEach, InOrder
<1>9. FamilyOK'
  <2>1. init_pcb' \in pcbs' \ zombie_list' /\ parent'[init_pcb'] = NULL
    BY <1>2, <1>4 DEF FamilyOK, TypeOK
  <2>2. ASSUME NEW r \in PCBs, Kids(r)' # {} PROVE r \in pcbs' \ zombie_list'
    BY <1>2, <1>3, <1>4, <2>2 DEF FamilyOK
  <2>3. ASSUME NEW r \in PCBs, NEW c \in Kids(r)'
        PROVE  /\ c \in pcbs' /\ parent'[c] # NULL
               /\ parent'[c] = r \/ parent'[r] = NULL
               /\ \A q \in PCBs : c \in Kids(q)' => q = r
    <3>1. c \in Kids(r) /\ c # z
      BY <1>3
    <3>2. c \in pcbs /\ c \in PCBs
      BY <3>1 DEF FamilyOK, TypeOK
    <3>3. \A q \in PCBs : c \in Kids(q)' => c \in Kids(q)
      BY <1>3
    <3> QED BY <1>4, <3>1, <3>2, <3>3 DEF FamilyOK
  <2>4. ASSUME NEW b \in pcbs', parent'[b] # NULL PROVE \E r \in PCBs : b \in Kids(r)'
    <3>1. b \in pcbs /\ b # z /\ parent[b] # NULL
      BY <1>4, <2>4 DEF TypeOK
    <3>2. PICK r \in PCBs : b \in Kids(r)
      BY <3>1 DEF FamilyOK
    <3> QED BY <1>3, <3>1, <3>2
  <2> QED BY <1>3, <2>1, <2>2, <2>3, <2>4 DEF FamilyOK
<1>10. ASSUME NEW q \in pcbs', NEW b \in Kids(q)'
       PROVE  /\ q \in PCBs /\ q \in pcbs /\ b \in PCBs /\ b \in Kids(q)
              /\ parent'[b] = parent[b]
  <2>1. q \in PCBs /\ q \in pcbs
    BY <1>4 DEF TypeOK
  <2>2. b \in Kids(q) /\ b # z
    BY <1>3, <2>1
  <2>3. b \in pcbs /\ b \in PCBs
    BY <2>1, <2>2 DEF FamilyOK, TypeOK
  <2> QED BY <1>4, <2>1, <2>2, <2>3
<1>11. NoMissedExit'
  <2> SUFFICES ASSUME NEW q \in waiting_list', NEW b \in zombie_list',
                      awaits'[q] \in {AnyChild, b}, b \in Kids(q)'
               PROVE  parent'[b] # q
    BY DEF NoMissedExit, Kids
  <2>1. q \in pcbs'
    BY <1>6 DEF PlacesOK
  <2> QED BY <1>4, <1>10, <2>1 DEF NoMissedExit, Kids
<1>12. FamilySignalled'
  <2> SUFFICES ASSUME NEW q \in pcbs', NEW b \in Kids(q)'
               PROVE  /\ parent'[b] # q => "SIGHUP" \in signals'[b]
                      /\ parent'[b] = q /\ b \in zombie_list' => "SIGCHLD" \in signals'[q]
    BY DEF FamilySignalled, Kids
  <2> QED BY <1>4, <1>10 DEF FamilySignalled, Kids
<1> QED BY <1>5, <1>6, <1>7, <1>8, <1>9, <1>11, <1>12

\* A wait that finds none moves the caller to the waiting list.
LEMMA WaitBlocksStep ==
    ASSUME IInv, UserMode, NEW pid \in PCBs \cup {AnyChild, NoPid}, WaitBlocks(pid)
    PROVE  IInv'
<1> USE DEF IInv
<1> DEFINE h == Head(ready_list)
<1>1. /\ running \in pcbs /\ running \in PCBs /\ running # NULL
      /\ running \notin ToSet(ready_list) \cup waiting_list \cup zombie_list \cup returned
      /\ running \notin Timed /\ machine = "up"
  BY InUserMode
<1>2. /\ h \in PCBs /\ ready_list' \in Seq(PCBs) /\ Distinct(ready_list')
      /\ ToSet(ready_list) = ToSet(ready_list') \cup {h} /\ h \notin ToSet(ready_list')
  BY TailList DEF WaitBlocks, TypeOK, PlacesOK
<1>3. /\ running' = h /\ waiting_list' = waiting_list \cup {running} /\ h # NULL
      /\ UNCHANGED <<init_pcb, zombie_list, timer_list, pcbs, parent, children, signals,
                     no_context, returned, pcbptr_pool, syscall_retvalue>>
      /\ \A b \in PCBs : status'[b] = IF b = running THEN "Waiting" ELSE status[b]
      /\ \A b \in PCBs : awaits'[b] = IF b = running THEN pid ELSE awaits[b]
  BY <1>1, <1>2, ProcessAssumption DEF WaitBlocks, TypeOK, family, Dispatch
<1>4. pid # NULL
  BY ProcessAssumption
<1> HIDE DEF h
<1>5. TypeOK'
  <2>1. status' \in [PCBs -> Statuses] /\ machine' \in {"up", "segv", "hang", "off"}
    BY <1>1 DEF WaitBlocks, TypeOK, Statuses, Dispatch
  <2>2. awaits' \in [PCBs -> PCBs \cup {AnyChild, NoPid, NULL}]
    BY <1>1 DEF WaitBlocks, TypeOK
  <2> QED BY <1>1, <1>2, <1>3, <2>1, <2>2 DEF TypeOK
<1>6. PlacesOK'
  BY <1>1, <1>2, <1>3 DEF PlacesOK
<1>7. StatusOK'
  <2>1. ToSet(ready_list) \subseteq PCBs /\ pcbs \subseteq PCBs
    BY ToSetType DEF TypeOK
  <2> QED BY <1>1, <1>2, <1>3, <2>1 DEF StatusOK
<1>8. TimersOK'
  <2>1. Timed' = Timed /\ OneTimerEach(timer_list') /\ InOrder(timer_list')
    BY <1>3 DEF Timed, TimersOK
  <2>2. waiting_list \subseteq PCBs
    BY DEF TypeOK
  <2>3. Timed' = {b \in waiting_list' : awaits'[b] = NULL}
    BY <1>1, <1>3, <1>4, <2>1, <2>2 DEF TimersOK
  <2>4. \A b \in PCBs : awaits'[b] # NULL => b \in waiting_list'
    BY <1>3 DEF TimersOK
  <2> QED BY <2>1, <2>3, <2>4 DEF TimersOK
<1>9. FamilyOK' /\ FamilySignalled'
  BY <1>3 DEF FamilyOK, FamilySignalled, Kids
<1>10. NoMissedExit'
  <2> SUFFICES ASSUME NEW q \in waiting_list', NEW b \in zombie_list',
                      awaits'[q] \in {AnyChild, b}, b \in Kids(q)'
               PROVE  parent'[b] # q
    BY DEF NoMissedExit, Kids
  <2>1. b \in Kids(q) /\ q \in PCBs /\ b \in zombie_list
    BY <1>1, <1>3 DEF Kids, TypeOK
  <2>2. CASE q = running
    <3>1. status[b] = "Zombie" /\ b \in PCBs
      BY <2>1 DEF PlacesOK, StatusOK, TypeOK
    <3>2. children[running] # <<>> /\ status[Scanned(pid)] # "Zombie"
      BY DEF WaitBlocks
    <3>3. pid \in {AnyChild, b}
      BY <1>1, <1>3, <2>2
    <3>4. pid = AnyChild \/ Scanned(pid) = b
      BY <2>1, <2>2, <3>2, <3>3, ScannedChild
    <3> QED BY <2>1, <2>2, <3>1, <3>2, <3>4, ScannedChild
  <2>3. CASE q # running
    BY <1>3, <2>1, <2>3 DEF NoMissedExit, Kids
  <2> QED BY <2>2, <2>3
<1> QED BY <1>5, <1>6, <1>7, <1>8, <1>9, <1>10
-----------------------------------------------------------------------------
Owners(list) == {list[i].pcb : i \in DOMAIN list}

\* A timer has a process and a number of ticks.
LEMMA TimersType ==
    ASSUME NEW list \in Seq(Timers)
    PROVE  /\ DOMAIN list = 1 .. Len(list) /\ Len(list) \in Nat
           /\ \A i \in 1 .. Len(list) : list[i].pcb \in PCBs /\ list[i].left \in Int
<1>1. DOMAIN list = 1 .. Len(list) /\ Len(list) \in Nat
      /\ \A i \in 1 .. Len(list) : list[i] \in Timers
  OBVIOUS
<1>2. \A t \in Timers : t.pcb \in PCBs /\ t.left \in Int
  BY DEF Timers
<1> QED BY <1>1, <1>2

\* Where the scan of TimerList_add ends: after the timers that elapse at the
\* same tick or earlier, before the others.
LEMMA Position ==
    ASSUME NEW list \in Seq(Timers), InOrder(list), NEW ticks \in Int
    PROVE  /\ TimerList_position(list, ticks) \in 1 .. Len(list) + 1
           /\ \A i \in 1 .. Len(list) :
                 i < TimerList_position(list, ticks) <=> list[i].left <= ticks
<1> DEFINE I == {i \in 1 .. Len(list) : ticks < list[i].left}
           n == IF I # {} THEN Min(I) ELSE 0
           place == IF n = 0 THEN Len(list) + 1 ELSE n
<1>1. TimerList_position(list, ticks) = place
  BY DEF TimerList_position, SelectInSeq
<1>2. /\ I \in SUBSET Nat /\ 0 \notin I
      /\ \A i : i \in I <=> i \in 1 .. Len(list) /\ ticks < list[i].left
  OBVIOUS
<1>3. /\ I # {} => n \in I /\ \A i \in I : n <= i
      /\ I = {} => n = 0
  <2> HIDE DEF I
  <2> QED BY <1>2, MinInSet
<1>4. \A i \in 1 .. Len(list) : list[i].left \in Int
  BY TimersType
<1> HIDE DEF I, n
<1>5. CASE I = {}
  BY <1>1, <1>2, <1>3, <1>4, <1>5
<1>6. CASE I # {}
  <2>1. place = n /\ n \in 1 .. Len(list) /\ ticks < list[n].left
    BY <1>2, <1>3, <1>6
  <2>2. ASSUME NEW i \in 1 .. Len(list) PROVE i < n <=> list[i].left <= ticks
    <3>1. i < n => i \notin I
      BY <1>3, <1>6, <2>1
    <3>2. n < i => list[n].left <= list[i].left
      BY <2>1 DEF InOrder
    <3> QED BY <1>2, <1>4, <2>1, <3>1, <3>2
  <2> QED BY <1>1, <2>1, <2>2
<1> QED BY <1>5, <1>6

\* A new timer keeps the list in order.
LEMMA AddTimer ==
    ASSUME NEW list \in Seq(Timers), OneTimerEach(list), InOrder(list),
           NEW ticks \in Int, NEW p \in PCBs, p \notin Owners(list)
    PROVE  LET longer == TimerList_add(list, ticks, p)
           IN  /\ longer \in Seq(Timers)
               /\ Owners(longer) = Owners(list) \cup {p}
               /\ OneTimerEach(longer) /\ InOrder(longer)
<1> DEFINE n == TimerList_position(list, ticks)
           timer == [pcb |-> p, left |-> ticks]
           longer == TimerList_add(list, ticks, p)
<1>1. n \in 1 .. Len(list) + 1 /\ timer \in Timers
  BY Position DEF Timers
<1>2. \A i \in 1 .. Len(list) : i < n <=> list[i].left <= ticks
  BY Position
<1>3. longer = InsertAt(list, n, timer)
  BY DEF TimerList_add
<1>4. timer.pcb = p /\ timer.left = ticks
  OBVIOUS
<1>5. /\ DOMAIN list = 1 .. Len(list) /\ Len(list) \in Nat
      /\ \A i \in 1 .. Len(list) : list[i].pcb # p /\ list[i].left \in Int
  BY TimersType DEF Owners
<1> HIDE DEF n, timer, longer
<1>6. /\ longer \in Seq(Timers) /\ DOMAIN longer = 1 .. Len(list) + 1
      /\ \A i \in 1 .. Len(list) + 1 :
            longer[i] = IF i < n THEN list[i] ELSE IF i = n THEN timer ELSE list[i - 1]
  <2>1. InsertAt(list, n, timer) \in Seq(Timers)
    BY <1>1, InsertList
  <2>2. /\ DOMAIN InsertAt(list, n, timer) = 1 .. Len(list) + 1
        /\ \A i \in 1 .. Len(list) + 1 :
              InsertAt(list, n, timer)[i] =
                 IF i < n THEN list[i] ELSE IF i = n THEN timer ELSE list[i - 1]
    BY <1>1, InsertPlaces
  <2> QED BY <1>3, <2>1, <2>2
<1>7. \A i \in 1 .. Len(list) + 1 :
          \/ i < n /\ i \in 1 .. Len(list) /\ longer[i] = list[i]
          \/ i = n /\ longer[i] = timer
          \/ i > n /\ i - 1 \in 1 .. Len(list) /\ longer[i] = list[i - 1]
  BY <1>1, <1>5, <1>6
<1>8. Owners(longer) = Owners(list) \cup {p}
  <2>1. ASSUME NEW i \in 1 .. Len(list) + 1 PROVE longer[i].pcb \in Owners(list) \cup {p}
    BY <1>4, <1>5, <1>7 DEF Owners
  <2>2. ASSUME NEW i \in 1 .. Len(list)
        PROVE  \E j \in 1 .. Len(list) + 1 : longer[j] = list[i]
    <3>1. CASE i < n
      BY <1>5, <1>6, <3>1
    <3>2. CASE ~ (i < n)
      <4>1. i + 1 \in 1 .. Len(list) + 1 /\ ~ (i + 1 < n) /\ i + 1 # n /\ (i + 1) - 1 = i
        BY <1>1, <1>5, <3>2
      <4> QED BY <1>6, <4>1
    <3> QED BY <3>1, <3>2
  <2>3. longer[n] = timer
    BY <1>1, <1>6
  <2>4. Owners(longer) \subseteq Owners(list) \cup {p}
    BY <1>6, <2>1 DEF Owners
  <2>5. Owners(list) \subseteq Owners(longer)
    BY <1>5, <1>6, <2>2 DEF Owners
  <2>6. p \in Owners(longer)
    BY <1>1, <1>4, <1>6, <2>3 DEF Owners
  <2> QED BY <2>4, <2>5, <2>6
<1>9. OneTimerEach(longer)
  <2> SUFFICES ASSUME NEW i \in 1 .. Len(list) + 1, NEW j \in 1 .. Len(list) + 1,
                      longer[i].pcb = longer[j].pcb
               PROVE  i = j
    BY <1>6 DEF OneTimerEach
  <2>1. \A k, l \in 1 .. Len(list) : list[k].pcb = list[l].pcb => k = l
    BY <1>5 DEF OneTimerEach
  <2>2. n \in Int /\ i \in Int /\ j \in Int
    BY <1>1, <1>5
  <2>3. ASSUME NEW k \in 1 .. Len(list) + 1, k # n
        PROVE  longer[k].pcb # p
    BY <1>1, <1>5, <1>7, <2>3
  <2>4. longer[n].pcb = p
    BY <1>1, <1>4, <1>6
  <2>5. CASE i = n \/ j = n
    BY <2>3, <2>4, <2>5
  <2>6. CASE i < n /\ j < n
    BY <1>7, <2>1, <2>2, <2>6
  <2>7. CASE i < n /\ j > n
    <3>1. i = j - 1
      BY <1>7, <2>1, <2>2, <2>7
    <3> QED BY <2>2, <2>7, <3>1
  <2>8. CASE i > n /\ j < n
    <3>1. i - 1 = j
      BY <1>7, <2>1, <2>2, <2>8
    <3> QED BY <2>2, <2>8, <3>1
  <2>9. CASE i > n /\ j > n
    <3> DEFINE k == i - 1
               l == j - 1
    <3>1. k \in 1 .. Len(list) /\ longer[i] = list[k]
      BY <1>7, <2>2, <2>9
    <3>2. l \in 1 .. Len(list) /\ longer[j] = list[l]
      BY <1>7, <2>2, <2>9
    <3> HIDE DEF k, l
    <3>3. k = l
      BY <2>1, <3>1, <3>2
    <3>4. i - 1 = j - 1
      BY <3>3 DEF k, l
    <3> QED BY <2>2, <3>4
  <2> QED BY <2>2, <2>5, <2>6, <2>7, <2>8, <2>9
<1>10. InOrder(longer)
  <2> SUFFICES ASSUME NEW i \in 1 .. Len(list) + 1, NEW j \in 1 .. Len(list) + 1, i < j
               PROVE  longer[i].left <= longer[j].left
    BY <1>6 DEF InOrder
  <2>1. \A k, l \in 1 .. Len(list) : k < l => list[k].left <= list[l].left
    BY <1>5 DEF InOrder
  <2>2. CASE j < n
    BY <1>1, <1>7, <2>1, <2>2
  <2>3. CASE j = n
    BY <1>1, <1>2, <1>4, <1>7, <2>3
  <2>4. CASE j > n /\ i < n
    BY <1>1, <1>7, <2>1, <2>4
  <2>5. CASE j > n /\ i = n
    BY <1>1, <1>2, <1>4, <1>5, <1>7, <2>5
  <2>6. CASE j > n /\ i > n
    BY <1>1, <1>7, <2>1, <2>6
  <2> QED BY <1>1, <2>2, <2>3, <2>4, <2>5, <2>6
<1> QED BY <1>6, <1>8, <1>9, <1>10 DEF longer

\* The scheduler stops at the first timer that has not elapsed: all that have
\* are in front of it.
LEMMA WhichElapsed ==
    ASSUME NEW list \in Seq(Timers), InOrder(list)
    PROVE  /\ NumElapsed(list) \in 0 .. Len(list)
           /\ \A i \in 1 .. Len(list) : i <= NumElapsed(list) <=> list[i].left <= 0
<1> DEFINE I == {i \in 1 .. Len(list) : list[i].left > 0}
           n == IF I # {} THEN Min(I) ELSE 0
           count == IF n = 0 THEN Len(list) ELSE n - 1
<1>1. NumElapsed(list) = count
  BY DEF NumElapsed, SelectInSeq
<1>2. /\ I \in SUBSET Nat /\ 0 \notin I
      /\ \A i : i \in I <=> i \in 1 .. Len(list) /\ list[i].left > 0
  OBVIOUS
<1>3. /\ I # {} => n \in I /\ \A i \in I : n <= i
      /\ I = {} => n = 0
  <2> HIDE DEF I
  <2> QED BY <1>2, MinInSet
<1>4. Len(list) \in Nat /\ \A i \in 1 .. Len(list) : list[i].left \in Int
  BY TimersType
<1> HIDE DEF I, n
<1>5. CASE I = {}
  BY <1>1, <1>2, <1>3, <1>4, <1>5
<1>6. CASE I # {}
  <2>1. count = n - 1 /\ n \in 1 .. Len(list) /\ list[n].left > 0
    BY <1>2, <1>3, <1>6
  <2>2. ASSUME NEW i \in 1 .. Len(list) PROVE i < n <=> list[i].left <= 0
    <3>1. i < n => i \notin I
      BY <1>3, <1>6, <2>1
    <3>2. n < i => list[n].left <= list[i].left
      BY <2>1 DEF InOrder
    <3> QED BY <1>2, <1>4, <2>1, <3>1, <3>2
  <2> QED BY <1>1, <2>1, <2>2
<1> QED BY <1>5, <1>6

\* The owners of the elapsed timers, each once, and of the others.
LEMMA ElapsedTimers ==
    ASSUME NEW list \in Seq(Timers), OneTimerEach(list), InOrder(list)
    PROVE  LET woken == [i \in DOMAIN Elapsed(list) |-> Elapsed(list)[i].pcb]
           IN  /\ woken \in Seq(PCBs) /\ Distinct(woken)
               /\ Remaining(list) \in Seq(Timers)
               /\ OneTimerEach(Remaining(list)) /\ InOrder(Remaining(list))
               /\ Owners(list) = ToSet(woken) \cup Owners(Remaining(list))
               /\ ToSet(woken) \cap Owners(Remaining(list)) = {}
               /\ woken = <<>> => Remaining(list) = list
<1> DEFINE n == NumElapsed(list)
           gone == Elapsed(list)
           kept == Remaining(list)
           woken == [i \in DOMAIN gone |-> gone[i].pcb]
<1>1. n \in 0 .. Len(list)
  BY WhichElapsed
<1>2. /\ gone \in Seq(Timers) /\ DOMAIN gone = 1 .. n /\ \A i \in 1 .. n : gone[i] = list[i]
      /\ kept \in Seq(Timers) /\ DOMAIN kept = 1 .. Len(list) - n
      /\ \A i \in 1 .. Len(list) - n : kept[i] = list[n + i]
  BY <1>1, CutPlaces DEF Elapsed, Remaining
<1>3. /\ DOMAIN list = 1 .. Len(list) /\ Len(list) \in Nat
      /\ \A i \in 1 .. Len(list) : list[i].pcb \in PCBs /\ list[i].left \in Int
  BY TimersType
<1>4. n = 0 => kept = list
  BY <1>3, SubSeqFull DEF Remaining
<1> HIDE DEF n, gone, kept
<1>5. /\ \A i, j \in 1 .. Len(list) : list[i].pcb = list[j].pcb => i = j
      /\ \A i, j \in 1 .. Len(list) : i < j => list[i].left <= list[j].left
  BY <1>3 DEF OneTimerEach, InOrder
<1>6. \A i \in 1 .. n : i \in 1 .. Len(list) /\ woken[i] = list[i].pcb
  BY <1>1, <1>2, <1>3
<1>7. \A i \in 1 .. Len(list) - n : n + i \in 1 .. Len(list) /\ kept[i] = list[n + i]
  BY <1>1, <1>2, <1>3
<1>8. DOMAIN woken = 1 .. n /\ woken \in Seq(PCBs) /\ (woken = <<>> => n = 0)
  <2>1. woken = [i \in 1 .. n |-> list[i].pcb]
    BY <1>2
  <2>2. \A i \in 1 .. n : list[i].pcb \in PCBs
    BY <1>3, <1>6
  <2> QED BY <1>1, <2>1, <2>2
<1> HIDE DEF woken
<1>9. Distinct(woken)
  BY <1>5, <1>6, <1>8 DEF Distinct
<1>10. OneTimerEach(kept)
  <2> SUFFICES ASSUME NEW i \in 1 .. Len(list) - n, NEW j \in 1 .. Len(list) - n,
                      kept[i].pcb = kept[j].pcb
               PROVE  i = j
    BY <1>2 DEF OneTimerEach
  <2>1. n + i = n + j
    BY <1>5, <1>7
  <2> QED BY <1>1, <2>1
<1>11. InOrder(kept)
  <2> SUFFICES ASSUME NEW i \in 1 .. Len(list) - n, NEW j \in 1 .. Len(list) - n, i < j
               PROVE  kept[i].left <= kept[j].left
    BY <1>2 DEF InOrder
  <2>1. n + i < n + j
    BY <1>1
  <2> QED BY <1>5, <1>7, <2>1
<1>12. \A p : p \in ToSet(woken) <=> \E i \in 1 .. n : list[i].pcb = p
  BY <1>6, <1>8 DEF ToSet
<1>13. \A p : p \in Owners(kept) <=> \E i \in 1 .. Len(list) - n : list[n + i].pcb = p
  BY <1>2, <1>7 DEF Owners
<1>14. \A p : p \in Owners(list) <=> \E i \in 1 .. Len(list) : list[i].pcb = p
  BY <1>3 DEF Owners
<1>15. Owners(list) = ToSet(woken) \cup Owners(kept)
  <2>1. ASSUME NEW i \in 1 .. Len(list)
        PROVE  i \in 1 .. n \/ \E j \in 1 .. Len(list) - n : i = n + j
    <3>1. CASE i > n
      <4>1. i - n \in 1 .. Len(list) - n /\ i = n + (i - n)
        BY <1>1, <3>1
      <4> QED BY <4>1
    <3> QED BY <1>1, <3>1
  <2>2. Owners(list) \subseteq ToSet(woken) \cup Owners(kept)
    BY <1>12, <1>13, <1>14, <2>1
  <2>3. ToSet(woken) \subseteq Owners(list) /\ Owners(kept) \subseteq Owners(list)
    BY <1>6, <1>7, <1>12, <1>13, <1>14
  <2> QED BY <2>2, <2>3
<1>16. ToSet(woken) \cap Owners(kept) = {}
  <2> SUFFICES ASSUME NEW i \in 1 .. n, NEW j \in 1 .. Len(list) - n,
                      list[i].pcb = list[n + j].pcb
               PROVE  FALSE
    BY <1>12, <1>13
  <2>1. i = n + j
    BY <1>5, <1>6, <1>7
  <2> QED BY <1>1, <2>1
<1>17. woken = <<>> => kept = list
  BY <1>4, <1>8
<1> QED BY <1>2, <1>8, <1>9, <1>10, <1>11, <1>15, <1>16, <1>17 DEF woken, gone, kept

\* A tick changes nothing but the ticks left.
LEMMA TickedTimers ==
    ASSUME NEW list \in Seq(Timers), OneTimerEach(list), InOrder(list)
    PROVE  /\ Ticked(list) \in Seq(Timers) /\ Owners(Ticked(list)) = Owners(list)
           /\ OneTimerEach(Ticked(list)) /\ InOrder(Ticked(list))
<1>1. /\ DOMAIN list = 1 .. Len(list) /\ Len(list) \in Nat
      /\ \A i \in 1 .. Len(list) : list[i].pcb \in PCBs /\ list[i].left \in Int
  BY TimersType
<1>2. \A i \in 1 .. Len(list) : list[i] \in Timers
  OBVIOUS
<1>3. /\ DOMAIN Ticked(list) = 1 .. Len(list)
      /\ \A i \in 1 .. Len(list) :
            /\ Ticked(list)[i] \in Timers
            /\ Ticked(list)[i].pcb = list[i].pcb
            /\ Ticked(list)[i].left = list[i].left - 1
  BY <1>1, <1>2 DEF Ticked, Timers
<1>4. Ticked(list) \in Seq(Timers)
  <2>1. Ticked(list) = [i \in 1 .. Len(list) |-> [list[i] EXCEPT !.left = @ - 1]]
    BY <1>1 DEF Ticked
  <2>2. \A i \in 1 .. Len(list) : [list[i] EXCEPT !.left = @ - 1] \in Timers
    BY <1>3, <2>1
  <2> QED BY <1>1, <2>1, <2>2
<1>5. Owners(Ticked(list)) = Owners(list)
  BY <1>1, <1>3 DEF Owners
<1>6. OneTimerEach(Ticked(list))
  BY <1>1, <1>3 DEF OneTimerEach
<1>7. InOrder(Ticked(list))
  <2> SUFFICES ASSUME NEW i \in 1 .. Len(list), NEW j \in 1 .. Len(list), i < j
               PROVE  Ticked(list)[i].left <= Ticked(list)[j].left
    BY <1>3 DEF InOrder
  <2>1. list[i].left <= list[j].left
    BY <1>1 DEF InOrder
  <2> QED BY <1>1, <1>3, <2>1
<1> QED BY <1>4, <1>5, <1>6, <1>7
-----------------------------------------------------------------------------
\* The processes with a timer are the owners of the listed ones.
LEMMA TimedOwners == Timed = Owners(timer_list)
BY DEF Timed, Owners

\* Sleep moves the caller to the waiting list and adds its timer.
LEMMA SleepStep ==
    ASSUME IInv, NEW ticks \in Int, internal_sleep(ticks)
    PROVE  IInv'
<1> USE DEF IInv
<1> DEFINE h == Head(ready_list)
<1>1. /\ running \in pcbs /\ running \in PCBs /\ running # NULL
      /\ running \notin ToSet(ready_list) \cup waiting_list \cup zombie_list \cup returned
      /\ running \notin Timed /\ awaits[running] = NULL /\ machine = "up"
  BY InUserMode DEF internal_sleep
<1>2. CASE Len(timer_list) = Cardinality(PCBs)
  <2>1. /\ UNCHANGED <<running, init_pcb, lists, timer_list, family, status, signals,
                       awaits, no_context, returned, machine, pcbptr_pool>>
        /\ Return(DSOS_ESLEEP)
    BY <1>2 DEF internal_sleep
  <2>2. syscall_retvalue' \in
           [PCBs -> PCBs \cup {0, DSOS_EWAIT, DSOS_ESLEEP} \cup OtherResults]
    BY <1>1, <2>1 DEF TypeOK, Return
  <2> QED BY <2>1, <2>2, QuietStep DEF TypeOK
<1>3. CASE Len(timer_list) # Cardinality(PCBs)
  <2>1. /\ timer_list' = TimerList_add(timer_list, ticks, running)
        /\ status' = [status EXCEPT ![running] = "Waiting"]
        /\ waiting_list' = waiting_list \cup {running}
        /\ UNCHANGED <<init_pcb, zombie_list, pcbs, parent, children, signals, awaits,
                       no_context, returned, pcbptr_pool, syscall_retvalue>>
    BY <1>3 DEF internal_sleep, family
  <2>2. /\ timer_list' \in Seq(Timers) /\ Timed' = Timed \cup {running}
        /\ OneTimerEach(timer_list') /\ InOrder(timer_list')
    <3>1. running \notin Owners(timer_list) /\ timer_list \in Seq(Timers)
      BY <1>1 DEF Timed, Owners, TypeOK
    <3>2. Owners(timer_list') = Owners(timer_list) \cup {running}
      BY <1>1, <2>1, <3>1, AddTimer DEF TimersOK
    <3>3. Timed' = Owners(timer_list') /\ Timed = Owners(timer_list)
      BY DEF Timed, Owners
    <3> QED BY <1>1, <2>1, <3>1, <3>2, <3>3, AddTimer DEF TimersOK
  <2>3. /\ running' \in PCBs \cup {NULL} /\ machine' \in {"up", "segv"}
        /\ ready_list' \in Seq(PCBs) /\ Distinct(ready_list')
        /\ ToSet(ready_list) = ToSet(ready_list') \cup ({running'} \ {NULL})
        /\ running' \notin ToSet(ready_list')
    <3>1. CASE ready_list = <<>>
      <4>1. running' = NULL /\ UNCHANGED <<machine, ready_list>>
        BY <1>3, <3>1 DEF internal_sleep
      <4>2. ToSet(ready_list) = {} /\ Distinct(ready_list)
        BY <3>1, EmptyList
      <4> QED BY <1>1, <4>1, <4>2 DEF TypeOK
    <3>2. CASE ready_list # <<>>
      <4>1. Dispatch(h) /\ ready_list' = Tail(ready_list)
        BY <1>3, <3>2 DEF internal_sleep
      <4>2. /\ h \in PCBs /\ ready_list' \in Seq(PCBs) /\ Distinct(ready_list')
            /\ ToSet(ready_list) = ToSet(ready_list') \cup {h} /\ h \notin ToSet(ready_list')
        BY <3>2, <4>1, TailList DEF TypeOK, PlacesOK
      <4>3. h # NULL
        BY <4>2, ProcessAssumption
      <4> HIDE DEF h
      <4> QED BY <1>1, <4>1, <4>2, <4>3 DEF Dispatch
    <3> QED BY <3>1, <3>2
  <2>4. \A b \in PCBs : status'[b] = IF b = running THEN "Waiting" ELSE status[b]
    BY <2>1 DEF TypeOK
  <2>5. TypeOK'
    <3>1. status' \in [PCBs -> Statuses]
      BY <2>1 DEF TypeOK, Statuses
    <3> QED BY <1>1, <2>1, <2>2, <2>3, <3>1 DEF TypeOK
  <2>6. PlacesOK'
    BY <1>1, <2>1, <2>3, ProcessAssumption DEF PlacesOK, TypeOK
  <2>7. StatusOK'
    <3>1. ToSet(ready_list) \subseteq PCBs /\ pcbs \subseteq PCBs
      BY ToSetType DEF TypeOK
    <3> QED BY <1>1, <2>1, <2>3, <2>4, <3>1 DEF StatusOK
  <2>8. TimersOK'
    <3>1. Timed' = {b \in waiting_list' : awaits'[b] = NULL}
      BY <1>1, <2>1, <2>2 DEF TimersOK
    <3> QED BY <2>1, <2>2, <3>1 DEF TimersOK
  <2>9. FamilyOK' /\ FamilySignalled'
    BY <2>1 DEF FamilyOK, FamilySignalled, Kids
  <2>10. NoMissedExit'
    <3> SUFFICES ASSUME NEW q \in waiting_list', NEW b \in zombie_list',
                        awaits'[q] \in {AnyChild, b}, b \in Kids(q)'
                 PROVE  parent'[b] # q
      BY DEF NoMissedExit, Kids
    <3>1. b \in PCBs /\ NULL \notin {AnyChild, b}
      BY <2>1, ProcessAssumption DEF TypeOK
    <3>2. q # running
      BY <1>1, <2>1, <3>1
    <3> QED BY <2>1, <3>2 DEF NoMissedExit, Kids
  <2> QED BY <2>5, <2>6, <2>7, <2>8, <2>9, <2>10
<1> QED BY <1>2, <1>3

\* One run of the scheduler with the timers of list: those due are removed and
\* their processes made ready, the running one is put at the end.
LEMMA ScheduleStep ==
    ASSUME IInv, UserMode, NEW list \in Seq(Timers), OneTimerEach(list), InOrder(list),
           Owners(list) = Timed, internal_schedule(list)
    PROVE  IInv'
<1> USE DEF IInv
<1> DEFINE woken == [i \in DOMAIN Elapsed(list) |-> Elapsed(list)[i].pcb]
           ready == woken \o ready_list
           awake == [b \in PCBs |-> IF b \in ToSet(woken) THEN "Ready" ELSE status[b]]
           h == Head(ready)
<1>1. /\ running \in pcbs /\ running \in PCBs /\ running # NULL
      /\ running \notin ToSet(ready_list) \cup waiting_list \cup zombie_list \cup returned
      /\ running \notin Timed /\ machine = "up"
  BY InUserMode
<1>2. /\ woken \in Seq(PCBs) /\ Distinct(woken)
      /\ timer_list' \in Seq(Timers) /\ OneTimerEach(timer_list') /\ InOrder(timer_list')
      /\ Timed = ToSet(woken) \cup Timed' /\ ToSet(woken) \cap Timed' = {}
  <2>1. timer_list' = Remaining(list) /\ Timed' = Owners(timer_list')
    BY DEF internal_schedule, Timed, Owners
  <2> QED BY <2>1, ElapsedTimers
<1>3. /\ waiting_list' = waiting_list \ ToSet(woken)
      /\ UNCHANGED <<init_pcb, zombie_list, pcbs, parent, children, signals, awaits,
                     no_context, returned, pcbptr_pool, syscall_retvalue>>
      /\ \/ /\ ready = <<>>
            /\ UNCHANGED <<machine, running, ready_list, status>>
         \/ /\ ready # <<>>
            /\ Dispatch(h) /\ ready_list' = Append(Tail(ready), running)
            /\ status' = [awake EXCEPT ![running] = "Ready", ![h] = "Running"]
  BY DEF internal_schedule, family, Requeued
<1> HIDE DEF woken
<1>4. /\ ToSet(woken) \subseteq waiting_list /\ ToSet(woken) \subseteq PCBs
      /\ \A b \in ToSet(woken) : awaits[b] = NULL
  BY <1>2 DEF TimersOK, TypeOK
<1>5. /\ ready \in Seq(PCBs) /\ Distinct(ready)
      /\ ToSet(ready) = ToSet(woken) \cup ToSet(ready_list)
      /\ running \notin ToSet(ready)
  <2>1. ToSet(woken) \cap ToSet(ready_list) = {}
    BY <1>4 DEF PlacesOK
  <2>2. ready_list \in Seq(PCBs) /\ Distinct(ready_list)
    BY DEF TypeOK, PlacesOK
  <2>3. ready \in Seq(PCBs) /\ Distinct(ready) /\ ToSet(ready) = ToSet(woken) \cup ToSet(ready_list)
    BY <1>2, <2>1, <2>2, ConcatList
  <2> QED BY <1>1, <1>4, <2>3
<1> HIDE DEF ready, awake
<1>6. TimersOK'
  <2>1. Timed' = {b \in waiting_list' : awaits'[b] = NULL}
    BY <1>2, <1>3, <1>4 DEF TimersOK
  <2>2. \A b \in PCBs : awaits'[b] # NULL => b \in waiting_list'
    BY <1>3, <1>4 DEF TimersOK
  <2> QED BY <1>2, <2>1, <2>2 DEF TimersOK
<1>7. FamilyOK' /\ FamilySignalled'
  BY <1>3 DEF FamilyOK, FamilySignalled, Kids
<1>8. NoMissedExit'
  BY <1>3 DEF NoMissedExit
<1>9. TypeOK' /\ PlacesOK' /\ StatusOK'
  <2>1. CASE ready = <<>>
    <3>1. ToSet(ready) = {}
      BY <2>1, EmptyList
    <3>2. ToSet(woken) = {}
      BY <1>5, <3>1
    <3>3. waiting_list' = waiting_list
      BY <1>3, <3>2
    <3>4. UNCHANGED <<machine, running, ready_list, status>>
      BY <1>3, <2>1
    <3> QED BY <1>2, <1>3, <3>3, <3>4 DEF TypeOK, PlacesOK, StatusOK
  <2>2. CASE ready # <<>>
    <3>1. /\ h \in PCBs /\ h \in ToSet(ready) /\ Tail(ready) \in Seq(PCBs)
          /\ ToSet(Tail(ready)) = ToSet(ready) \ {h} /\ Distinct(Tail(ready))
      BY <1>5, <2>2, TailList
    <3>2. /\ ready_list' \in Seq(PCBs) /\ Distinct(ready_list')
          /\ ToSet(ready_list') = (ToSet(ready) \ {h}) \cup {running}
      <4>1. ready_list' = Append(Tail(ready), running) /\ running \notin ToSet(Tail(ready))
        BY <1>3, <1>5, <2>2, <3>1
      <4> QED BY <1>1, <3>1, <4>1, AppendList
    <3>3. running' = h /\ machine' \in {"up", "segv"} /\ h # NULL /\ h # running
      BY <1>1, <1>3, <1>5, <2>2, <3>1, ProcessAssumption DEF Dispatch
    <3> HIDE DEF h
    <3>4. /\ status' \in [PCBs -> Statuses]
          /\ \A b \in PCBs : status'[b] =
                IF b = h THEN "Running" ELSE IF b = running THEN "Ready"
                ELSE IF b \in ToSet(woken) THEN "Ready" ELSE status[b]
      <4>1. /\ awake \in [PCBs -> Statuses]
            /\ \A b \in PCBs : awake[b] = IF b \in ToSet(woken) THEN "Ready" ELSE status[b]
        BY DEF awake, TypeOK, Statuses
      <4>2. status' = [awake EXCEPT ![running] = "Ready", ![h] = "Running"]
        BY <1>3, <2>2
      <4> QED BY <1>1, <3>1, <3>3, <4>1, <4>2 DEF Statuses
    <3>5. TypeOK'
      BY <1>2, <1>3, <3>1, <3>2, <3>3, <3>4 DEF TypeOK
    <3>6. /\ h \notin zombie_list \cup returned
          /\ ToSet(woken) \cap (zombie_list \cup returned) = {}
      BY <1>4, <1>5, <3>1 DEF PlacesOK
    <3>7. PlacesOK'
      <4>1. pcbs' = ({running'} \ {NULL}) \cup ToSet(ready_list') \cup waiting_list'
                      \cup zombie_list' \cup returned'
        BY <1>1, <1>3, <1>4, <1>5, <3>1, <3>2, <3>3 DEF PlacesOK
      <4>2. running' \notin ToSet(ready_list') \cup waiting_list' \cup zombie_list'
                              \cup returned'
        BY <1>1, <1>3, <1>4, <1>5, <3>1, <3>2, <3>3, <3>6 DEF PlacesOK
      <4>3. ToSet(ready_list') \cap (waiting_list' \cup zombie_list' \cup returned') = {}
        BY <1>1, <1>3, <1>4, <1>5, <3>2, <3>6 DEF PlacesOK
      <4> QED BY <1>3, <3>2, <4>1, <4>2, <4>3 DEF PlacesOK
    <3>8. StatusOK'
      <4>1. ToSet(ready_list) \subseteq PCBs /\ pcbs \subseteq PCBs
        BY ToSetType DEF TypeOK
      <4>2. ASSUME NEW b \in ToSet(ready_list') PROVE status'[b] = "Ready"
        <5>1. /\ b # h
              /\ b = running \/ b \in ToSet(woken) \/ b \in ToSet(ready_list)
          BY <1>5, <3>2, <3>3
        <5>2. b \in PCBs
          BY <1>1, <1>4, <4>1, <5>1
        <5>3. b \in ToSet(ready_list) => status[b] = "Ready"
          BY DEF StatusOK
        <5> QED BY <3>4, <5>1, <5>2, <5>3
      <4>3. h \notin waiting_list \/ h \in ToSet(woken)
        BY <1>5, <3>1 DEF PlacesOK
      <4>4. \A b \in PCBs : status'[b] = "Waiting" <=> b \in waiting_list'
        BY <1>1, <1>3, <3>4, <4>3 DEF StatusOK
      <4>5. \A b \in pcbs' : status'[b] = "Zombie" <=> b \in zombie_list'
        BY <1>1, <1>3, <3>4, <3>6, <4>1 DEF StatusOK
      <4> QED BY <4>2, <4>4, <4>5 DEF StatusOK
    <3> QED BY <3>5, <3>7, <3>8
  <2> QED BY <2>1, <2>2
<1> QED BY <1>6, <1>7, <1>8, <1>9
-----------------------------------------------------------------------------
\* The timer hands the processor from one process to another, never to none.
LEMMA StillRuns ==
    ASSUME IInv, timerInterrupt, running # NULL
    PROVE  running' # NULL
<1> DEFINE list == Ticked(timer_list)
           woken == [i \in DOMAIN Elapsed(list) |-> Elapsed(list)[i].pcb]
           ready == woken \o ready_list
<1>1. CASE Segv
  BY <1>1 DEF Segv, Stop
<1>2. CASE internal_schedule(list)
  <2>1. list \in Seq(Timers) /\ OneTimerEach(list) /\ InOrder(list)
    BY TickedTimers DEF IInv, TypeOK, TimersOK
  <2>2. woken \in Seq(PCBs) /\ ready_list \in Seq(PCBs)
    BY <2>1, ElapsedTimers DEF IInv, TypeOK
  <2>3. running' = IF ready = <<>> THEN running ELSE Head(ready)
    BY <1>2 DEF internal_schedule, Dispatch
  <2> HIDE DEF woken, list
  <2>4. ready # <<>> => Head(ready) \in PCBs
    BY <2>2
  <2> QED BY <2>3, <2>4, ProcessAssumption
<1> QED BY <1>1, <1>2 DEF timerInterrupt

\* Every step keeps the invariant.
LEMMA NextStep == IInv /\ [Next]_vars => IInv'
<1> SUFFICES ASSUME IInv, [Next]_vars PROVE IInv'
  OBVIOUS
<1> USE DEF IInv
<1>1. CASE internal_spawn
  <2>1. CASE NoRoom /\ Segv
    BY <2>1, QuietStep DEF Segv, Stop, TypeOK
  <2>2. ASSUME NEW b \in PCBs, NewChild(b), no_context' = no_context \ {b} PROVE IInv'
    <3>1. no_context' \subseteq PCBs /\ UserMode
      BY <1>1, <2>2 DEF TypeOK, internal_spawn
    <3> QED BY <2>2, <3>1, NewChildStep
  <2> QED BY <1>1, <2>1, <2>2 DEF internal_spawn
<1>2. CASE internal_fork
  <2>1. CASE NoRoom /\ Segv
    BY <2>1, QuietStep DEF Segv, Stop, TypeOK
  <2>2. ASSUME NEW b \in PCBs, NewChild(b), UNCHANGED no_context PROVE IInv'
    <3>1. no_context' \subseteq PCBs /\ UserMode
      BY <1>2, <2>2 DEF TypeOK, internal_fork
    <3> QED BY <2>2, <3>1, NewChildStep
  <2> QED BY <1>2, <2>1, <2>2 DEF internal_fork
<1>3. CASE internal_exit
  <2>1. CASE ExitHangs
    BY <2>1, QuietStep DEF ExitHangs, Stop, TypeOK
  <2>2. CASE ExitCrashes
    BY <2>2, QuietStep DEF ExitCrashes, Segv, Stop, TypeOK
  <2> QED BY <1>3, <2>1, <2>2, ExitWakesParentStep, ExitToZombieStep DEF internal_exit
<1>4. ASSUME NEW pid \in Pids, internal_wait(pid)
      PROVE  IInv'
  <2>1. CASE WaitNoChildren
    <3>1. syscall_retvalue' \in
             [PCBs -> PCBs \cup {0, DSOS_EWAIT, DSOS_ESLEEP} \cup OtherResults]
      BY <2>1 DEF WaitNoChildren, Return, TypeOK
    <3> QED BY <2>1, <3>1, QuietStep DEF WaitNoChildren, TypeOK
  <2>2. CASE WaitCrashes(pid)
    BY <2>2, QuietStep DEF WaitCrashes, Segv, Stop, TypeOK
  <2>3. pid \in PCBs \cup {AnyChild, NoPid}
    BY DEF TypeOK, Pids
  <2> QED BY <1>4, <2>1, <2>2, <2>3, WaitReapsStep, WaitBlocksStep DEF internal_wait
<1>5. ASSUME NEW ticks \in SleepTimes, internal_sleep(ticks) PROVE IInv'
  BY <1>5, SleepStep, ProcessAssumption
<1>6. CASE internal_preempt
  BY <1>6, ScheduleStep, TimedOwners DEF internal_preempt, TypeOK, TimersOK
<1>7. CASE timerInterrupt
  <2>1. CASE running = NULL /\ Segv
    BY <2>1, QuietStep DEF Segv, Stop, TypeOK
  <2>2. CASE running # NULL /\ internal_schedule(Ticked(timer_list))
    <3>1. UserMode
      BY <1>7, <2>2 DEF timerInterrupt, UserMode
    <3>2. /\ Ticked(timer_list) \in Seq(Timers) /\ Owners(Ticked(timer_list)) = Timed
          /\ OneTimerEach(Ticked(timer_list)) /\ InOrder(Ticked(timer_list))
      BY TickedTimers, TimedOwners DEF TypeOK, TimersOK
    <3> QED BY <2>2, <3>1, <3>2, ScheduleStep
  <2> QED BY <1>7, <2>1, <2>2 DEF timerInterrupt
<1>8. CASE internal_shutdown
  BY <1>8, QuietStep DEF internal_shutdown, Stop, TypeOK
<1>9. CASE resource_call
  <2>1. CASE Segv
    BY <2>1, QuietStep DEF Segv, Stop, TypeOK
  <2>2. ASSUME NEW n \in {0, 1}, n <= pcbptr_pool, pcbptr_pool' = pcbptr_pool - n,
               NEW v \in OtherResults, Return(v),
               UNCHANGED <<machine, running, init_pcb, lists, timer_list, family, status,
                           signals, awaits, no_context, returned>>
        PROVE  IInv'
    <3>1. pcbptr_pool' \in Nat
      BY <2>2 DEF TypeOK
    <3>2. syscall_retvalue' \in
             [PCBs -> PCBs \cup {0, DSOS_EWAIT, DSOS_ESLEEP} \cup OtherResults]
      BY <2>2 DEF Return, TypeOK
    <3> QED BY <2>2, <3>1, <3>2, QuietStep DEF TypeOK
  <2> QED BY <1>9, <2>1, <2>2 DEF resource_call
<1>10. CASE UNCHANGED vars
  BY <1>10, QuietStep DEF vars, TypeOK
<1> QED BY <1>1, <1>2, <1>3, <1>4, <1>5, <1>6, <1>7, <1>8, <1>9, <1>10, StartAgainStep
        DEF Next
-----------------------------------------------------------------------------
\* What the inductive invariant says of the places, in the terms of
\* EachInOnePlace.
LEMMA Placed == IInv => EachInOnePlace
<1> SUFFICES ASSUME IInv PROVE EachInOnePlace
  OBVIOUS
<1> USE DEF IInv
<1> DEFINE R == {running} \ {NULL}
           Q == ToSet(ready_list)
           places == <<R, Q, waiting_list, zombie_list, returned>>
<1>1. Cardinality(Q) = Len(ready_list)
  BY DistinctLength DEF TypeOK, PlacesOK
<1>2. \A b \in Q : status[b] = "Ready"
  BY DEF StatusOK
<1>3. /\ \A b \in waiting_list : status[b] = "Waiting"
      /\ \A b \in zombie_list : status[b] = "Zombie"
  BY DEF StatusOK, TypeOK, PlacesOK
<1>4. /\ pcbs = R \cup Q \cup waiting_list \cup zombie_list \cup returned
      /\ R \cap Q = {} /\ R \cap waiting_list = {} /\ R \cap zombie_list = {}
      /\ R \cap returned = {} /\ Q \cap waiting_list = {} /\ Q \cap zombie_list = {}
      /\ Q \cap returned = {} /\ waiting_list \cap zombie_list = {}
      /\ waiting_list \cap returned = {} /\ zombie_list \cap returned = {}
  BY DEF PlacesOK
<1> HIDE DEF R, Q
<1>5. DOMAIN places = 1 .. 5
  OBVIOUS
<1>6. ToSet(places) = {R, Q, waiting_list, zombie_list, returned}
  <2>1. ToSet(places) = {places[i] : i \in 1 .. 5}
    BY <1>5 DEF ToSet
  <2>2. /\ places[1] = R /\ places[2] = Q /\ places[3] = waiting_list
        /\ places[4] = zombie_list /\ places[5] = returned
    OBVIOUS
  <2>3. \A i \in 1 .. 5 : i = 1 \/ i = 2 \/ i = 3 \/ i = 4 \/ i = 5
    OBVIOUS
  <2> HIDE DEF places
  <2> QED BY <2>1, <2>2, <2>3
<1>7. UNION ToSet(places) = pcbs
  BY <1>4, <1>6
<1>8. \A i, j \in DOMAIN places : i # j => places[i] \cap places[j] = {}
  <2>1. /\ places[1] = R /\ places[2] = Q /\ places[3] = waiting_list
        /\ places[4] = zombie_list /\ places[5] = returned
    OBVIOUS
  <2>2. \A i \in 1 .. 5 : i = 1 \/ i = 2 \/ i = 3 \/ i = 4 \/ i = 5
    OBVIOUS
  <2> HIDE DEF places
  <2> QED BY <1>4, <1>5, <2>1, <2>2
<1> QED BY <1>1, <1>2, <1>3, <1>7, <1>8 DEF EachInOnePlace, R, Q

\* What it says of the lists of children, in the terms of EachChildListedOnce.
LEMMA ListedOnce == IInv => EachChildListedOnce
<1> SUFFICES ASSUME IInv PROVE EachChildListedOnce
  OBVIOUS
<1> USE DEF IInv
<1> DEFINE edges == UNION {{r} \X DOMAIN children[r] : r \in PCBs}
<1>1. \A e : e \in edges <=> \E r \in PCBs : \E i \in DOMAIN children[r] : e = <<r, i>>
  OBVIOUS
<1>2. ASSUME NEW e \in edges
      PROVE  /\ e[1] \in PCBs /\ e[2] \in DOMAIN children[e[1]] /\ e = <<e[1], e[2]>>
             /\ children[e[1]][e[2]] \in Kids(e[1])
  BY <1>1 DEF Kids, ToSet
<1> HIDE DEF edges
<1>3. \A e \in edges : e[1] \in pcbs /\ children[e[1]][e[2]] \in pcbs
  <2> SUFFICES ASSUME NEW e \in edges PROVE e[1] \in pcbs /\ children[e[1]][e[2]] \in pcbs
    OBVIOUS
  <2>1. e[1] \in PCBs /\ Kids(e[1]) # {}
    BY <1>2
  <2>2. e[1] \in pcbs
    BY <2>1 DEF FamilyOK
  <2> QED BY <1>2, <2>2 DEF FamilyOK
<1>4. \A e \in edges : parent[children[e[1]][e[2]]] # NULL
  BY <1>2 DEF FamilyOK
<1>5. ASSUME NEW b \in pcbs, parent[b] # NULL
      PROVE  Cardinality({e \in edges : children[e[1]][e[2]] = b}) = 1
  <2> DEFINE places == {e \in edges : children[e[1]][e[2]] = b}
  <2>1. PICK r \in PCBs : b \in Kids(r)
    BY <1>5 DEF FamilyOK
  <2>2. PICK i \in DOMAIN children[r] : children[r][i] = b
    BY <2>1 DEF Kids, ToSet
  <2>3. <<r, i>> \in places
    BY <1>1, <2>2
  <2>4. ASSUME NEW e \in places PROVE e = <<r, i>>
    <3>1. e \in edges /\ b \in Kids(e[1]) /\ e[1] \in PCBs /\ children[e[1]][e[2]] = b
      BY <1>2
    <3>2. e[1] = r
      BY <2>1, <3>1 DEF FamilyOK
    <3>3. e[2] = i
      BY <1>2, <2>2, <3>1, <3>2 DEF FamilyOK, Distinct
    <3> QED BY <1>2, <3>1, <3>2, <3>3
  <2>5. places = {<<r, i>>}
    BY <2>3, <2>4
  <2> QED BY <2>5, FS_Singleton
<1> QED BY <1>3, <1>4, <1>5 DEF EachChildListedOnce, edges

\* What it says of the timers, in the terms of TimersMatchSleepers.
LEMMA TimersMatched == IInv => TimersMatchSleepers
<1> SUFFICES ASSUME IInv PROVE TimersMatchSleepers
  OBVIOUS
<1> USE DEF IInv
<1> DEFINE owners == [i \in 1 .. Len(timer_list) |-> timer_list[i].pcb]
<1>1. /\ DOMAIN timer_list = 1 .. Len(timer_list) /\ Len(timer_list) \in Nat
      /\ \A i \in 1 .. Len(timer_list) : timer_list[i].pcb \in PCBs
  BY TimersType DEF TypeOK
<1>2. owners \in Seq(PCBs) /\ Len(owners) = Len(timer_list)
  BY <1>1
<1>3. Distinct(owners)
  BY <1>1 DEF Distinct, TimersOK, OneTimerEach
<1>4. ToSet(owners) = Timed
  BY <1>1 DEF ToSet, Timed
<1> HIDE DEF owners
<1>5. Cardinality(Timed) = Len(timer_list)
  BY <1>2, <1>3, <1>4, DistinctLength
<1> QED BY <1>5 DEF TimersMatchSleepers, TimersOK, InOrder
-----------------------------------------------------------------------------
\* Every behaviour of the processes keeps the inductive invariant.
LEMMA Inductive == Init /\ [][Next]_vars => []IInv
BY InitIInv, NextStep, PTL

\* The variables hold what the code's types say, whatever programs call; so a
\* step never indexes a list out of its bounds or takes a PCBPtr below zero.
THEOREM Typing == Spec => []TypeOK
<1>1. IInv => TypeOK
  BY DEF IInv
<1> QED BY <1>1, Inductive, PTL DEF Spec

\* A process runs, or is in one list, or has returned to main_context, and its
\* status says which: no sequence of calls, ticks and restarts loses or
\* duplicates one (disastrOS_exit.c, disastrOS_wait.c, disastrOS_schedule.c).
THEOREM Places == Spec => []EachInOnePlace
BY Inductive, Placed, PTL DEF Spec

\* Spawn, exit, adoption and wait keep the lists of children a forest of the
\* allocated PCBs (disastrOS_exit.c:20-33, disastrOS_wait.c).
THEOREM Family == Spec => []EachChildListedOnce
BY Inductive, ListedOnce, PTL DEF Spec

\* sleep and the scheduler agree on who has a timer, and the list is ordered
\* (disastrOS_timer.c:44-61, disastrOS_schedule.c:21-29).
THEOREM Sleepers == Spec => []TimersMatchSleepers
BY Inductive, TimersMatched, PTL DEF Spec

\* wait never sleeps through the exit of a child of its own, in any order of
\* their calls (disastrOS_wait.c:33-61, disastrOS_exit.c:41-46).
THEOREM Exits == Spec => []NoMissedExit
<1>1. IInv => NoMissedExit
  BY DEF IInv
<1> QED BY <1>1, Inductive, PTL DEF Spec

\* SIGHUP has gone to every adopted child, and SIGCHLD to the parent of every
\* zombie it can reap (disastrOS_exit.c:29-37).
THEOREM Signals == Spec => []FamilySignalled
<1>1. IInv => FamilySignalled
  BY DEF IInv
<1> QED BY <1>1, Inductive, PTL DEF Spec
=============================================================================
