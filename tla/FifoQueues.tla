----------------------------- MODULE FifoQueues ------------------------------
(* What the message queues promise, with no blocks, descriptors or roles:    *)
(* each existing queue is a bounded channel that delivers what it stored, in *)
(* order, once, unchanged and to no other queue.                             *)
EXTENDS Naturals, Sequences

CONSTANTS Ids, Msgs, Capacity, Closed

VARIABLE chan   \* for each id its stored messages, or Closed

Init == chan = [id \in Ids |-> Closed]

Open(id) ==
    /\ chan[id] = Closed
    /\ chan' = [chan EXCEPT ![id] = <<>>]

\* A destroyed queue takes its messages with it.
Close(id) ==
    /\ chan[id] # Closed
    /\ chan' = [chan EXCEPT ![id] = Closed]

Send(id, m) ==
    /\ chan[id] # Closed
    /\ Len(chan[id]) < Capacity
    /\ chan' = [chan EXCEPT ![id] = Append(@, m)]

Receive(id) ==
    /\ chan[id] \notin {Closed, <<>>}
    /\ chan' = [chan EXCEPT ![id] = Tail(@)]

Next ==
    \E id \in Ids :
        Open(id) \/ Close(id) \/ Receive(id) \/ \E m \in Msgs : Send(id, m)

Spec == Init /\ [][Next]_chan
=============================================================================
