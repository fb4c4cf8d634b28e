---------------------------- MODULE FifoScheduler ----------------------------
(***************************************************************************)
(* What the scheduler of queue.c promises, with no threads, locks or     *)
(* walks: a frame handed to a list either joins its tail or is dropped   *)
(* when its queue entry cannot be allocated, and a list gives up its     *)
(* oldest frame, once, to its consumer (vmac_low_tx for mqueue and       *)
(* uqueue, vmac_rx for rx_upper).  A nonempty list is eventually served. *)
(***************************************************************************)
EXTENDS Naturals, Sequences

CONSTANTS
  Lists,         \* the lists, e.g. {"m", "u", "r"}
  AllocMayFail   \* whether handing a frame over may fail

VARIABLES
  nextId,   \* number of the next frame handed over
  queue,    \* queue[l]: frames waiting on list l, oldest first
  out,      \* out[l]: frames list l gave to its consumer, in that order
  lost      \* frames dropped at hand-over

vars == <<nextId, queue, out, lost>>

Init ==
  /\ nextId = 0
  /\ queue = [l \in Lists |-> <<>>]
  /\ out = [l \in Lists |-> <<>>]
  /\ lost = {}

\* A frame is handed to list l: it joins the tail, or is dropped.
Enq(l) ==
  /\ nextId' = nextId + 1
  /\ \/ queue' = [queue EXCEPT ![l] = Append(@, nextId)] /\ lost' = lost
     \/ AllocMayFail /\ lost' = lost \cup {nextId} /\ queue' = queue
  /\ out' = out

\* List l gives its oldest frame to its consumer.
Deq(l) ==
  /\ queue[l] # <<>>
  /\ out' = [out EXCEPT ![l] = Append(@, Head(queue[l]))]
  /\ queue' = [queue EXCEPT ![l] = Tail(@)]
  /\ UNCHANGED <<nextId, lost>>

Next == \E l \in Lists : Enq(l) \/ Deq(l)

Spec == Init /\ [][Next]_vars /\ \A l \in Lists : WF_vars(Deq(l))

=============================================================================
