----------------------------- MODULE MCVmacQueues -----------------------------
(***************************************************************************)
(* The scheduler with MaxEnq frames handed over by the producers, in any *)
(* order across the three lists and interleaved with both threads.      *)
(***************************************************************************)
EXTENDS VmacQueues

CONSTANTS
  MaxEnq   \* frames the producers hand over in one behaviour

Ids == 0 .. MaxEnq - 1

Next ==
  \/ nextId < MaxEnq /\ Producers
  \/ TxThread
  \/ RxThread

(* The threads loop forever and each step of a walk is taken once it is  *)
(* enabled (weak fairness); a busy medium (get_stats = -1) is not busy   *)
(* forever, so a send that is enabled again and again happens (strong    *)
(* fairness on MSend and USend).  Producers need no fairness.            *)
Spec ==
  /\ Init /\ [][Next]_qVars
  /\ WF_qVars(TxPass) /\ WF_qVars(MDel) /\ WF_qVars(MLoopEnd)
  /\ WF_qVars(UDel) /\ WF_qVars(ULoopEnd)
  /\ SF_qVars(MSend) /\ SF_qVars(USend)
  /\ WF_qVars(RxThread)

(* Every queued frame is eventually transmitted by queuethread or handed *)
(* to vmac_rx by rqueuethread, even when frames are appended behind the  *)
(* walks and the medium is busy now and then.                            *)
QueuedEventuallyDelivered == \A i \in Ids : Queued(i) ~> Delivered(i)


-----------------------------------------------------------------------------
(* Refinement mapping onto FifoScheduler.  A frame leaves its list, in   *)
(* the abstract view, at the step that hands it to its consumer          *)
(* (MSend, USend, RxHandle); the later list_del_init is a stuttering     *)
(* step.  Producers' numbering and the lost set map to themselves.       *)

\* The frames of list s still waiting, given whether its head was sent.
Waiting(s, sent) == IF sent THEN Tail(s) ELSE s

\* Frames vmac_low_tx was given from list l, in order.
SentFrom(l) ==
  LET s == SelectSeq(air, LAMBDA e : e.q = l) IN [k \in 1 .. Len(s) |-> s[k].id]

Abs == INSTANCE FifoScheduler WITH
         Lists <- {"m", "u", "r"},
         queue <- [l \in {"m", "u", "r"} |->
                     CASE l = "m" -> Waiting(mq, txPc = "mdel")
                       [] l = "u" -> Waiting(uq, txPc = "udel")
                       [] l = "r" -> Waiting(rq, rxPc = "rdel")],
         out   <- [l \in {"m", "u", "r"} |->
                     IF l = "r" THEN upper ELSE SentFrom(l)]

(* queuethread, rqueuethread and the producers together implement the   *)
(* abstract FIFO scheduler: each list hands its frames to its consumer   *)
(* once each, oldest first, drops only frames whose kmalloc failed, and  *)
(* eventually serves a nonempty list -- under the unlocked               *)
(* list_for_each_safe walks, concurrent appends and a busy medium.       *)
ImplementsFifo == Abs!Spec

=============================================================================
