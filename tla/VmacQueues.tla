------------------------------ MODULE VmacQueues ------------------------------
(***************************************************************************)
(* The scheduler of queue.c: three linked lists, each under its own      *)
(* spinlock, filled by producers and drained by two kernel threads.      *)
(*   mqueue   (mlock): retrx and add_DACK, management frames;            *)
(*   uqueue   (flock): enq_uqueue, frames from the upper layer;          *)
(*   rx_upper (rlock): add_mgmt, received frames for vmac_rx.            *)
(* queuethread drains mqueue and then uqueue on every pass, testing the  *)
(* medium (get_stats = -1: busy) before each frame; rqueuethread drains  *)
(* rx_upper into vmac_rx.                                                *)
(*                                                                         *)
(* Each consumer walks its list with list_for_each_safe outside the      *)
(* lock: it reads the successor n of the current entry pos, transmits    *)
(* pos, unlinks pos under the lock, and moves to n.  Producers append    *)
(* under the lock at any time.  Because only the consumer unlinks, pos   *)
(* is always the first entry; what the walk sees of concurrent appends   *)
(* is whether n was an entry or the list head when it was read, kept    *)
(* here as hasNext.                                                      *)
(*                                                                         *)
(* Entries are numbered in the order they are enqueued; the frame an     *)
(* entry carries is abstracted to its number.                            *)
(***************************************************************************)
EXTENDS Naturals, Sequences, FiniteSets

CONSTANTS
  AllocMayFail   \* whether the kmalloc of a queue entry may fail

VARIABLES
  nextId,    \* number of the next entry a producer creates
  mq,        \* mqueue, entry numbers from head to tail
  uq,        \* uqueue
  rq,        \* rx_upper
  txPc,      \* queuethread: "sleep", "m" / "u" (at pos in mqueue / uqueue),
             \* "mdel" / "udel" (pos sent, not yet unlinked)
  txHasPos,  \* pos is an entry, not the list head
  txHasNext, \* n, read from pos->next, is an entry
  rxPc,      \* rqueuethread: "sleep", "r", "rdel"
  rxHasPos,
  rxHasNext,
  air,       \* frames handed to vmac_low_tx: [id, q] with q in {"m", "u"}
  upper,     \* frames handed to vmac_rx by rqueuethread
  lost,      \* entries whose kmalloc failed: the frame is neither queued
             \* nor freed
  passM      \* history: mqueue entries present when the current pass of
             \* queuethread began

qVars == <<nextId, mq, uq, rq, txPc, txHasPos, txHasNext, rxPc, rxHasPos,
           rxHasNext, air, upper, lost, passM>>

IdSeq(s) == s \in Seq(Nat)

TypeOK ==
  /\ nextId \in Nat
  /\ IdSeq(mq) /\ IdSeq(uq) /\ IdSeq(rq) /\ IdSeq(upper)
  /\ txPc \in {"sleep", "m", "mdel", "u", "udel"}
  /\ rxPc \in {"sleep", "r", "rdel"}
  /\ {txHasPos, txHasNext, rxHasPos, rxHasNext} \subseteq BOOLEAN
  /\ air \in Seq([id : Nat, q : {"m", "u"}])
  /\ lost \subseteq Nat /\ passM \subseteq Nat

\* queue_init (queue.c:45-54) empties the lists; queue_start (29-40)
\* starts both threads, which begin by sleeping.
Init ==
  /\ nextId = 0
  /\ mq = <<>> /\ uq = <<>> /\ rq = <<>>
  /\ txPc = "sleep" /\ txHasPos = FALSE /\ txHasNext = FALSE
  /\ rxPc = "sleep" /\ rxHasPos = FALSE /\ rxHasNext = FALSE
  /\ air = <<>> /\ upper = <<>> /\ lost = {} /\ passM = {}

-----------------------------------------------------------------------------
(* Producers.  Each allocates an entry with kmalloc; on failure the frame *)
(* is dropped without being freed, otherwise it is appended under the    *)
(* list's lock.                                                          *)

\* Faulty variant of Enqueue: the entry goes to the head (list_add).
EnqueueHead(q) ==
  IF AllocMayFail THEN {q, <<nextId>> \o q} ELSE {<<nextId>> \o q}

\* The lists q may become when a producer enqueues entry nextId.
Enqueue(q) ==
  IF AllocMayFail THEN {q, Append(q, nextId)} ELSE {Append(q, nextId)}

\* Whether the new entry was lost, given the list it produced.
LostIf(q, q2) == IF q2 = q THEN lost \cup {nextId} ELSE lost

\* retrx (queue.c:129-140) and add_DACK (158-170): onto mqueue.
AddMgmtFrame ==
  /\ \E q2 \in Enqueue(mq) : mq' = q2 /\ lost' = LostIf(mq, q2)
  /\ nextId' = nextId + 1
  /\ UNCHANGED <<uq, rq, txPc, txHasPos, txHasNext, rxPc, rxHasPos, rxHasNext,
                 air, upper, passM>>

\* enq_uqueue (queue.c:98-110): onto uqueue.
EnqUqueue ==
  /\ \E q2 \in Enqueue(uq) : uq' = q2 /\ lost' = LostIf(uq, q2)
  /\ nextId' = nextId + 1
  /\ UNCHANGED <<mq, rq, txPc, txHasPos, txHasNext, rxPc, rxHasPos, rxHasNext,
                 air, upper, passM>>

\* add_mgmt (queue.c:301-311): onto rx_upper.
AddMgmt ==
  /\ \E q2 \in Enqueue(rq) : rq' = q2 /\ lost' = LostIf(rq, q2)
  /\ nextId' = nextId + 1
  /\ UNCHANGED <<mq, uq, txPc, txHasPos, txHasNext, rxPc, rxHasPos, rxHasNext,
                 air, upper, passM>>


-----------------------------------------------------------------------------
(* queuethread (queue.c:223-283).  A pass sleeps, walks mqueue, then      *)
(* walks uqueue.  get_stats = -1 (the medium busy) breaks out of the     *)
(* current walk only: a break in the mqueue walk goes on to the uqueue   *)
(* walk.                                                                 *)

UnchangedRx == UNCHANGED <<rq, rxPc, rxHasPos, rxHasNext, upper>>

\* list_for_each_safe(pos, q, &uqueue.list) starting: pos = first entry or
\* head, n = pos->next.
StartU ==
  /\ txPc' = "u"
  /\ txHasPos' = (Len(uq) > 0)
  /\ txHasNext' = (Len(uq) > 1)

\* usleep_range, then the mqueue walk starts (queue.c:229-239).
TxPass ==
  /\ txPc = "sleep"
  /\ txPc' = "m"
  /\ txHasPos' = (Len(mq) > 0)
  /\ txHasNext' = (Len(mq) > 1)
  /\ passM' = {mq[k] : k \in 1 .. Len(mq)}
  /\ UNCHANGED <<nextId, mq, uq, air, lost>>
  /\ UnchangedRx

\* get_stats = -1 in the mqueue walk: break (queue.c:241-244).
MBusy ==
  /\ txPc = "m" /\ txHasPos
  /\ StartU
  /\ UNCHANGED <<nextId, mq, uq, air, lost, passM>>
  /\ UnchangedRx

\* vmac_low_tx(tmp->frame) for the first mqueue entry (queue.c:248-251).
MSend ==
  /\ txPc = "m" /\ txHasPos
  /\ air' = Append(air, [id |-> Head(mq), q |-> "m"])
  /\ txPc' = "mdel"
  /\ UNCHANGED <<nextId, mq, uq, txHasPos, txHasNext, lost, passM>>
  /\ UnchangedRx

\* list_del_init(pos) under mlock and kfree, then pos = n, n = pos->next
\* (queue.c:252-256, 239).
MDel ==
  /\ txPc = "mdel"
  /\ mq' = Tail(mq)
  /\ txPc' = "m"
  /\ txHasPos' = txHasNext
  /\ txHasNext' = (txHasNext /\ Len(mq) > 2)
  /\ UNCHANGED <<nextId, uq, air, lost, passM>>
  /\ UnchangedRx

\* Faulty variant of MLoopEnd: the pass ends after the mqueue walk.
MLoopEndSleep ==
  /\ txPc = "m" /\ ~txHasPos
  /\ txPc' = "sleep"
  /\ UNCHANGED <<nextId, mq, uq, txHasPos, txHasNext, air, lost, passM>>
  /\ UnchangedRx

\* pos is the list head: the mqueue walk ends and the uqueue walk starts
\* (queue.c:239, 259).
MLoopEnd ==
  /\ txPc = "m" /\ ~txHasPos
  /\ StartU
  /\ UNCHANGED <<nextId, mq, uq, air, lost, passM>>
  /\ UnchangedRx

\* get_stats = -1 in the uqueue walk: break, the pass ends (queue.c:262-265).
UBusy ==
  /\ txPc = "u" /\ txHasPos
  /\ txPc' = "sleep"
  /\ UNCHANGED <<nextId, mq, uq, txHasPos, txHasNext, air, lost, passM>>
  /\ UnchangedRx

\* The rate is chosen and vmac_low_tx sends the first uqueue entry
\* (queue.c:266-275).
USend ==
  /\ txPc = "u" /\ txHasPos
  /\ air' = Append(air, [id |-> Head(uq), q |-> "u"])
  /\ txPc' = "udel"
  /\ UNCHANGED <<nextId, mq, uq, txHasPos, txHasNext, lost, passM>>
  /\ UnchangedRx

\* Faulty variant of UDel: list_del_init(pos) left out.
UDelKeep ==
  /\ txPc = "udel"
  /\ txPc' = "u"
  /\ UNCHANGED <<nextId, mq, uq, txHasPos, txHasNext, air, lost, passM>>
  /\ UnchangedRx

\* list_del_init(pos) under flock and kfree, then pos = n (queue.c:276-280).
UDel ==
  /\ txPc = "udel"
  /\ uq' = Tail(uq)
  /\ txPc' = "u"
  /\ txHasPos' = txHasNext
  /\ txHasNext' = (txHasNext /\ Len(uq) > 2)
  /\ UNCHANGED <<nextId, mq, air, lost, passM>>
  /\ UnchangedRx

\* pos is the list head: the pass ends (queue.c:259, 281-282).
ULoopEnd ==
  /\ txPc = "u" /\ ~txHasPos
  /\ txPc' = "sleep"
  /\ UNCHANGED <<nextId, mq, uq, txHasPos, txHasNext, air, lost, passM>>
  /\ UnchangedRx


-----------------------------------------------------------------------------
(* rqueuethread (queue.c:338-358): walks rx_upper, handing each frame to  *)
(* vmac_rx, with no medium test.                                         *)

UnchangedTx == UNCHANGED <<mq, uq, txPc, txHasPos, txHasNext, air, passM>>

\* usleep_range, then the walk starts (queue.c:344-347).
RxPass ==
  /\ rxPc = "sleep"
  /\ rxPc' = "r"
  /\ rxHasPos' = (Len(rq) > 0)
  /\ rxHasNext' = (Len(rq) > 1)
  /\ UNCHANGED <<nextId, rq, upper, lost>>
  /\ UnchangedTx

\* vmac_rx(tmp->frame) for the first entry (queue.c:349-350).
RxHandle ==
  /\ rxPc = "r" /\ rxHasPos
  /\ upper' = Append(upper, Head(rq))
  /\ rxPc' = "rdel"
  /\ UNCHANGED <<nextId, rq, rxHasPos, rxHasNext, lost>>
  /\ UnchangedTx

\* Faulty variant of RxDel: list_del_init(pos) left out.
RxDelKeep ==
  /\ rxPc = "rdel"
  /\ rxPc' = "r"
  /\ UNCHANGED <<nextId, rq, rxHasPos, rxHasNext, upper, lost>>
  /\ UnchangedTx

\* list_del_init(pos) under rlock and kfree, then pos = n (queue.c:351-355).
RxDel ==
  /\ rxPc = "rdel"
  /\ rq' = Tail(rq)
  /\ rxPc' = "r"
  /\ rxHasPos' = rxHasNext
  /\ rxHasNext' = (rxHasNext /\ Len(rq) > 2)
  /\ UNCHANGED <<nextId, upper, lost>>
  /\ UnchangedTx

\* pos is the list head: the walk ends (queue.c:347, 356-357).
RxLoopEnd ==
  /\ rxPc = "r" /\ ~rxHasPos
  /\ rxPc' = "sleep"
  /\ UNCHANGED <<nextId, rq, rxHasPos, rxHasNext, upper, lost>>
  /\ UnchangedTx

Producers == AddMgmtFrame \/ EnqUqueue \/ AddMgmt

TxThread == TxPass \/ MBusy \/ MSend \/ MDel \/ MLoopEnd \/ UBusy \/ USend
            \/ UDel \/ ULoopEnd

RxThread == RxPass \/ RxHandle \/ RxDel \/ RxLoopEnd

-----------------------------------------------------------------------------
(* Properties of the scheduler.                                          *)

\* The positions of s holding entry i.
Occ(s, i) == {k \in 1 .. Len(s) : s[k] = i}

\* Number of places entry i is at.
Places(i) ==
  Cardinality(Occ(mq, i)) - (IF txPc = "mdel" /\ mq # <<>> /\ Head(mq) = i THEN 1 ELSE 0)
  + Cardinality(Occ(uq, i)) - (IF txPc = "udel" /\ uq # <<>> /\ Head(uq) = i THEN 1 ELSE 0)
  + Cardinality(Occ(rq, i)) - (IF rxPc = "rdel" /\ rq # <<>> /\ Head(rq) = i THEN 1 ELSE 0)
  + Cardinality({k \in 1 .. Len(air) : air[k].id = i})
  + Cardinality(Occ(upper, i))
  + (IF i \in lost THEN 1 ELSE 0)

(* Every frame a producer hands over is, at every moment, in exactly one *)
(* place: queued, transmitted once by queuethread, handed once to        *)
(* vmac_rx by rqueuethread, or lost to a failed kmalloc -- the unlocked  *)
(* list_for_each_safe walks neither skip nor repeat an entry while       *)
(* producers append concurrently.                                        *)
EachFrameOnce == \A i \in 0 .. nextId - 1 : Places(i) = 1

\* Entry numbers increase along s.
Increasing(s) == \A j, k \in 1 .. Len(s) : j < k => s[j] < s[k]

(* Each list is a FIFO: queuethread transmits the frames of mqueue, and  *)
(* those of uqueue, in the order the producers enqueued them, and        *)
(* rqueuethread hands rx_upper's frames to vmac_rx in that order         *)
(* (list_add_tail at the producers, walks from the head).                *)
FifoPerQueue ==
  /\ \A j, k \in 1 .. Len(air) :
       j < k /\ air[j].q = air[k].q => air[j].id < air[k].id
  /\ Increasing(upper)

(* spec.md section 4.7: a pass drains the management queue before data;  *)
(* if the medium is busy the pass stops.  So queuethread never transmits *)
(* an upper-layer frame while a management frame that was queued when   *)
(* the pass began is still waiting.                                      *)
MgmtBeforeData ==
  [][ Len(air') > Len(air) /\ air'[Len(air')].q = "u" =>
        passM \cap {mq[k] : k \in 1 .. Len(mq)} = {} ]_qVars

\* Entry i is queued on one of the lists.
Queued(i) == \E s \in {mq, uq, rq} : \E k \in 1 .. Len(s) : s[k] = i

\* Entry i has left its list: transmitted or handed to vmac_rx.
Delivered(i) == (\E k \in 1 .. Len(air) : air[k].id = i) \/ (\E k \in 1 .. Len(upper) : upper[k] = i)

=============================================================================
