------------------------------- MODULE VmacTx -------------------------------
(***************************************************************************)
(* Transmit side of one encoding at a publisher (struct encoding_tx):     *)
(*   - vmac_tx's Data branch (tx.c:168-229, 260): flow creation, sequence *)
(*     assignment under seqlock, retransmission copy and slot reuse;      *)
(*   - vmac_rx's DACK branch (rx.c:313-368): selective retransmission     *)
(*     from the retransmission buffer;                                    *)
(*   - eviction by the encoding timeout, process() (clean.c:71-91).       *)
(* vmac_tx runs in the sender's process context and the DACK branch in    *)
(* the receive softirq; they share retransmission_buffer and timer with  *)
(* no lock (only seq is read and written under seqlock), so each is cut  *)
(* into the steps between which the other can run.                       *)
(*                                                                         *)
(* A buffered copy is named by the sequence number of the frame it copies *)
(* (numbers are not reused within one flow here: the runs send far fewer *)
(* than 2^16 frames).                                                    *)
(***************************************************************************)
EXTENDS Integers, Sequences, FiniteSets

CONSTANTS
  WINDOW_TX,     \* slots of the retransmission buffer (vmac.h: 500)
  MaxRetx,       \* copies one DACK may trigger (rx.c:230, maxretx = 20)
  RetxPace,      \* rounds a retransmitted slot is gated (rx.c:356: 6)
  OobNull,       \* values the test of buffer[WINDOW_TX] may see as NULL
  AllocMayFail,  \* whether skb_copy may fail
  NULL, UNINIT

VARIABLES
  txExists,   \* find_tx(TX_TABLE, enc) # NULL
  seq,        \* vmact->seq, next number to assign (u16)
  buf,        \* vmact->retransmission_buffer: slot -> copy or UNINIT
  timer,      \* vmact->timer: slot -> round before which no retransmission (u8)
  txPc,       \* vmac_tx progress: "idle", "assigned" (seq taken), "reset"
              \* (timer of the slot reset), "stored"
  txS,        \* vmac_tx's ddr.seq
  txTmp2,     \* vmac_tx's tmp2: the copy the slot held, to be freed, or NULL
  dk,         \* the DACK branch in progress, or NULL
  dataOut,    \* frames handed to the driver: [seq, retx]
  stored,     \* history: copies stored by this flow
  freed,      \* history: copies released by kfree_skb
  retxLog,    \* history: <<copy, DACK round>> of every retransmission
  skbErr      \* history: misuses of a socket buffer, [kind, frame]

txVars == <<txExists, seq, buf, timer, txPc, txS, txTmp2, dk, dataOut,
            stored, freed, retxLog, skbErr>>

U8 == 256
U16 == 65536

Slots == 0 .. WINDOW_TX - 1

\* u16 values: sequence numbers, rounds, hole edges.
U16Val(x) == x \in 0 .. U16 - 1

\* State of the DACK branch between steps: the holes left, the current
\* left edge, the round, the seq snapshot, the copy counter, skb2 (a
\* copy already handed to vmac_send_hack once), and the pointer read for
\* skb_copy.
DackStateOK(d) ==
  /\ DOMAIN d = {"holes", "le", "round", "snap", "counter", "skb2", "p"}
  /\ \A i \in DOMAIN d.holes : U16Val(d.holes[i][1]) /\ U16Val(d.holes[i][2])
  /\ U16Val(d.le) /\ U16Val(d.round) /\ U16Val(d.snap)
  /\ d.counter \in 0 .. MaxRetx
  /\ d.skb2 = NULL \/ U16Val(d.skb2)
  /\ d.p \in {NULL, UNINIT} \/ U16Val(d.p)

TypeOK ==
  /\ txExists \in BOOLEAN
  /\ U16Val(seq) /\ U16Val(txS)
  /\ \A k \in Slots : buf[k] = UNINIT \/ U16Val(buf[k])
  /\ timer \in [Slots -> 0 .. U8 - 1]
  /\ txPc \in {"idle", "assigned", "reset", "stored"}
  /\ txTmp2 \in {NULL, UNINIT} \/ U16Val(txTmp2)
  /\ dk = NULL \/ DackStateOK(dk)
  /\ \A e \in retxLog : U16Val(e[1]) /\ U16Val(e[2])
  /\ txPc = "idle" => txTmp2 = NULL

Init ==
  /\ txExists = FALSE
  /\ seq = 0
  /\ buf = [k \in Slots |-> UNINIT]
  /\ timer = [k \in Slots |-> 0]
  /\ txPc = "idle"
  /\ txS = 0
  /\ txTmp2 = NULL
  /\ dk = NULL
  /\ dataOut = <<>>
  /\ stored = {}
  /\ freed = {}
  /\ retxLog = {}
  /\ skbErr = {}

\* kfree_skb of the buffered pointers xs: a second release of a copy, or
\* a release of a slot vmalloc left uninitialised (not zeroed, so not NULL
\* to the `if (buffer[i])` test), is a misuse.
FreeErrs(xs) ==
  { [kind |-> IF x = UNINIT THEN "free_uninit" ELSE "double_free",
     frame |-> IF x = UNINIT THEN 0 ELSE x] : x \in {y \in xs : y = UNINIT \/ y \in freed} }

Copies(xs) == xs \ {UNINIT}

(***************************************************************************)
(* vmac_tx for a Data frame, up to the unlock of seqlock (tx.c:173-205):  *)
(* a missing flow is vmalloc'd with seq 0 (retransmission_buffer and     *)
(* timer left uninitialised), the timeout re-armed, ddr.seq = seq++.     *)
(***************************************************************************)
TxAssign ==
  /\ txPc = "idle"
  /\ LET s == IF txExists THEN seq ELSE 0
     IN /\ txS' = s
        /\ seq' = (s + 1) % U16
  /\ txPc' = "assigned"
  /\ txExists' = TRUE
  /\ IF txExists
       THEN UNCHANGED <<buf, timer, stored, freed, retxLog>>
       ELSE /\ buf' = [k \in Slots |-> UNINIT]
            /\ timer' = [k \in Slots |-> 0]
            /\ stored' = {}
            /\ freed' = {}
            /\ retxLog' = {}
  /\ UNCHANGED <<txTmp2, dk, dataOut, skbErr>>

\* tx.c:206: timer[s % WINDOW_TX] = 0.  The headers are pushed and skb_copy
\* (GFP_KERNEL, may sleep) runs before the slot is touched, so the DACK
\* branch can see the reset timer beside the slot's old copy.
TxReset ==
  /\ txPc = "assigned"
  /\ timer' = [timer EXCEPT ![txS % WINDOW_TX] = 0]
  /\ txPc' = "reset"
  /\ UNCHANGED <<txExists, seq, buf, txS, txTmp2, dk, dataOut, stored, freed,
                 retxLog, skbErr>>

(***************************************************************************)
(* tx.c:209-223: tmp1 = skb_copy (may fail), tmp2 = the slot's old        *)
(* pointer when s >= WINDOW_TX, the slot set to tmp1 only if the copy     *)
(* succeeded.                                                             *)
(***************************************************************************)
\* Faulty variant of TxStore: the slot is indexed with the incremented seq.
TxStoreNext ==
  /\ txPc = "reset"
  /\ LET k == seq % WINDOW_TX
     IN /\ txTmp2' = IF txS >= WINDOW_TX THEN buf[k] ELSE NULL
        /\ buf' = [buf EXCEPT ![k] = txS]
        /\ stored' = stored \cup {txS}
  /\ txPc' = "stored"
  /\ UNCHANGED <<txExists, seq, timer, txS, dk, dataOut, freed, retxLog, skbErr>>

\* Faulty variant of TxStore: the old copy is taken from one slot early.
TxStoreEarly ==
  /\ txPc = "reset"
  /\ LET k == txS % WINDOW_TX
     IN /\ txTmp2' = IF txS >= WINDOW_TX - 1 THEN buf[k] ELSE NULL
        /\ buf' = [buf EXCEPT ![k] = txS]
        /\ stored' = stored \cup {txS}
  /\ txPc' = "stored"
  /\ UNCHANGED <<txExists, seq, timer, txS, dk, dataOut, freed, retxLog, skbErr>>

TxStore ==
  /\ txPc = "reset"
  /\ LET k == txS % WINDOW_TX
     IN /\ txTmp2' = IF txS >= WINDOW_TX THEN buf[k] ELSE NULL
        /\ \/ /\ buf' = [buf EXCEPT ![k] = txS]
              /\ stored' = stored \cup {txS}
           \/ /\ AllocMayFail
              /\ UNCHANGED <<buf, stored>>
  /\ txPc' = "stored"
  /\ UNCHANGED <<txExists, seq, timer, txS, dk, dataOut, freed, retxLog, skbErr>>

\* Faulty variant of TxFinish: tmp2 is not reset for the next call.
TxFinishKeep ==
  /\ txPc = "stored"
  /\ IF txTmp2 # NULL
       THEN /\ skbErr' = skbErr \cup FreeErrs({txTmp2})
            /\ freed' = freed \cup Copies({txTmp2})
       ELSE UNCHANGED <<skbErr, freed>>
  /\ dataOut' = Append(dataOut, [seq |-> txS, retx |-> FALSE])
  /\ txPc' = "idle"
  /\ UNCHANGED <<txExists, seq, buf, timer, txS, txTmp2, dk, stored, retxLog>>

\* tx.c:225-260: kfree_skb(tmp2), then the frame goes to vmac_low_tx.
TxFinish ==
  /\ txPc = "stored"
  /\ IF txTmp2 # NULL
       THEN /\ skbErr' = skbErr \cup FreeErrs({txTmp2})
            /\ freed' = freed \cup Copies({txTmp2})
       ELSE UNCHANGED <<skbErr, freed>>
  /\ dataOut' = Append(dataOut, [seq |-> txS, retx |-> FALSE])
  /\ txPc' = "idle"
  /\ txTmp2' = NULL
  /\ UNCHANGED <<txExists, seq, buf, timer, txS, dk, stored, retxLog>>

(***************************************************************************)
(* vmac_rx, DACK branch (rx.c:319-338): with a TX flow for the encoding,  *)
(* seq is read once under seqlock and the hole loop starts.  A DACK       *)
(* without a TX flow is freed, no state changes.                          *)
(***************************************************************************)
DackBegin(holes, r) ==
  /\ txExists
  /\ dk = NULL
  /\ holes # <<>>
  /\ dk' = [holes |-> holes, le |-> holes[1][1], round |-> r, snap |-> seq,
            counter |-> 0, skb2 |-> NULL, p |-> NULL]
  /\ UNCHANGED <<txExists, seq, buf, timer, txPc, txS, txTmp2, dataOut,
                 stored, freed, retxLog, skbErr>>

\* The loop over holes moves on (rx.c:366-367); after the last, the DACK
\* is freed (rx.c:384).
NextHole(d) ==
  IF Len(d.holes) = 1 THEN NULL
  ELSE [d EXCEPT !.holes = Tail(d.holes), !.le = d.holes[2][1]]

\* The gate of rx.c:347 for left edge le: the slot is not held back by an
\* earlier retransmission, and le is one of the last WINDOW_TX numbers.
Gate(d, le) ==
  /\ d.round >= timer[le % WINDOW_TX]
  /\ le >= (IF d.snap < WINDOW_TX THEN 0 ELSE d.snap - WINDOW_TX)

\* The NULL test of rx.c:351 indexes buffer[le > WINDOW_TX ? le % WINDOW_TX
\* : le]: for le = WINDOW_TX it reads one past the array, the first bytes
\* of timer[], which the test may find zero.
SlotNull(le) == le = WINDOW_TX /\ \E z \in OobNull : z

(***************************************************************************)
(* One pass of the inner loop (rx.c:345-365) up to the copy: the hole is  *)
(* done, or the gate holds back le, or the cap breaks out of the hole, or *)
(* the slot's pointer is taken for skb_copy (DackCopy), or the NULL test  *)
(* fails: timer is still set, and a non-NULL skb2 left by an earlier pass *)
(* is handed to vmac_send_hack once more.                                 *)
(***************************************************************************)
DackStep ==
  /\ dk # NULL
  /\ dk.p = NULL
  /\ LET le == dk.le
         k  == le % WINDOW_TX
     IN CASE ~(le < dk.holes[1][2] /\ le < dk.snap) ->
               /\ dk' = NextHole(dk)
               /\ UNCHANGED <<timer, dataOut, skbErr>>
          [] ~Gate(dk, le) ->
               /\ dk' = [dk EXCEPT !.le = le + 1]
               /\ UNCHANGED <<timer, dataOut, skbErr>>
          [] MaxRetx <= dk.counter ->
               /\ dk' = NextHole(dk)
               /\ UNCHANGED <<timer, dataOut, skbErr>>
          [] ~SlotNull(le) ->
               /\ dk' = [dk EXCEPT !.p = buf[k]]
               /\ UNCHANGED <<timer, dataOut, skbErr>>
          [] OTHER ->
               /\ timer' = [timer EXCEPT ![k] = (dk.round + RetxPace) % U8]
               /\ dk' = [dk EXCEPT !.le = le + 1]
               /\ IF dk.skb2 # NULL
                    THEN /\ dataOut' = Append(dataOut, [seq |-> dk.skb2, retx |-> TRUE])
                         /\ skbErr' = skbErr \cup {[kind |-> "resend", frame |-> dk.skb2]}
                    ELSE UNCHANGED <<dataOut, skbErr>>
  /\ UNCHANGED <<txExists, seq, buf, txPc, txS, txTmp2, stored, freed, retxLog>>

(***************************************************************************)
(* rx.c:353-364: skb2 = skb_copy(p) (a copy of a released or never set   *)
(* pointer is a misuse; the copy may fail and leave skb2 NULL), counter++, *)
(* timer = round + 6 truncated to u8, skb2 sent, le++.                    *)
(***************************************************************************)
DackCopy ==
  /\ dk # NULL
  /\ dk.p # NULL
  /\ LET k == dk.le % WINDOW_TX
     IN /\ timer' = [timer EXCEPT ![k] = (dk.round + RetxPace) % U8]
        /\ skbErr' = CASE dk.p = UNINIT -> skbErr \cup {[kind |-> "copy_uninit", frame |-> 0]}
                       [] dk.p \in freed -> skbErr \cup {[kind |-> "copy_freed", frame |-> dk.p]}
                       [] OTHER          -> skbErr
        /\ \/ /\ dk.p # UNINIT
              /\ dk' = [dk EXCEPT !.le = dk.le + 1, !.counter = dk.counter + 1,
                                  !.skb2 = dk.p, !.p = NULL]
              /\ dataOut' = Append(dataOut, [seq |-> dk.p, retx |-> TRUE])
              /\ retxLog' = retxLog \cup {<<dk.p, dk.round>>}
           \/ /\ AllocMayFail \/ dk.p = UNINIT
              /\ dk' = [dk EXCEPT !.le = dk.le + 1, !.counter = dk.counter + 1,
                                  !.skb2 = NULL, !.p = NULL]
              /\ UNCHANGED <<dataOut, retxLog>>
  /\ UNCHANGED <<txExists, seq, buf, txPc, txS, txTmp2, stored, freed>>

(***************************************************************************)
(* Encoding timeout on the TX flow (clean.c:73-90): every slot below      *)
(* min(seq, WINDOW_TX) that is not NULL is freed, the entry unhashed and *)
(* vfree'd.  The timeout fires 30 s after the last vmac_tx, and a DACK is *)
(* only sent in answer to recent Data, so neither is in progress.         *)
(***************************************************************************)
\* Faulty variant of CleanupTx: the loop stops one slot short.
CleanupTxShort ==
  /\ txExists
  /\ txPc = "idle"
  /\ dk = NULL
  /\ LET xs == { buf[i] : i \in 0 .. ((IF seq < WINDOW_TX THEN seq ELSE WINDOW_TX) - 2) }
     IN /\ skbErr' = skbErr \cup FreeErrs(xs)
        /\ freed' = freed \cup Copies(xs)
  /\ txExists' = FALSE
  /\ UNCHANGED <<seq, buf, timer, txPc, txS, txTmp2, dk, dataOut, stored, retxLog>>

CleanupTx ==
  /\ txExists
  /\ txPc = "idle"
  /\ dk = NULL
  /\ LET xs == { buf[i] : i \in 0 .. ((IF seq < WINDOW_TX THEN seq ELSE WINDOW_TX) - 1) }
     IN /\ skbErr' = skbErr \cup FreeErrs(xs)
        /\ freed' = freed \cup Copies(xs)
  /\ txExists' = FALSE
  /\ UNCHANGED <<seq, buf, timer, txPc, txS, txTmp2, dk, dataOut, stored, retxLog>>

-----------------------------------------------------------------------------
(* Properties of the transmit side.                                       *)

\* The numbers whose copies the buffer must hold: the last WINDOW_TX sent.
Retained == (IF seq >= WINDOW_TX THEN seq - WINDOW_TX ELSE 0) .. (seq - 1)

(* spec.md section 8: the WINDOW_TX most recent frames are recoverable    *)
(* from retransmission_buffer.  Every retained number's slot holds its   *)
(* own, unreleased copy, except the number vmac_tx has taken (tx.c:204)  *)
(* and not yet stored (tx.c:222).                                         *)
RetainedFramesRecoverable ==
  txExists =>
    \A s \in Retained :
      \/ txPc \in {"assigned", "reset"} /\ s = txS
      \/ buf[s % WINDOW_TX] = s /\ s \notin freed

(* Retransmissions of one frame are paced: the gate of rx.c:347 against  *)
(* the timer set at rx.c:356 lets a copy go out again only for a DACK    *)
(* whose round is at least RetxPace past every earlier one that resent   *)
(* it, whatever the interleaving with vmac_tx resetting the slot.        *)
RetxSpacing ==
  [][ dk # NULL /\ dk.p \notin {NULL, UNINIT} /\ dk' # NULL /\ dk'.skb2 = dk.p /\ dk'.p = NULL
        => \A e \in retxLog : e[1] = dk.p => dk.round >= e[2] + RetxPace ]_txVars

(* spec.md section 8: eviction releases all resources, and no copy is    *)
(* lost before it.  Every copy vmac_tx stored is, at every moment, held  *)
(* by a slot, held in tmp2 on its way to kfree_skb (tx.c:210-228), or    *)
(* released; once process() has removed the flow (clean.c:84-90), every  *)
(* one has been released.  Slot reuse and eviction leak nothing, however *)
(* far seq has counted.                                                  *)
Referenced == IF txExists THEN {buf[k] : k \in Slots} \cup {txTmp2} ELSE {}

NoCopyLeaked == stored \subseteq freed \cup Referenced

(* No buffered copy is released twice, and no slot vmalloc left unset is *)
(* released: slot reuse (tx.c:210-228) and eviction (clean.c:84-88) free *)
(* only live copies.                                                     *)
NoDoubleRelease == \A e \in skbErr : e.kind \notin {"double_free", "free_uninit"}

(* The DACK branch resends frame le from a live copy: skb_copy never     *)
(* reads a released copy or an unset slot, and the copy it takes for     *)
(* left edge le is frame le itself, not a later frame that reused the    *)
(* slot since seq was read (rx.c:331-353), whatever vmac_tx does to the  *)
(* slot meanwhile (tx.c:204-228).                                        *)
RetxCopiesHoleFrame ==
  /\ \A e \in skbErr : e.kind \notin {"copy_freed", "copy_uninit"}
  /\ dk # NULL /\ dk.p # NULL => dk.p = dk.le

(* The DACK branch hands each copy to vmac_send_hack once: a skb2 left   *)
(* from an earlier pass is not sent again (rx.c:357-361).                *)
NoResend == \A e \in skbErr : e.kind # "resend"

=============================================================================
