------------------------------ MODULE MCVmacTx ------------------------------
(***************************************************************************)
(* The transmit side of one encoding against subscribers whose DACKs name *)
(* holes among the frames already sent, with the rounds in DackRounds.    *)
(***************************************************************************)
EXTENDS VmacTx

CONSTANTS
  MaxSends,     \* frames vmac_tx sends per flow
  DackRounds,   \* rounds the DACKs carry
  MaxHoles,     \* holes per DACK
  MaxDacks,     \* DACKs per run
  SeqStart      \* frames the flow had sent when the run starts

ASSUME SeqStart = 0 \/ SeqStart \in WINDOW_TX .. U16 - 1

VARIABLE dacks  \* DACKs received so far

vars == <<txVars, dacks>>

\* Frames on the air so far: all numbers assigned, but the one in vmac_tx.
Sent == IF txPc = "idle" THEN seq ELSE seq - 1

\* A hole a subscriber can report: numbers it has not received below what
\* was sent, reaching one past the retained window.
HoleRange == (IF Sent > WINDOW_TX THEN Sent - WINDOW_TX - 1 ELSE 0) .. Sent
Holes == { h \in HoleRange \X HoleRange : h[1] < h[2] /\ h[2] - h[1] <= 2 }
HoleLists == { <<h>> : h \in Holes } \cup
             IF MaxHoles < 2 THEN {} ELSE
               { <<h1, h2>> : h1, h2 \in { h \in Holes : h[2] - h[1] = 1 } }

TxSend ==
  /\ ~(txExists /\ (seq - SeqStart) % U16 >= MaxSends)
  /\ TxAssign
  /\ UNCHANGED dacks

DackArrive ==
  /\ dacks < MaxDacks
  /\ \E hl \in HoleLists, r \in DackRounds : DackBegin(hl, r)
  /\ dacks' = dacks + 1

\* The number of the last frame before SeqStart that used slot k.
LastIn(k) == SeqStart - 1 - ((SeqStart - 1 - k) % WINDOW_TX)

\* With SeqStart = 0, Init of VmacTx.  Otherwise the flow after SeqStart
\* frames and no DACK: each slot holds the last frame that used it, with
\* its timer reset by vmac_tx (tx.c:206); only those copies are tracked.
MCInit ==
  /\ dacks = 0
  /\ txExists = (SeqStart > 0)
  /\ seq = SeqStart
  /\ buf = [k \in Slots |-> IF SeqStart > 0 THEN LastIn(k) ELSE UNINIT]
  /\ timer = [k \in Slots |-> 0]
  /\ stored = {buf[k] : k \in Slots} \ {UNINIT}
  /\ txPc = "idle" /\ txS = 0 /\ txTmp2 = NULL /\ dk = NULL
  /\ dataOut = <<>> /\ freed = {} /\ retxLog = {} /\ skbErr = {}

Next ==
  \/ TxSend \/ DackArrive
  \/ (TxReset \/ TxStore \/ TxFinish \/ DackStep \/ DackCopy \/ CleanupTx) /\ UNCHANGED dacks

Spec == MCInit /\ [][Next]_vars

\* No action reads dataOut: states that differ only in what went on the
\* air behave alike.
TxView == <<txExists, seq, buf, timer, txPc, txS, txTmp2, dk, stored, freed,
            retxLog, skbErr, dacks>>

=============================================================================
