------------------------------ MODULE MCVmacRx ------------------------------
(***************************************************************************)
(* The receive side of one encoding against an environment that delivers *)
(* Data frames the publisher can send and takes DACKs off the air.       *)
(***************************************************************************)
EXTENDS VmacRx

CONSTANTS
  MaxSeq,       \* highest sequence number the publisher sends
  RetxSpan,     \* WINDOW_TX: a retransmission is at most this far back
  DackChanMax,  \* DACK frames waiting on the air at once
  RxSeqStart    \* numbers the flow had delivered when the run starts

ASSUME RxSeqStart = 0 \/ RxSeqStart \in WINDOW .. U16 - 1

\* The frame's position in the run: how far its u16 number is past RxSeqStart.
Pos(s) == (s - RxSeqStart) % U16

\* What the publisher can put on the air: a new number, or a
\* retransmission of one of the last WINDOW_TX numbers (rx.c:347 gate),
\* numbered modulo 2^16 as vmac_tx's seq++ does (tx.c:204).
Arrivals ==
  LET n == Pos((latest + 1) % U16)
  IN { (RxSeqStart + k) % U16 : k \in (IF n > RetxSpan THEN n - RetxSpan ELSE 0) .. MaxSeq }

RxArrive == \E s \in Arrivals : RxData(s)

\* The air takes the oldest DACK.
DackDrain ==
  /\ dackOut # <<>>
  /\ dackOut' = Tail(dackOut)
  /\ UNCHANGED <<rxExists, latest, window, round, dac, dackTimer, dacklok,
                 got, misfiled>>

\* With RxSeqStart = 0, Init of VmacRx.  Otherwise the entry after
\* RxSeqStart frames, all received, the last one having requested a DACK
\* that has been sent.
MCInit ==
  IF RxSeqStart = 0 THEN Init
  ELSE /\ rxExists = TRUE
       /\ latest = RxSeqStart - 1
       /\ window = [k \in 0 .. WINDOW - 1 |-> 1]
       /\ round = RxSeqStart - 1
       /\ dac = NoEntry /\ dackTimer = "idle" /\ dacklok = "free"
       /\ dackOut = <<>> /\ misfiled = {}
       /\ got = (RxSeqStart - WINDOW) .. (RxSeqStart - 1)

Next ==
  /\ \/ RxCreate
     \/ RxArrive
     \/ RxUnlock
     \/ DackTimerBusy
     \/ DackTimerFire
     \/ DackTimerRelease
     \/ RxCleanup
     \/ DackDrain
  /\ Len(dackOut') <= DackChanMax

(* Kernel timers fire, a lock holder releases, the air drains. *)
Spec ==
  /\ MCInit /\ [][Next]_rxVars
  /\ WF_rxVars(DackTimerBusy) /\ WF_rxVars(DackTimerFire)
  /\ WF_rxVars(DackTimerRelease)
  /\ WF_rxVars(RxUnlock) /\ WF_rxVars(DackDrain)

=============================================================================
