------------------------------- MODULE VmacRx -------------------------------
(***************************************************************************)
(* Receive side of one encoding at a subscriber (struct encoding_rx):     *)
(*   - RX entry creation in vmac_tx's Interest branch (tx.c:107-166),     *)
(*   - vmac_rx's Data branch (rx.c:253-311) with the DACK request it      *)
(*     makes, request_DACK/prepDACK (dack.c:28-267), run in the same      *)
(*     receive context,                                                   *)
(*   - the DACK timer callback __sendDACK (dack.c:76-106),                *)
(*   - eviction by the encoding timeout, process() (clean.c:54-70).       *)
(* The receive context and the DACK timer run concurrently on different  *)
(* CPUs and meet only at dacklok, taken with spin_trylock by both.  Each *)
(* holds the lock over one step and releases it in the next, so the     *)
(* other side's trylock can fail in between.                            *)
(*                                                                         *)
(* Left out: the alpha estimate (firstFrame, SecondFrame, lastin) and the *)
(* jittered delay it feeds, which only set when the timer fires; the     *)
(* untimed model lets the timer fire at any point.  dacksheard is only   *)
(* read by the suppression branch of rx.c:369-383, unreachable because   *)
(* rx.c:321 sets vmacr to NULL.                                          *)
(***************************************************************************)
EXTENDS Integers, Sequences, FiniteSets

CONSTANTS
  WINDOW,        \* slots of the receive window (vmac.h: 700)
  HOLES_MAX,     \* holes per DACK (dack.h: 40)
  Slot0Init,     \* values vmalloc'd, never written window[0] may hold
  WindowMinus1,  \* values the out-of-bounds read window[-1] may return
  AllocMayFail,  \* whether dev_alloc_skb in prepDACK may fail
  NULL

VARIABLES
  rxExists,   \* find_rx(RX_TABLE, enc) # NULL
  latest,     \* vmacr->latest, highest sequence number seen (u16)
  window,     \* vmacr->window, 1 = received
  round,      \* vmacr->round, sequence number of the last DACK request
  dac,        \* vmacr->dac_info: [send, dack (report or NULL), round (u8)]
  dackTimer,  \* vmacr->dack_timer: "idle", "armed", or "retry" (re-armed
              \* 100 ms later after a failed trylock)
  dacklok,    \* holder of vmacr->dacklok: "free", "rx" or "timer"
  dackOut,    \* DACK frames handed to vmac_send_hack, oldest first
  got,        \* history: numbers of the last WINDOW up to latest that this
              \* RX entry delivered (older ones can no longer arrive: a
              \* retransmission is at most WINDOW_TX < WINDOW back)
  misfiled    \* history: numbers vmac_rx dropped as duplicates without
              \* having delivered them, or delivered a second time

rxVars == <<rxExists, latest, window, round, dac, dackTimer, dacklok,
            dackOut, got, misfiled>>

H == INSTANCE DackHoles

U8 == 256
U16 == 65536

\* Slot of a sequence number: (s >= WINDOW ? s % WINDOW : s).
Slot(s) == s % WINDOW

\* A DACK report: the round it answers and its hole list.
Report == [round : 0 .. U16 - 1, holes : Seq(Int \X Int)]

NoEntry == [send |-> FALSE, dack |-> NULL, round |-> 0]

TypeOK ==
  /\ rxExists \in BOOLEAN
  /\ latest \in 0 .. U16 - 1
  /\ window \in [0 .. WINDOW - 1 -> {0, 1}]
  /\ round \in 0 .. U16 - 1
  /\ dac \in [send : BOOLEAN, dack : Report \cup {NULL}, round : 0 .. U8 - 1]
  /\ dac.send <=> dac.dack # NULL
  /\ dackTimer \in {"idle", "armed", "retry"}
  /\ dacklok \in {"free", "rx", "timer"}
  /\ dackOut \in Seq(Report)
  /\ got \subseteq 0 .. U16 - 1
  /\ misfiled \subseteq 0 .. U16 - 1

\* No RX entry exists until the subscriber sends an Interest.
Init ==
  /\ rxExists = FALSE
  /\ latest = 0
  /\ window = [k \in 0 .. WINDOW - 1 |-> 0]
  /\ round = 0
  /\ dac = NoEntry
  /\ dackTimer = "idle"
  /\ dacklok = "free"
  /\ dackOut = <<>>
  /\ got = {}
  /\ misfiled = {}

(***************************************************************************)
(* vmac_tx, Interest for an encoding without RX entry (tx.c:109-156): a  *)
(* vmalloc'd entry (window not initialised), all counters 0, send = 0,   *)
(* the DACK timer armed to fire at once (tx.c:155).  Only window[0] is   *)
(* ever read before it is written, hence Slot0Init; the other slots are  *)
(* cleared by latest's advance before any read.                          *)
(***************************************************************************)
RxCreate ==
  /\ ~rxExists
  /\ rxExists' = TRUE
  /\ latest' = 0
  /\ round' = 0
  /\ \E v \in Slot0Init : window' = [k \in 0 .. WINDOW - 1 |-> IF k = 0 THEN v ELSE 0]
  /\ dac' = NoEntry
  /\ dackTimer' = "armed"
  /\ got' = {}
  /\ UNCHANGED <<dacklok, dackOut, misfiled>>

\* Faulty variant of Advance: clears from the old latest instead of the
\* first number past it (latest++ placed after the store).
AdvanceLate(win, from, to) ==
  [j \in DOMAIN win |-> IF \E k \in from .. (to - 1) : Slot(k) = j THEN 0 ELSE win[j]]

\* Advance latest from `from` to `to`, clearing the slot of every number
\* passed (rx.c:274-278).
Advance(win, from, to) ==
  [j \in DOMAIN win |-> IF \E k \in (from + 1) .. to : Slot(k) = j THEN 0 ELSE win[j]]

(***************************************************************************)
(* prepDACK(enc, r) over the window w (dack.c:140-267).  The skb may not *)
(* be allocated (return), the trylock may fail (skb freed, return), or    *)
(* the critical section runs: an armed report is replaced without        *)
(* re-arming the timer, otherwise the report is stored and the timer      *)
(* armed.  The lock stays held until RxUnlock.                           *)
(***************************************************************************)
PrepDACK(r, w) ==
  \/ /\ AllocMayFail
     /\ UNCHANGED <<dac, dackTimer, dacklok>>
  \/ /\ dacklok = "timer"
     /\ UNCHANGED <<dac, dackTimer, dacklok>>
  \/ /\ dacklok = "free"
     /\ \E g \in WindowMinus1 :
          dac' = [send  |-> TRUE,
                  dack  |-> [round |-> r, holes |-> H!PrepHoles(w, (r * 5) % U16, g).holes],
                  round |-> r % U8]
     /\ dackTimer' = IF dac.send THEN dackTimer ELSE "armed"
     /\ dacklok' = "rx"

(***************************************************************************)
(* vmac_rx for a Data frame with sequence number s (rx.c:253-311), the   *)
(* whole branch: unknown encoding, duplicate, or accepted; an accepted   *)
(* frame that moves 5 past the last request calls request_DACK, and is   *)
(* handed to nl_send.  The receive context is not inside prepDACK.  A    *)
(* frame of an unknown encoding (rx.c:257-266) changes no state here.    *)
(***************************************************************************)
\* Faulty variant of IsDup: the window is tested before latest is moved.
IsDupFirst(s) == window[Slot(s)] = 1

\* The duplicate test of rx.c:272-284: only a number not past latest is
\* looked up, in the window as it stands.
IsDup(s) == ~(latest < s) /\ window[Slot(s)] = 1

RxData(s) ==
  /\ rxExists
  /\ dacklok # "rx"
  /\ LET newer == latest < s
         L1    == IF newer THEN s ELSE latest
         w1    == IF newer THEN Advance(window, latest, s) ELSE window
         w2    == IF s >= (IF L1 >= WINDOW THEN L1 % WINDOW ELSE 0)
                    THEN [w1 EXCEPT ![Slot(s)] = 1] ELSE w1
         trig  == round <= s - 5
     IN IF IsDup(s)
          THEN /\ misfiled' = IF s \in got THEN misfiled ELSE misfiled \cup {s}
               /\ UNCHANGED <<rxExists, latest, window, round, dac, dackTimer,
                              dacklok, dackOut, got>>
          ELSE /\ latest' = L1
               /\ window' = w2
               /\ IF trig
                    THEN /\ PrepDACK(s \div 5, w2)
                         /\ round' = s
                    ELSE UNCHANGED <<dac, dackTimer, dacklok, round>>
               /\ got' = {k \in got \cup {s} : k > L1 - WINDOW}
               /\ misfiled' = IF s \in got THEN misfiled \cup {s} ELSE misfiled
               /\ UNCHANGED <<rxExists, dackOut>>

\* Faulty variant of RxUnlock: prepDACK returns without spin_unlock.
RxUnlockLeak ==
  /\ dacklok = "rx"
  /\ UNCHANGED rxVars

\* spin_unlock(&vmac->dacklok) at the end of prepDACK (dack.c:262-266);
\* the replaced report is freed.
RxUnlock ==
  /\ dacklok = "rx"
  /\ dacklok' = "free"
  /\ UNCHANGED <<rxExists, latest, window, round, dac, dackTimer, dackOut,
                 got, misfiled>>

(***************************************************************************)
(* __sendDACK (dack.c:76-106).  DackTimerBusy: the trylock fails and the  *)
(* timer is re-armed 100 ms later.  DackTimerFire: under the lock an      *)
(* armed report is taken and send cleared; DackTimerRelease unlocks.  The *)
(* report goes to vmac_send_hack just after the unlock; as only this      *)
(* timer sends DACKs of the entry, it is put on dackOut at the take.      *)
(***************************************************************************)
\* Faulty variant of DackTimerBusy: returns without mod_timer.
DackTimerBusyDrop ==
  /\ rxExists
  /\ dackTimer # "idle"
  /\ dacklok = "rx"
  /\ dackTimer' = "idle"
  /\ UNCHANGED <<rxExists, latest, window, round, dac, dacklok, dackOut, got, misfiled>>

DackTimerBusy ==
  /\ rxExists
  /\ dackTimer # "idle"
  /\ dacklok = "rx"
  /\ dackTimer' = "retry"
  /\ UNCHANGED <<rxExists, latest, window, round, dac, dacklok, dackOut, got, misfiled>>

\* Faulty variant of DackTimerFire: send is cleared but dac_info.dack kept.
DackTimerFireKeep ==
  /\ rxExists
  /\ dackTimer # "idle"
  /\ dacklok = "free"
  /\ dacklok' = "timer"
  /\ dackTimer' = "idle"
  /\ IF dac.send
       THEN /\ dackOut' = Append(dackOut, dac.dack)
            /\ dac' = [dac EXCEPT !.send = FALSE]
       ELSE UNCHANGED <<dackOut, dac>>
  /\ UNCHANGED <<rxExists, latest, window, round, got, misfiled>>

DackTimerFire ==
  /\ rxExists
  /\ dackTimer # "idle"
  /\ dacklok = "free"
  /\ dacklok' = "timer"
  /\ dackTimer' = "idle"
  /\ IF dac.send
       THEN /\ dackOut' = Append(dackOut, dac.dack)
            /\ dac' = [dac EXCEPT !.send = FALSE, !.dack = NULL]
       ELSE UNCHANGED <<dackOut, dac>>
  /\ UNCHANGED <<rxExists, latest, window, round, got, misfiled>>

DackTimerRelease ==
  /\ dacklok = "timer"
  /\ dacklok' = "free"
  /\ UNCHANGED <<rxExists, latest, window, round, dac, dackTimer, dackOut, got, misfiled>>

(***************************************************************************)
(* Encoding timeout (clean.c:54-70): the entry is unhashed and vfree'd;   *)
(* the pending DACK is not freed (the kfree_skb is commented out) and    *)
(* the DACK timer is not deleted.  The timeout fires 30 s after the last *)
(* frame while a DACK timer runs for at most 100 jiffies plus 100 ms per *)
(* failed trylock, so the eviction only happens once the receive context *)
(* and the DACK timer are done.                                          *)
(***************************************************************************)
RxCleanup ==
  /\ rxExists
  /\ dacklok = "free"
  /\ dackTimer = "idle"
  /\ rxExists' = FALSE
  /\ UNCHANGED <<latest, window, round, dac, dackTimer, dacklok, dackOut,
                 got, misfiled>>

-----------------------------------------------------------------------------
(* Properties of the receive side, used by the runs that compose it.      *)

\* Sequence numbers whose slot window currently stands for.
LiveSeqs == (IF latest >= WINDOW THEN latest - WINDOW + 1 ELSE 0) .. latest

(* The receive window records exactly what was delivered (spec.md section *)
(* 8): for every sequence number of the live window, its slot is 1 iff   *)
(* vmac_rx accepted that number since the entry was created.             *)
WindowTracksReceipts ==
  rxExists => \A s \in LiveSeqs : (window[Slot(s)] = 1) <=> (s \in got)

(* vmac_rx's duplicate filter is exact: a Data frame is dropped as a      *)
(* duplicate (rx.c:280-284) iff its number was already delivered to the   *)
(* application by this entry, so the application gets every number once. *)
DupFilterExact == misfiled = {}

(* An armed report is never stranded: while dac_info.send is 1 the DACK   *)
(* timer is pending, so __sendDACK will run (prepDACK re-arms only when   *)
(* send was 0, and a failed trylock in __sendDACK re-arms).              *)
DackArmedHasTimer == dac.send => dackTimer # "idle"

(* A report only asks for numbers this entry has not delivered: when     *)
(* prepDACK stores a report, no hole position inside the live window was *)
(* accepted by vmac_rx.                                                  *)
ReportHolesUndelivered ==
  [][ dac'.dack # NULL /\ dac'.dack # dac.dack =>
        \A s \in H!HoleSeqs(dac'.dack.holes) : s \in LiveSeqs' => s \notin got' ]_rxVars

(* Every armed report is eventually taken by __sendDACK and transmitted. *)
DackEventuallySent == dac.send ~> ~dac.send

=============================================================================
