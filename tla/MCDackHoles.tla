----------------------------- MODULE MCDackHoles -----------------------------
(***************************************************************************)
(* Checks the hole scan of prepDACK against a reference definition over   *)
(* every window content, every scanned round and the values window[-1]    *)
(* may read.  The state is the scan's input; no step changes it.          *)
(***************************************************************************)
EXTENDS DackHoles, FiniteSets

CONSTANTS
  Lattmps,       \* values of round * 5 to scan up to
  WindowMinus1   \* values the out-of-bounds read window[-1] may return

VARIABLES win, lattmp, g

vars == <<win, lattmp, g>>

Init ==
  /\ win \in [0 .. WINDOW - 1 -> {0, 1}]
  /\ lattmp \in Lattmps
  /\ g \in WindowMinus1

Next == UNCHANGED vars

Spec == Init /\ [][Next]_vars

Report == PrepHoles(win, lattmp, g)

\* The unreceived sequence numbers the scan is meant to report: the
\* positions of [ScanLow, lattmp - 1) whose slot is 0.  Position lattmp - 1
\* is left to the next round's report by the forward walk's bound.
Lost == { s \in ScanLow(lattmp) .. (lattmp - 2) : win[s % WINDOW] = 0 }

\* Maximal runs of unreceived positions in [ScanLow, lattmp - 1]; the scan
\* records one hole per run until HOLES_MAX.
RunStarts == { s \in ScanLow(lattmp) .. (lattmp - 1) :
                 /\ win[s % WINDOW] = 0
                 /\ (s = ScanLow(lattmp) \/ win[(s - 1) % WINDOW] = 1) }

(* A DACK never asks the publisher to resend a sequence number the       *)
(* subscriber received: every position of every hole of prepDACK's scan  *)
(* (dack.c:163-185) lies in the scanned range and its slot is 0.         *)
HolesAreLosses == HoleSeqs(Report.holes) \subseteq Lost

(* When there are no more runs of losses than HOLES_MAX, prepDACK reports *)
(* every loss of [ScanLow, lattmp - 1), one hole per run, in increasing  *)
(* order, and its loss counter equals the number of positions reported.  *)
HolesMatchLosses ==
  Cardinality(RunStarts) <= HOLES_MAX =>
    /\ HoleSeqs(Report.holes) = Lost
    /\ Len(Report.holes) = Cardinality(RunStarts)
    /\ \A k \in 1 .. Len(Report.holes) - 1 :
         Report.holes[k][2] < Report.holes[k + 1][1]
    /\ Report.loss = Cardinality(Lost) % 256

=============================================================================
