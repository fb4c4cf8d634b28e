------------------------------ MODULE DackHoles ------------------------------
(***************************************************************************)
(* The hole scan of prepDACK (dack.c): given the receive window of an     *)
(* encoding and lattmp = round * 5, the list of holes <<le, re>> the DACK *)
(* reports and the loss count it derives.  Pure operators, no state.      *)
(*                                                                         *)
(* window[k] is 1 when the sequence number occupying slot k was received  *)
(* and 0 when it was skipped; slot k holds every sequence s with          *)
(* s % WINDOW = k.                                                         *)
(***************************************************************************)
EXTENDS Integers, Sequences

CONSTANTS
  WINDOW,     \* slots of the receive window (vmac.h: 700)
  HOLES_MAX   \* most holes one DACK carries (dack.h: 40)

ASSUME WINDOW \in Nat \ {0} /\ HOLES_MAX \in Nat \ {0}

\* The lowest sequence number the scan of one DACK looks at.
ScanLow(lattmp) == IF lattmp < WINDOW THEN 0 ELSE lattmp - WINDOW

\* window[tmp % WINDOW - 1] as the backward walk reads it: for tmp a
\* multiple of WINDOW the index is -1, a read just before the array whose
\* value is g (the padding bytes of the preceding field).
\* Faulty variant of SlotBefore: the slot of tmp itself (the - 1 dropped).
SlotBeforeSame(win, tmp, g) == win[tmp % WINDOW]

SlotBefore(win, tmp, g) ==
  IF tmp % WINDOW = 0 THEN g ELSE win[(tmp % WINDOW) - 1]

(***************************************************************************)
(* dack.c:167-172: from a lost i, walk tmp down while the slot before tmp *)
(* is lost, tmp > 0 and tmp - 1 stays above the scan's low end.           *)
(***************************************************************************)
RECURSIVE BackWalk(_, _, _, _, _)
BackWalk(win, lo, tmp, loss, g) ==
  IF SlotBefore(win, tmp, g) = 0 /\ tmp > 0 /\ lo < tmp - 1
    THEN BackWalk(win, lo, tmp - 1, (loss + 1) % 256, g)
    ELSE <<tmp, loss>>

(***************************************************************************)
(* dack.c:175-179: walk i up while it is lost and below lattmp - 1.       *)
(***************************************************************************)
\* Faulty variant of ForwardWalk: the walk may reach lattmp itself.
RECURSIVE ForwardWalkToEnd(_, _, _, _)
ForwardWalkToEnd(win, lattmp, i, loss) ==
  IF win[i % WINDOW] = 0 /\ i < lattmp
    THEN ForwardWalkToEnd(win, lattmp, i + 1, (loss + 1) % 256)
    ELSE <<i, loss>>

RECURSIVE ForwardWalk(_, _, _, _)
ForwardWalk(win, lattmp, i, loss) ==
  IF win[i % WINDOW] = 0 /\ i < lattmp - 1
    THEN ForwardWalk(win, lattmp, i + 1, (loss + 1) % 256)
    ELSE <<i, loss>>

(***************************************************************************)
(* dack.c:163-185, the for loop over i from ScanLow to lattmp, stopping   *)
(* at HOLES_MAX holes.  loss is the u8 counter of the code.               *)
(***************************************************************************)
RECURSIVE Scan(_, _, _, _, _, _)
Scan(win, lattmp, g, i, holes, loss) ==
  IF ~(i < lattmp /\ Len(holes) < HOLES_MAX)
    THEN [holes |-> holes, loss |-> loss]
  ELSE IF win[i % WINDOW] # 0
    THEN Scan(win, lattmp, g, i + 1, holes, loss)
  ELSE LET back == BackWalk(win, ScanLow(lattmp), i, loss, g)
           fwd  == ForwardWalk(win, lattmp, i, back[2])
       IN  Scan(win, lattmp, g, fwd[1] + 1,
                Append(holes, <<back[1], fwd[1]>>), fwd[2])

\* The report prepDACK builds for lattmp when window[-1] reads g.
PrepHoles(win, lattmp, g) == Scan(win, lattmp, g, ScanLow(lattmp), <<>>, 0)

\* The sequence numbers a hole list asks the publisher to resend: each hole
\* <<le, re>> stands for le .. re - 1 (the retransmission loop of rx.c).
HoleSeqs(holes) == UNION { holes[k][1] .. (holes[k][2] - 1) : k \in 1 .. Len(holes) }

=============================================================================
