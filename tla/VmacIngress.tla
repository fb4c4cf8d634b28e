----------------------------- MODULE VmacIngress -----------------------------
(***************************************************************************)
(* The path of a received frame from the driver hook to the application  *)
(* (rx.c): ieee80211_rx_vmac classifies it, vmac_rx handles it per type, *)
(* nl_send hands it to the registered process over netlink.  The         *)
(* receive hook runs once per frame to completion, so each frame is one  *)
(* step here, and what the step did to the frame's buffers is recorded.  *)
(*                                                                         *)
(* Data is abstracted to what decides the path: the header type, whether *)
(* addr2 starts fe:fe (a V-MAC frame), and for a Data frame the verdict   *)
(* of the receive flow engine (no entry, duplicate, accepted), which     *)
(* VmacRx models.  The buffers are counted, not named: for each frame,   *)
(* how often its skb and the netlink skb_out were freed.                 *)
(***************************************************************************)
EXTENDS Naturals, Sequences

CONSTANTS
  Types,          \* header types that arrive, a subset of AllTypes
  Overhearing,    \* whether the build defines ENABLE_OVERHEARING
  PidRegistered,  \* values getpidt() # -1 may take (a process registered)
  AllocMayFail,   \* whether nlmsg_new may fail
  MaxFrames       \* frames received in one behaviour

\* vmac.h:59-65: the header types, and a value of no known type.
AllTypes == {"Interest", "Data", "Dack", "Announcement", "Injected", "Other"}

\* The Data-branch verdicts of the receive flow engine (rx.c:257-284).
DataVerdicts == {"noentry", "dup", "accept"}

ASSUME Types \subseteq AllTypes /\ Overhearing \in BOOLEAN
ASSUME PidRegistered \subseteq BOOLEAN /\ AllocMayFail \in BOOLEAN

VARIABLES
  frames    \* one record per received frame, in arrival order

\* What handling a frame did: frees of the received skb, frees of an
\* allocated skb_out and of an skb_out never assigned, delivery to the
\* process, hand-over to the DACK consumption path.
Fate == [skbFrees : Nat, outFrees : Nat, uninitFrees : Nat,
         delivered : BOOLEAN, dackHandled : BOOLEAN]

Frame == [type : AllTypes, vmac : BOOLEAN, verdict : DataVerdicts] \X Fate

TypeOK == frames \in Seq(Frame) /\ Len(frames) <= MaxFrames

Init == frames = <<>>

Untouched == [skbFrees |-> 0, outFrees |-> 0, uninitFrees |-> 0,
              delivered |-> FALSE, dackHandled |-> FALSE]

Freed == [Untouched EXCEPT !.skbFrees = 1]

(***************************************************************************)
(* nl_send (rx.c:41-104) for a registered process or not (pid), an       *)
(* allocation of skb_out that succeeds or not (alloc) and an             *)
(* nlmsg_unicast that succeeds or not (sent).  nlmsg_unicast consumes    *)
(* skb_out whether it succeeds or fails; the function then frees skb and *)
(* calls nlmsg_free(skb_out) again.  With no process registered skb_out  *)
(* is never assigned and that uninitialised pointer is freed; a failed   *)
(* allocation returns before skb is freed.                               *)
(***************************************************************************)
NlSend(pid, alloc, sent) ==
  CASE ~pid          -> [Freed EXCEPT !.uninitFrees = 1]
    [] pid /\ ~alloc -> Untouched
    [] OTHER         -> [Freed EXCEPT !.outFrees = 2, !.delivered = sent]

\* Faulty variant of VmacRxFate: the duplicate branch frees the frame but
\* falls through to nl_send (the return after kfree_skb dropped).
VmacRxFateNoReturn(t, verdict, nl) ==
  CASE t \in {"Interest", "Announcement", "Injected"} -> nl
    [] t = "Data" /\ verdict \in {"accept", "dup"}     ->
         [nl EXCEPT !.skbFrees = nl.skbFrees + (IF verdict = "dup" THEN 1 ELSE 0)]
    [] t = "Data"                                       -> Freed
    [] t = "Dack" -> [Freed EXCEPT !.dackHandled = TRUE]
    [] OTHER      -> Freed

(***************************************************************************)
(* vmac_rx (rx.c:219-403) by header type.  Interest, Announcement and    *)
(* Injected frames go to nl_send; a Data frame of an unknown encoding or *)
(* a duplicate is freed, an accepted one goes to nl_send; the DACK       *)
(* branch frees the frame after the retransmissions (rx.c:384); any      *)
(* other type is freed.                                                  *)
(***************************************************************************)
VmacRxFate(t, verdict, nl) ==
  CASE t \in {"Interest", "Announcement", "Injected"} -> nl
    [] t = "Data" /\ verdict = "accept"                 -> nl
    [] t = "Data"                                       -> Freed
    [] t = "Dack" -> [Freed EXCEPT !.dackHandled = TRUE]
    [] OTHER      -> Freed

(***************************************************************************)
(* ieee80211_rx_vmac (rx.c:428-493).  A frame whose addr2 is not fe:fe   *)
(* goes to nl_send as an overheard frame if ENABLE_OVERHEARING is        *)
(* defined and is freed otherwise.  A V-MAC frame of a data type goes to *)
(* vmac_rx; a DACK is matched by its own branch, whose only statement,   *)
(* add_mgmt(skb), is commented out; an unknown type is freed.            *)
(***************************************************************************)
Classify(t, vmac, verdict, nl) ==
  CASE ~vmac /\ Overhearing  -> nl
    [] ~vmac                 -> Freed
    [] t \in {"Interest", "Data", "Announcement", "Injected"}
                             -> VmacRxFate(t, verdict, nl)
    [] t = "Dack"            -> Untouched
    [] OTHER                 -> Freed

\* A frame of type t, from a V-MAC sender or not, is handled to completion.
ReceiveFrame(t, vmac) ==
  /\ Len(frames) < MaxFrames
  /\ \E pid \in PidRegistered, alloc \in (IF AllocMayFail THEN BOOLEAN ELSE {TRUE}),
        sent \in BOOLEAN, verdict \in (IF t = "Data" THEN DataVerdicts ELSE {"accept"}) :
       frames' = Append(frames,
                   <<[type |-> t, vmac |-> vmac, verdict |-> verdict],
                     Classify(t, vmac, verdict, NlSend(pid, alloc, sent))>>)

\* A frame arrives and is handled to completion.
Receive == \E t \in Types, vmac \in BOOLEAN : ReceiveFrame(t, vmac)

Next == Receive

Spec == Init /\ [][Next]_frames

-----------------------------------------------------------------------------
\* Header types the application is given (spec.md section 6).
Deliverable == {"Interest", "Data", "Announcement", "Injected"}

Info(i) == frames[i][1]
Done(i) == frames[i][2]

(* The delivery contract of spec.md section 6: nl_send hands a frame to  *)
(* the registered process only if it is a V-MAC frame (or overhearing is *)
(* built in) of a deliverable type, and a Data frame only when the flow  *)
(* engine accepted it -- never a duplicate, a DACK, or a frame of an     *)
(* unknown encoding.                                                     *)
DeliveryContract ==
  \A i \in 1 .. Len(frames) :
    Done(i).delivered =>
      /\ Info(i).vmac \/ Overhearing
      /\ Info(i).vmac => Info(i).type \in Deliverable
      /\ Info(i).type = "Data" /\ Info(i).vmac => Info(i).verdict = "accept"

(* No path of ieee80211_rx_vmac, vmac_rx and nl_send frees the received  *)
(* skb twice.                                                            *)
SkbNotFreedTwice == \A i \in 1 .. Len(frames) : Done(i).skbFrees <= 1

(* Every received skb is released exactly once by the time the hook      *)
(* returns, whatever its origin, type, Data verdict and the registration *)
(* of a process: by ieee80211_rx_vmac, by vmac_rx or by nl_send, never   *)
(* by two of them and never by none.  A V-MAC DACK is left out: its      *)
(* branch (rx.c:460) is commented out, which DackConsumed is about.      *)
SkbReleased ==
  \A i \in 1 .. Len(frames) :
    ~(Info(i).type = "Dack" /\ Info(i).vmac) => Done(i).skbFrees = 1

(* nl_send releases the netlink buffer it allocated exactly once, and    *)
(* never frees a buffer it did not allocate.                             *)
NetlinkBufferOnce ==
  \A i \in 1 .. Len(frames) : Done(i).outFrees <= 1 /\ Done(i).uninitFrees = 0

(* spec.md section 6: a DACK frame from a V-MAC peer is handed to DACK    *)
(* consumption (the branch of vmac_rx that retransmits holes).           *)
DackConsumed ==
  \A i \in 1 .. Len(frames) :
    Info(i).type = "Dack" /\ Info(i).vmac => Done(i).dackHandled

=============================================================================
