------------------------------- MODULE VmacLink -------------------------------
(***************************************************************************)
(* Two hosts running this code, one sending and one receiving: the frames *)
(* vmac_tx hands to the driver (VmacEgress) cross the medium, which may   *)
(* lose them (broadcast, no ACK: IEEE80211_TX_CTL_NO_ACK, tx.c:255) but   *)
(* keeps their order, and reach the peer's ieee80211_rx_vmac, which also *)
(* hears frames of other stations (VmacIngress).  The medium and the      *)
(* driver below xmit_mo carry a frame's bytes unchanged.                  *)
(***************************************************************************)
EXTENDS Naturals, Sequences

CONSTANTS
  SendTypes,      \* header types the sender's callers pass to vmac_tx
  XmitMayFail,    \* whether the sender's alloc_mgtxmitframe may fail
  MaxSends,       \* calls of vmac_tx
  Types,          \* header types of frames from other stations
  Overhearing,    \* whether the receiver's build defines ENABLE_OVERHEARING
  PidRegistered,  \* values the receiver's getpidt() # -1 may take
  AllocMayFail,   \* whether the receiver's nlmsg_new may fail
  MaxFrames       \* frames the receiver handles

VARIABLES
  sent,    \* the sender's vmac_tx calls (VmacEgress)
  air,     \* frames on the medium, oldest first
  frames,  \* the frames the receiver handled (VmacIngress)
  peer     \* for each frame of the sender the receiver handled: whether
           \* ieee80211_rx_vmac took it for a V-MAC frame

vars == <<sent, air, frames, peer>>

Out == INSTANCE VmacEgress WITH Types <- SendTypes, AllocMayFail <- XmitMayFail
In  == INSTANCE VmacIngress

\* vmac_rx reads the type byte back (rx.c:450-451).
TypeOf(code) == CHOOSE t \in Out!AllTypes : Out!TypeCode[t] = code

\* rx.c:436: a V-MAC frame is one whose addr2 starts fe:fe.
IsVmac(f) == f.addr2 = <<254, 254>>

Init == Out!Init /\ In!Init /\ peer = <<>>

\* The sender's vmac_tx.
Send == Out!Next /\ UNCHANGED <<frames, peer>>

\* The oldest frame on the medium reaches the receiver and is handled.
PeerReceive ==
  /\ air # <<>>
  /\ In!ReceiveFrame(TypeOf(Head(air).type), IsVmac(Head(air)))
  /\ peer' = Append(peer, IsVmac(Head(air)))
  /\ air' = Tail(air)
  /\ UNCHANGED sent

\* The oldest frame on the medium is lost.
Lose ==
  /\ air # <<>>
  /\ air' = Tail(air)
  /\ UNCHANGED <<sent, frames, peer>>

\* A frame of another station reaches the receiver.
Overheard == In!Receive /\ UNCHANGED <<sent, air, peer>>

Next == Send \/ PeerReceive \/ Lose \/ Overheard

Spec == Init /\ [][Next]_vars

-----------------------------------------------------------------------------
TypeOK == Out!TypeOK /\ In!TypeOK /\ peer \in Seq(BOOLEAN)

(* The sender releases every skb handed to vmac_tx exactly once          *)
(* (tx.c:247, 398).                                                      *)
EgressSkbOnce == Out!EgressSkbOnce

(* The receiver's delivery contract (spec.md section 6) holds for the    *)
(* sender's frames and other stations' alike: nl_send is reached only by *)
(* a V-MAC frame of a deliverable type, or any frame with overhearing.   *)
DeliveryContract == In!DeliveryContract

(* The receiver releases every received skb exactly once, whatever the   *)
(* frame's origin, except a V-MAC DACK (rx.c:428-493, 236-403, 41-104).  *)
SkbReleased == In!SkbReleased

(* spec.md sections 6 and 8: the headers vmac_tx builds interoperate     *)
(* with the receive path of the same code, so a frame the sender hands  *)
(* to the driver is taken by the receiver's ieee80211_rx_vmac for a      *)
(* V-MAC frame (the addr2 test of rx.c:436 against the header of         *)
(* vmac_low_tx, tx.c:295-297).                                            *)
PeerRecognisesVmac == \A i \in 1 .. Len(peer) : peer[i]

=============================================================================
