------------------------------ MODULE VmacEgress ------------------------------
(***************************************************************************)
(* The path of a frame from vmac_tx to the driver (tx.c): vmac_tx         *)
(* dispatches on the header type and prepends the V-MAC headers,          *)
(* vmac_low_tx prepends a spoofed 802.11 header, xmit_mo copies the frame *)
(* into an xmit frame of the driver's pool and hands it to dump_mgntframe *)
(* (driver code, outside this repository).  A call runs to completion in  *)
(* its caller's context, so each call is one step here.                   *)
(*                                                                         *)
(* The per-flow work of the Data branch (sequence number, retransmission *)
(* buffer, tx.c:162-228) is VmacTx's; here a frame is what a receiver    *)
(* reads from it: the first two bytes of the three addresses and the      *)
(* V-MAC type byte.  Payload, encoding and sequence number are left out.  *)
(***************************************************************************)
EXTENDS Naturals, Sequences

CONSTANTS
  Types,         \* header types callers pass to vmac_tx, a subset of AllTypes
  AllocMayFail,  \* whether alloc_mgtxmitframe may find the pool empty
  MaxSends       \* calls of vmac_tx in one behaviour

\* vmac.h:59-63: the header types, and a value no branch of vmac_tx matches.
AllTypes == {"Interest", "Data", "Dack", "Announcement", "Injected", "Other"}

\* vmac.h:59-63: the type byte of each header type; 7 is a value of none.
TypeCode == [Interest |-> 0, Data |-> 1, Dack |-> 2, Announcement |-> 3,
             Injected |-> 5, Other |-> 7]

ASSUME Types \subseteq AllTypes /\ AllocMayFail \in BOOLEAN /\ MaxSends \in Nat

\* tx.c:280-282: the first two bytes of src, dest and bssid.
Src   == <<0, 192>>      \* 00:c0:ca:a8:f2:a2
Dest  == <<255, 255>>    \* ff:ff:ff:ff:ff:ff
Bssid == <<254, 254>>    \* fe:fe:fe:fe:fe:fe

VARIABLES
  sent,  \* one record per vmac_tx call: header type, frees of its skb,
         \* whether xmit_mo returned NETDEV_TX_BUSY
  air    \* the frames handed to dump_mgntframe, in that order

egressVars == <<sent, air>>

Frame == [addr1 : {Dest}, addr2 : {Src}, addr3 : {Bssid},
          type : {TypeCode[t] : t \in AllTypes}]

Call == [type : AllTypes, skbFrees : Nat, busy : BOOLEAN]

TypeOK ==
  /\ sent \in Seq(Call) /\ Len(sent) <= MaxSends
  /\ air \in Seq(Frame) /\ Len(air) <= Len(sent)

Init == sent = <<>> /\ air = <<>>

(***************************************************************************)
(* vmac_tx (tx.c:94-95, 202, 241): vmachdr.type is the caller's type;     *)
(* the Data and Injected branches set it again to VMAC_HDR_DATA and       *)
(* VMAC_HDR_INJECTED.  vmac_low_tx (tx.c:277-302) then prepends an        *)
(* 802.11 header with addr1 = dest, addr2 = src and addr3 = bssid.        *)
(***************************************************************************)
vmac_low_tx(t) ==
  [addr1 |-> Dest, addr2 |-> Src, addr3 |-> Bssid, type |-> TypeCode[t]]

\* tx.c:107, 162, 230, 238: the types vmac_tx has a branch for.
Handled == {"Interest", "Data", "Announcement", "Injected"}

\* monitor_alloc_mgtxmitframe (tx.c:303-317): four tries of
\* alloc_mgtxmitframe, NULL if all four find the pool empty.
AllocOutcomes == IF AllocMayFail THEN {"frame", "null"} ELSE {"frame"}

(***************************************************************************)
(* xmit_mo (tx.c:319-400): with no xmit frame it returns NETDEV_TX_BUSY   *)
(* and leaves the skb to its caller, which ignores the value (tx.c:300);  *)
(* otherwise the frame is copied, handed to dump_mgntframe, and the skb   *)
(* freed with rtw_skb_free.                                               *)
(***************************************************************************)
xmit_mo(t, alloc) ==
  \/ /\ alloc = "null"
     /\ sent' = Append(sent, [type |-> t, skbFrees |-> 0, busy |-> TRUE])
     /\ UNCHANGED air
  \/ /\ alloc = "frame"
     /\ air' = Append(air, vmac_low_tx(t))
     /\ sent' = Append(sent, [type |-> t, skbFrees |-> 1, busy |-> FALSE])

(***************************************************************************)
(* vmac_tx (tx.c:82-261): Interest, Data, Announcement and Injected       *)
(* frames get their headers and go to vmac_low_tx; any other type is      *)
(* freed and the call returns (tx.c:244-249).                             *)
(***************************************************************************)
vmac_tx(t) ==
  /\ Len(sent) < MaxSends
  /\ \/ /\ t \in Handled
        /\ \E alloc \in AllocOutcomes : xmit_mo(t, alloc)
     \/ /\ t \notin Handled
        /\ sent' = Append(sent, [type |-> t, skbFrees |-> 1, busy |-> FALSE])
        /\ UNCHANGED air

Next == \E t \in Types : vmac_tx(t)

Spec == Init /\ [][Next]_egressVars

-----------------------------------------------------------------------------
(* Every skb handed to vmac_tx is released exactly once: by the unknown-  *)
(* type branch (tx.c:247) or by xmit_mo after the copy (tx.c:398), and    *)
(* never by both.  It fails once alloc_mgtxmitframe may find the pool     *)
(* empty (AllocMayFail): xmit_mo's NETDEV_TX_BUSY leaves the skb to a     *)
(* caller that ignores it (tx.c:300, 353).                                *)
EgressSkbOnce == \A i \in 1 .. Len(sent) : sent[i].skbFrees = 1

=============================================================================
