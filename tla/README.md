# TLA+ models of the V-MAC kernel module

This directory holds TLA+ models of the V-MAC kernel module and of its
userspace stress test. The module's C source is under `src/kernel/core`; the
stress test and the library header are under `src/userspace`. V-MAC is a publish/subscribe multicast MAC
layer. Frames are named by a 64-bit *encoding*.

- A publisher numbers its data frames with a u16 sequence number. It keeps the
  last `WINDOW_TX` frames in a retransmission buffer.
- A subscriber tracks the frames it has received in a `WINDOW`-slot window.
- Every fifth frame, the subscriber builds a DACK. A DACK is a negative
  acknowledgement that lists *holes*, which are ranges of missing sequence
  numbers. It sends the DACK from a timer.
- A publisher that receives a DACK retransmits the frames the holes name. It
  paces the retransmissions with a per-slot round timer.

Every run is model-checked with TLC. `PROJECT.json` lists the runs, the mutants
that show each property can fail, the map from each definition to the C lines
it models, the findings, and the hazards.

## Parts of the system and how they interact

| Part | Code | Model |
|---|---|---|
| Transmit path: sequence assignment, retransmission buffer, send | `tx.c` `vmac_tx`, Data branch (lines 168-260) | `VmacTx`: `TxAssign`, `TxReset`, `TxStore`, `TxFinish` |
| Receive-entry creation: the first frame of an encoding sent by a subscriber | `tx.c` `vmac_tx`, Interest branch (lines 107-161) | `VmacRx`: `RxCreate` |
| Receive path, Data branch: window, duplicate filter, DACK request | `rx.c` `vmac_rx` (lines 253-311) | `VmacRx`: `RxData`, `Advance`, `IsDup` |
| DACK builder | `dack.c` `prepDACK` (lines 140-267) | `DackHoles` (the hole scan); `VmacRx`: `PrepDACK`, `RxUnlock` |
| DACK timer | `dack.c` `__sendDACK` (lines 76-106) | `VmacRx`: `DackTimerBusy`, `DackTimerFire`, `DackTimerRelease` |
| Receive path, DACK branch: hole walk, pacing, retransmission | `rx.c` `vmac_rx` (lines 313-367) | `VmacTx`: `DackBegin`, `DackStep`, `DackCopy` |
| Expiry of encodings | `clean.c` `process` | `VmacRx`: `RxCleanup`; `VmacTx`: `CleanupTx` |
| Frame classifier, netlink delivery | `rx.c` `ieee80211_rx_vmac`, `vmac_rx` dispatch, `nl_send` | `VmacIngress`: `Classify`, `VmacRxFate`, `NlSend` |
| Send path below the flow engine: type dispatch, 802.11 header, driver hand-over | `tx.c` `vmac_tx` (lines 82-261), `vmac_low_tx`, `monitor_alloc_mgtxmitframe`, `xmit_mo` | `VmacEgress`: `vmac_tx`, `vmac_low_tx`, `xmit_mo` |
| A sender and a receiver running this code, over a lossy medium | `tx.c` and `rx.c` together | `VmacLink`: `VmacEgress` and `VmacIngress` as instances |
| Scheduler threads and queues | `queue.c` | `VmacQueues`: producers, `queuethread`, `rqueuethread`. No code calls `queue_start` or the producers in this build. |
| Encoding hash tables | `rtw_xmit.h` (declared only) | reduced to one encoding, `rxExists` / `txExists` |
| What the scheduler promises | (abstract) | `FifoScheduler`, refined by `VmacQueues` in `MCVmacQueues` |
| Userspace stress test | `stress-test.c`, the rate table of `vmac-usrsp.h` | `StressTest`: `main`, `run_vmac`, the sweep thread, `callbacktest` |

### How the parts interact

`vmac_tx` and `vmac_rx` run in different contexts: the upper-layer send path and
the driver's receive path. They share the encoding entries without a lock,
except `seqlock` around `seq++`.

- The DACK branch of `vmac_rx` reads the retransmission buffer and `seq` of an
  entry while `vmac_tx` overwrites and frees slots of the same entry. This race
  is why `VmacTx` splits both handlers into steps.
- On the receive side, `prepDACK`, called from `vmac_rx`, and the DACK timer
  `__sendDACK` share `dac_info` under the `dacklok` spinlock. Both take it only
  with `spin_trylock`.
- Every frame `vmac_tx` accepts goes down through `vmac_low_tx` to `xmit_mo`,
  which hands a copy to the driver. A peer's driver gives the frame to
  `ieee80211_rx_vmac`, which must recognise what the sender built. `VmacLink`
  checks that hand-off.

## Modules

- **DackHoles**: pure operators. They model the `for` loop of `prepDACK`:
  - the backward walk (`BackWalk`) and the forward walk (`ForwardWalk`);
  - the hole list (`Scan`, `PrepHoles`);
  - the set of sequence numbers a hole list asks for (`HoleSeqs`), read
    `le .. re-1` as the retransmission loop of `rx.c` reads it.

  `SlotBefore` models the `window[tmp % WINDOW - 1]` read. When `tmp` is a
  multiple of `WINDOW`, that read is `window[-1]`, and the parameter `g` stands
  for the byte that precedes the array.

- **MCDackHoles**: the initial states enumerate every window of `WINDOW = 7`
  slots, `lattmp` in {5, 10, 15}, and the values of `g` that the `.cfg` allows.
  Here that is 1; 0 opens the `window[-1]` case. The invariants
  compare `PrepHoles` with a reference definition of "the lost sequence numbers
  of the scanned range".

- **VmacRx**: one subscriber's receive entry for one encoding.

  | Variable | What it models in the code |
  |---|---|
  | `rxExists` | the entry is in `RX_TABLE` |
  | `latest`, `window`, `round` | the entry's fields |
  | `dac` | `dac_info`: `send`, `dack` (the built report or `NULL`), and the u8 `round` |
  | `dackTimer` | `dack_timer`: idle, armed, or re-armed after a busy lock |
  | `dacklok` | free, held by `vmac_rx`/`prepDACK`, or held by the timer |
  | `dackOut` | the DACKs handed to `vmac_send_hack` |
  | `got`, `misfiled` | history variables: the frames delivered to the subscriber in the live window, and the frames the duplicate filter decided wrongly |

  The actions are listed below.
  - `RxCreate` models `tx.c:107-161`. It includes the missing initialisation of
    `window[0]`, as the constant `Slot0Init`.
  - `RxData(s)` is the whole Data branch, including the `request_DACK` →
    `prepDACK` call (`PrepDACK`).
  - `PrepDACK` has three outcomes:
    - the allocation fails;
    - the trylock fails;
    - the report replaces the pending one, the timer is armed if it was not,
      and the lock stays held.
  - `RxUnlock` is the final `spin_unlock` of `prepDACK`. It is a separate step,
    so that the timer can fire while `vmac_rx` still holds the lock.
  - The timer is modelled by three actions:
    - `DackTimerBusy`: the trylock fails and the timer re-arms.
    - `DackTimerFire`: the trylock succeeds; if `send` is set, the DACK is
      sent and `send` and `dack` are cleared.
    - `DackTimerRelease`: the unlock.
  - `RxCleanup` is `process()` for a receive entry.

- **MCVmacRx**: a lossy, retransmitting publisher.
  - Any frame from `latest + 1 - RetxSpan` up to `MaxSeq` may arrive next. This
    covers loss, retransmission and duplicates. Frames older than the
    publisher's buffer are not retransmitted, which is why `RetxSpan = WINDOW_TX`.
  - `DackDrain` consumes sent DACKs.
  - Frames are numbered modulo 2^16, as `vmac_tx` numbers them. `RxSeqStart`
    can start the run from an entry that has already received every frame
    below that number. The pass runs use 0, which is `Init` of `VmacRx`.

- **VmacTx**: one publisher's transmit entry for one encoding, and the DACK
  handler acting on it.
  - `vmac_tx` is split into four steps, tracked by `txPc`:
    1. `TxAssign`: creation and `seq++`. It is one action because `seqlock`
       makes `seq++` atomic.
    2. `TxReset`: `timer[seq % WINDOW_TX] = 0` (`tx.c:206`). Headers are pushed
       and `skb_copy(GFP_KERNEL)`, which may sleep, runs before the slot is
       touched, so the DACK handler may run between this step and the next.
    3. `TxStore`: the read of `tmp2` and the store of the copy.
    4. `TxFinish`: the free of `tmp2`, and the send.
  - The DACK handler keeps its locals in `dk`. It is split into steps, so that
    every interleaving with `vmac_tx` is explored:
    1. `DackBegin`: the snapshot of `seq`.
    2. `DackStep`: the walk over holes, including the read of the slot pointer
       `p`.
    3. `DackCopy`: the pacing test, the `skb_copy`, the timer store and the
       send.
  - `stored`, `freed`, `retxLog` and `skbErr` are history variables. They record
    the frames stored, the frames freed, the retransmissions, and the misuse of
    an skb: a copy of a freed or uninitialised pointer, a double free, or a
    resend of a stale `skb2`.
  - `CleanupTx` is `process()` for a transmit entry.

- **MCVmacTx**: it bounds the frames sent (`MaxSends`) and the DACKs received
  (`MaxDacks`). Each DACK carries one hole, or two unit holes, over the retained
  range and one past it. Its rounds come from `DackRounds`. `SeqStart` is the
  number of frames the flow had sent when the run starts: 0 in the runs, or a
  flow near the u16 wrap whose slots hold the last frame that used them.

- **VmacEgress**: what a `vmac_tx` call does with its skb and what it hands
  to the driver. Each call is one step, as in `VmacIngress`.
  - `vmac_tx` sends Interest, Data, Announcement and Injected frames on and
    frees any other type (`tx.c:244-249`). The Data branch's flow state is
    `VmacTx`'s; here only the frame matters.
  - `vmac_low_tx` prepends a spoofed 802.11 header. A frame is reduced to the
    first two bytes of addr1, addr2 and addr3 and the V-MAC type byte: the
    bytes a receiver decides on.
  - `xmit_mo` tries four times for an xmit frame (`AllocOutcomes`). If all fail
    it returns `NETDEV_TX_BUSY` and the skb is neither sent nor freed.
    Otherwise the frame goes on the air and the skb is freed.
  - `sent` records, per call, how often the skb was freed.

- **VmacLink**: two hosts. The sender is `VmacEgress`; the receiver is
  `VmacIngress` (both by `INSTANCE`).
  - `PeerReceive` takes the oldest frame off the medium and hands it to
    `ReceiveFrame` of `VmacIngress`, with the type byte read back (`TypeOf`)
    and the addr2 test of `rx.c:436` (`IsVmac`).
  - `Lose` drops the oldest frame: frames are broadcast with no ACK
    (`tx.c:255`). The medium never reorders frames.
  - `Overheard` is a frame of another station: `Receive` of `VmacIngress`.

- **VmacIngress**: what the receive hook does with each frame's buffers. It
  covers `ieee80211_rx_vmac` (`Classify`), the per-type paths of `vmac_rx`
  (`VmacRxFate`) and `nl_send` (`NlSend`).
  - The hook runs each frame to completion. `ReceiveFrame` (a frame of a given type and origin) is therefore one step
    per frame. It records how often the frame's skb and the netlink `skb_out`
    were freed, whether the frame was delivered, and whether it reached the
    DACK consumption branch.
  - The Data verdict (no entry, duplicate, accepted) is taken as an input.
    `VmacRx` models how it is reached.
  - `nlmsg_unicast` consumes `skb_out` whether it succeeds or fails. This is
    the kernel's netlink contract.

- **VmacQueues** and **MCVmacQueues** model `queue.c`: three lists, the
  producers `retrx` / `add_DACK`, `enq_uqueue` and `add_mgmt`, and the two
  threads.
  - Each thread walks its list with `list_for_each_safe` outside the lock. It
    sends `pos`, then unlinks `pos` under the lock, then moves to `n`.
  - Only the consumer unlinks, so `pos` is always the first entry. The model
    keeps, as `txHasNext` and `rxHasNext`, whether `n` was an entry or the
    list head when it was read. That is all a walk sees of appends that run
    concurrently with it.
  - `get_stats = -1` (medium busy) is a nondeterministic alternative, `MBusy`
    or `UBusy`, to each send.
  - `queue_start` is never called and the producers have no callers in this
    build. The calls at `rx.c:359`, `rx.c:460` and `dack.c:100` are commented
    out. The module checks the scheduler as written.

- **FifoScheduler** is the abstract specification of the scheduler: per list,
  `Enq` (a frame joins the tail, or is dropped if allocation may fail) and
  `Deq` (the oldest frame goes to the list's consumer), with weak fairness on
  `Deq`. `MCVmacQueues` defines `Abs == INSTANCE FifoScheduler WITH ...`.
  The mapping is:
  - an abstract list is the concrete list without the head that has already
    been sent and not yet unlinked (`Waiting`);
  - an abstract output is the frames handed to `vmac_low_tx` from that list
    (`SentFrom`), or to `vmac_rx` for `rx_upper`.

  The abstract dequeue is therefore the send step (`MSend`, `USend`,
  `RxHandle`). The unlink that follows is a stuttering step. `ImplementsFifo`
  (`Abs!Spec`) is checked as a property.

- **StressTest** models `stress-test.c`.
  - `main` calls `vmac_register` (`MainRegister`), then opens the log file for
    a producer (`MainArgs`, where `fopen` may fail if `FopenMayFail`), then
    calls `run_vmac`, which sets the role flags and, for a consumer, starts
    `vmac_send_interest` (`RunVmac`).
  - The sweep thread resets `total` (`SwReset`), then, for each of the 80
    iterations of its four nested loops (`Combo`), it calls `getRate`
    (`SwLookup`) and runs `total++` as a load and a store (`SwLoad`,
    `SwStore`), then sends (`SwSend`). It then sleeps (`SwSleep`).
  - `callbacktest(t)` runs on the library's receive thread at any time after
    `vmac_register`. A Data frame starts a `total++` that `CbStore`
    completes. An Announcement to a producer writes to the log file.
  - `nextLabel` is a history variable: one past the label of the sweep's
    last frame in this pass. `StressView` leaves it out for the runs that do
    not check `LabelsIncrease`.
  - The rates table is `RatesRow(i)`. All 80 rows of `vmac-usrsp.h:56-141`
    follow the pattern `<<(i % 20) \div 2, (i \div 20) % 2, i % 2, i \div 40>>`.
    The rates in Mbps are left out, because the sweep never uses the value
    `getRate` returns.
  - `vmac_send_data` has no caller, and the library is only declared, so
    neither is modelled.

## Undefined behaviour as constants

Some code reads memory it never wrote. Each such read is a constant that the
`.cfg` sets to the values the build can produce:

| Constant | The read it stands for |
|---|---|
| `Slot0Init` | `window[0]` after `vmalloc` |
| `WindowMinus1` | the byte read as `window[-1]` |
| `OobNull` | whether `retransmission_buffer[WINDOW_TX]` reads as `NULL` |
| `UNINIT` | a retransmission-buffer slot after `vmalloc` |

`AllocMayFail` lets `kmalloc`, `alloc_skb` and `skb_copy` fail. The pass runs
fix each constant to the benign value. Each violation run opens exactly one of
them.

## Runs

Twelve runs: six pass runs and six violation runs.
Each violation run checks a single property that the code breaks.

| Run | What it checks, and what it shows |
|---|---|
| `holes_pass` | `HolesAreLosses` and `HolesMatchLosses`, over every window and round, with `window[-1]` reading 1. The holes are exactly the lost frames of the scanned range, and the loss count matches. |
| `rx_pass` | `WindowTracksReceipts`: the window equals the frames received in the live range. `DupFilterExact`: no frame is dropped as a duplicate unless it was delivered, and none is delivered twice. `DackArmedHasTimer`: a pending DACK always has a timer. `ReportHolesUndelivered`: a DACK asks only for undelivered frames. `DackEventuallySent`: every pending DACK is eventually sent. About 636,000 states, about 1 min 10 s. |
| `rx_slot0` | With an uninitialised `window[0]` of 1, frame 0 is dropped. Violation (`tx.c:118`): `vmalloc` initialises no slot; the advance of `latest` clears the others before they are read, but frame 0 does not advance it. |
| `tx_pass` | `RetainedFramesRecoverable`: each of the last `WINDOW_TX` frames is in its slot. `NoCopyLeaked`: every stored copy is, at every moment, in a slot, in `tmp2` on its way to `kfree_skb`, or freed, and all are freed once the flow is evicted. `NoDoubleRelease`: no frame is freed twice. About 1.65 million states, about 40 s. |
| `tx_pace` | `RetxSpacing`: a frame is retransmitted at most once per six DACK rounds. Violation (`tx.c:206`). A round-0 DACK resends frame 0 and sets `timer[0] = 6`. A second round-0 DACK snapshots `seq = 5`. `vmac_tx` takes frame 5 and resets `timer[0]` before it replaces the copy, and the second DACK resends frame 0 again in round 0. |
| `tx_retx` | `RetxCopiesHoleFrame`: the DACK handler resends frame `le` from a live copy. Violation (`rx.c:332`). The handler reads `seq` once and then reads the slot with no lock. TLC resends frame 5, which reused slot 0, for hole 0. The same unlocked read can copy a frame that `tx.c:227` has just freed (`rx.c:353`). |
| `link_pass` | A sender of every header type, a lossy medium, and a receiver that also hears other stations. `DeliveryContract`: only accepted frames of deliverable types reach the application. `SkbReleased`: every received skb but a V-MAC DACK is freed exactly once, by exactly one of the hook, `vmac_rx` and `nl_send`. About 500,000 states, about 15 s. |
| `link_addr` | `PeerRecognisesVmac`: a frame the sender hands to the driver is taken for a V-MAC frame by the receiver. Violation (`tx.c:296`): `vmac_low_tx` puts `fe:fe` in addr3, and `ieee80211_rx_vmac` tests addr2. |
| `ingress_nlout` | `NetlinkBufferOnce`: `skb_out` is freed twice. Violation (`rx.c:102`). |
| `queues_pass` | `EachFrameOnce`, `FifoPerQueue` and `QueuedEventuallyDelivered`: the unlocked walks, with appends racing them, send every frame once, in order, and eventually. `ImplementsFifo`: together, the threads and producers implement `FifoScheduler`, fairness included. About 63,000 states, about 30 s. |
| `stress_race` | `LabelsIncrease`: within a pass, the sweep's frame labels (`total++`, `stress-test.c:127`) never repeat or go back. Violation (`stress-test.c:222`). `callbacktest` loads `total`, the sweep sends labels 0 and 1, and the callback's store then makes the sweep send label 1 again. |
| `stress_pass` | `RateSweepExact`: every key the sweep gives `getRate` is in the table, and one sweep covers the table. `LogFileOpenWhenWritten`: `callbacktest` writes to the log file only after `main` has opened it, although callbacks may start before the role is set. Both roles, two callbacks of any type. About 1.9 million states, about 70 s. |

### Cases outside the run set

Some undefined-behaviour and allocation-failure cases are reached by changing
one constant of a pass run's configuration. `PROJECT.json` lists them as
hazards, each with the constant that opens it:
- `window[-1]` reading 0;
- `retransmission_buffer[WINDOW_TX]` reading `NULL`. In the build, those eight
  bytes are `timer[0..7]` (`vmac.h:174-175`), so `NULL` is the common case;
- the failure of the first `skb_copy`;
- the failure of `nlmsg_new`;
- `nl_send` with no registered process;
- the u16 wrap of `seq`: `MCVmacTxWrap.cfg` starts the flow at 65533 and
  violates `NoCopyLeaked` within six sends. After the wrap, frames below
  `WINDOW_TX` overwrite their slots without freeing the old copy
  (`tx.c:210`), and `process()` frees only the slots below `seq`
  (`clean.c:84`);
- the u8 timer wrap: `DackRounds = {250, 251}` in `MCVmacTxPace.cfg` breaks
  `RetxSpacing` by the wrap alone (`rx.c:356`). This code is unreachable while DACK dispatch is
  commented out;
- `fopen` failing in the stress test (`FopenMayFail = TRUE`);
- `xmit_mo` finding no xmit frame: `XmitMayFail = TRUE` in `MCVmacLink.cfg`
  violates `EgressSkbOnce` (`tx.c:353`). No run checks `EgressSkbOnce`:
  with the failure off, it only restates the branches of `vmac_tx`;
- a received DACK: `MCVmacIngressDack.cfg` violates `DackConsumed`. The DACK
  branch of `ieee80211_rx_vmac` (`rx.c:458-461`) is a commented-out call, so
  the DACK is neither consumed nor freed.

`MgmtBeforeData` (`queue.c:243`) is violated under `MCVmacQueuesPrio.cfg`: a
busy medium ends only the `mqueue` walk, and the `uqueue` walk of the same pass
sends data while management frames wait (spec.md section 4.7). The scheduler
has no caller in this build, so the run budget goes to reachable paths and this
is a hazard with the configuration that reproduces it.

The receive side has its own u16 wrap. `MCVmacRxWrap.cfg` starts the entry
at `RxSeqStart = 65533` and violates `DupFilterExact` in one step. After the
wrap, `latest < seq` fails (`rx.c:272`), so the window is never cleared
again. Frame 0 is then dropped as a duplicate of frame 65527, which used its
slot. For the same reason, `round <= seq - 5` (`rx.c:302`) never holds again,
so the flow requests no more DACKs.

## Bounds, and why they suffice

The code's sizes are `WINDOW = 700`, `WINDOW_TX = 500` and 40 holes. The models
use `WINDOW = 7`, `WINDOW_TX = 5` and `HOLES_MAX = 2`.

- Every branch of the code depends only on two things: the order of sequence
  numbers, and their residues modulo the window sizes. `WINDOW_TX < WINDOW`
  holds in both the code and the model.
- `MaxSeq = 10` lets the stream wrap the receive window once and reach two DACK
  rounds.
- `MaxSends = 8` wraps the transmit buffer, so slots are reused and freed.
- `MaxFrames = 2` in `MCVmacLink`. Frames are independent
  of one another, and two frames give every pair of paths.
- `MaxSends = 3` in `MCVmacLink`: enough for a sent frame to be received, one
  to be lost, and one still on the medium when other stations' frames arrive.
- `MaxEnq = 4` in `MCVmacQueues` lets two entries sit in one list while a
  third is appended behind a walk.
- `DackRounds = {0, 6}` makes a second DACK either meet the pacing timer or pass
  it. `{250, 251}` reaches the u8 wrap.
- `MaxRecv = 2` and `MaxPasses = 1` in the stress test. One full sweep of 80
  iterations, with two callbacks at any point in it, reaches each branch of
  `callbacktest` in either role.
- Two holes per DACK let the handler move between holes while `vmac_tx`
  interleaves.

## Timing and fairness

The 30 s expiry timer is far longer than a DACK round. The model therefore lets
cleanup happen only when the entry is quiescent: the DACK timer is idle, the lock
is free, and no handler is mid-step.

This leaves one window out. `vmac_tx` looks the entry up at `tx.c:173` and
re-arms the timer only at `tx.c:201`. An expiry that fires in between frees
the entry under `vmac_tx`. `PROJECT.json` lists this as a hazard without a
property.

In `MCVmacRx`, weak fairness is placed on the timer actions, on `RxUnlock` and on
the drain:
- a kernel timer that is armed eventually fires;
- a held spinlock is released by the code that holds it.

There is no fairness on frame arrival. `DackEventuallySent` therefore holds even
if the publisher goes quiet.

In `MCVmacQueues`, the threads loop forever (`while(1)`), so each step of a walk
has weak fairness. `MSend` and `USend` have strong fairness, which assumes the
medium is not busy forever. Producers have no fairness.

## Not modelled, and why

- The DACK suppression in `rx.c:369-383` is unreachable. `vmacr` is set to
  `NULL` at `rx.c:321`, and DACK frames are never dispatched.
- The encoding hash tables are declared but not defined under `src/`.
- Header encoding is modelled only in the bytes a receiver decides on: the
  type byte and the first two bytes of each address. Both hosts push and pull
  the same packed structs.
- In `xmit_mo`, the rate, bandwidth, sequence and statistics fields of the xmit
  frame are left out. Two hazards there have no property:
  - the write of `pattrib->raid` after `dump_mgntframe`;
  - the unchecked `MGN_VHTnSS_MCS0 + rate`.
- `alloc_mgtxmitframe`, `dump_mgntframe` and `vmac_send_hack` are driver
  functions whose code is not in the repository. The pool `alloc_mgtxmitframe`
  draws from is the constant `XmitMayFail`.
- The userspace library (`send_vmac`, `vmac_register`) is only declared in
  `vmac-usrsp.h`.
- The 30 s expiry timers (`__cleanup_rx`, `__cleanup_tx`) are reduced to the
  guard of the cleanup actions.
- The plan for later work:
  - a composition of `VmacTx` and `VmacRx` over a lossy channel, checking end
    to end that lost frames are recovered, with DACK dispatch as a build
    constant;
  - the u16 wrap as a run of its own, once the run set has room.
