----------------------------- MODULE StressTest -----------------------------
(***************************************************************************)
(* The userspace stress test (src/userspace/stress-test.c) and the rate  *)
(* table it reads (vmac-usrsp.h).  main registers callbacktest with the  *)
(* V-MAC library, opens the log file when run as producer ("p"), and     *)
(* run_vmac sets the role flags; as consumer it starts                   *)
(* vmac_send_interest, which sweeps the 80 (stream, bw, sgi, rate)       *)
(* combinations, looks each up with getRate and sends one frame          *)
(* labelled with total++.  callbacktest runs on the library's receive    *)
(* thread, one frame at a time, and counts Data frames in the same       *)
(* global total.  The two threads share total, running2, producer and    *)
(* consumer with no lock; total++ is a load and a store.                 *)
(*                                                                         *)
(* Frame contents, rates in Mbps, timestamps and printing are left out:  *)
(* a frame is its type, a table row its four keys.                       *)
(***************************************************************************)
EXTENDS Naturals, Sequences

CONSTANTS
  Args,          \* values of argv[1] main may be given: subset of {"p", "c"}
  FopenMayFail,  \* whether fopen("logFile", "w") may return NULL
  MaxRecv,       \* frames the library hands to callbacktest
  MaxPasses      \* sweeps of vmac_send_interest

\* vmac-usrsp.h:36-39: frame types.
FrameTypes == {"INT", "DATA", "ANN", "INJ"}

\* vmac-usrsp.h:47-142: row i of rates[], as <<rix, bw, sgi, stream>>.
\* Rows come in pairs (sgi 0, 1) per rix 0..9, twenty per bw, forty per
\* stream.
RatesRow(i) == <<(i % 20) \div 2, (i \div 20) % 2, i % 2, i \div 40>>

RATES_NUM == 80

\* getRate (stress-test.c:315-325): the index of the first row with the
\* four keys, or RATES_NUM when the loop ends without a return (the
\* caller then reads an undefined value).
getRate(key) ==
  LET hits == {i \in 0 .. RATES_NUM - 1 : RatesRow(i) = key}
  IN IF hits = {} THEN RATES_NUM
     ELSE CHOOSE i \in hits : \A j \in hits : i <= j

VARIABLES
  argv,       \* argv[1]
  mainPc,     \* "reg", "args", "run", "loop"
  logFile,    \* "closed", "open", "null" (fopen failed)
  weare,      \* 0 producer, 1 consumer
  producer, consumer, running2,
  total,      \* the shared counter
  swPc,       \* vmac_send_interest: "none", "reset", "lookup", "load",
              \* "store", "send", "sleep"
  combo,      \* iteration of the four nested loops, 0 .. 79
  swTmp,      \* value of total loaded by total++ in the sweep
  nextLabel,  \* history: one past the label of the sweep's last frame this pass
  passes,     \* sweeps begun
  cbPc,       \* callbacktest: "idle", or "store" inside total++
  cbTmp,      \* value of total loaded by total++ in the callback
  recv,       \* frames handed to callbacktest
  lookups,    \* history: keys passed to getRate
  misses,     \* history: keys getRate found no row for
  logWrites,  \* history: logFile state at each fprintf(logFile, ...)
  counted     \* history: Data frames callbacktest counted

vars == <<argv, mainPc, logFile, weare, producer, consumer, running2, total,
          swPc, combo, swTmp, nextLabel, passes, cbPc, cbTmp, recv, lookups, misses, logWrites,
          counted>>

swVars == <<swPc, combo, swTmp, nextLabel, passes, lookups, misses>>
cbVars == <<cbPc, cbTmp, recv, logWrites, counted>>

TypeOK ==
  /\ argv \in Args /\ mainPc \in {"reg", "args", "run", "loop"}
  /\ logFile \in {"closed", "open", "null"} /\ weare \in {0, 1}
  /\ {producer, consumer, running2} \subseteq {0, 1}
  /\ total \in Nat /\ swTmp \in Nat /\ cbTmp \in Nat /\ nextLabel \in Nat
  /\ swPc \in {"none", "reset", "lookup", "load", "store", "send", "sleep"}
  /\ combo \in 0 .. RATES_NUM - 1 /\ passes \in 0 .. MaxPasses
  /\ cbPc \in {"idle", "store"} /\ recv \in 0 .. MaxRecv
  /\ counted \in Nat

\* Global initialisers (stress-test.c:55-72); total is a zeroed global.
Init ==
  /\ argv \in Args
  /\ mainPc = "reg" /\ logFile = "closed" /\ weare = 0
  /\ producer = 0 /\ consumer = 0 /\ running2 = 0 /\ total = 0
  /\ swPc = "none" /\ combo = 0 /\ swTmp = 0 /\ nextLabel = 0 /\ passes = 0
  /\ cbPc = "idle" /\ cbTmp = 0 /\ recv = 0
  /\ lookups = {} /\ misses = {} /\ logWrites = {} /\ counted = 0


-----------------------------------------------------------------------------
(* main (stress-test.c:288-313) and run_vmac (253-277).                   *)

\* vmac_register(callbacktest): from here on the library may call back.
MainRegister ==
  /\ mainPc = "reg" /\ mainPc' = "args"
  /\ UNCHANGED <<argv, logFile, weare, producer, consumer, running2, total>>
  /\ UNCHANGED swVars /\ UNCHANGED cbVars

\* argv[1] = "p": fopen the log file, weare = 0; otherwise weare = 1.
MainArgs ==
  /\ mainPc = "args" /\ mainPc' = "run"
  /\ IF argv = "p"
       THEN /\ logFile' \in IF FopenMayFail THEN {"open", "null"} ELSE {"open"}
            /\ weare' = 0
       ELSE /\ weare' = 1 /\ logFile' = logFile
  /\ UNCHANGED <<argv, producer, consumer, running2, total>>
  /\ UNCHANGED swVars /\ UNCHANGED cbVars

\* run_vmac(weare): the role flags, and for a consumer the sweep thread.
RunVmac ==
  /\ mainPc = "run" /\ mainPc' = "loop"
  /\ IF weare = 0
       THEN /\ producer' = 1 /\ UNCHANGED <<consumer, running2, swPc>>
       ELSE /\ running2' = 1 /\ producer' = 0 /\ consumer' = 1
            /\ swPc' = "reset"
  /\ UNCHANGED <<argv, logFile, weare, total>>
  /\ UNCHANGED <<combo, swTmp, nextLabel, passes, lookups, misses>>
  /\ UNCHANGED cbVars

\* while (1) sleep(1);
MainLoop == mainPc = "loop" /\ UNCHANGED vars

-----------------------------------------------------------------------------
(* vmac_send_interest (stress-test.c:87-140).                              *)

\* Faulty variant of Combo: the rate loop runs to r <= 10.
ComboR11(k) == <<k % 11, (k \div 22) % 2, (k \div 11) % 2, k \div 44>>

\* Iteration k of for s < 2, bw < 2, sgi < 2, r < 10 (outermost first),
\* as the key <<rix, bw, sgi, stream>> given to getRate.
Combo(k) == <<k % 10, (k \div 20) % 2, (k \div 10) % 2, k \div 40>>

\* Iterations of the four loops.
SweepLen == 2 * 2 * 2 * 10

UnchangedMain == UNCHANGED <<argv, mainPc, logFile, weare, producer, consumer,
                             running2>>

\* total = 0 at the top of the while loop.
SwReset ==
  /\ swPc = "reset" /\ passes < MaxPasses
  /\ total' = 0 /\ combo' = 0 /\ passes' = passes + 1 /\ swPc' = "lookup"
  /\ nextLabel' = 0
  /\ UNCHANGED <<swTmp, lookups, misses>> /\ UnchangedMain /\ UNCHANGED cbVars

\* getRate(meta.rate, meta.bw, meta.sgi, meta.stream) (stress-test.c:126).
SwLookup ==
  /\ swPc = "lookup" /\ swPc' = "load"
  /\ lookups' = lookups \cup {Combo(combo)}
  /\ misses' = IF getRate(Combo(combo)) = RATES_NUM THEN misses \cup {Combo(combo)}
                                                   ELSE misses
  /\ UNCHANGED <<total, combo, swTmp, nextLabel, passes>>
  /\ UnchangedMain /\ UNCHANGED cbVars

\* sprintf(rateStr, "%d ", total++): the load ...
SwLoad ==
  /\ swPc = "load" /\ swPc' = "store" /\ swTmp' = total
  /\ UNCHANGED <<total, combo, nextLabel, passes, lookups, misses>>
  /\ UnchangedMain /\ UNCHANGED cbVars

\* ... and the store; the frame carries the loaded value.
SwStore ==
  /\ swPc = "store" /\ swPc' = "send"
  /\ total' = swTmp + 1
  /\ UNCHANGED <<combo, swTmp, nextLabel, passes, lookups, misses>>
  /\ UnchangedMain /\ UNCHANGED cbVars

\* send_vmac, then the next iteration or, after the last, sleep(60).
SwSend ==
  /\ swPc = "send"
  /\ IF combo + 1 < SweepLen
       THEN combo' = combo + 1 /\ swPc' = "lookup"
       ELSE combo' = combo /\ swPc' = "sleep"
  /\ nextLabel' = swTmp + 1
  /\ UNCHANGED <<total, swTmp, passes, lookups, misses>>
  /\ UnchangedMain /\ UNCHANGED cbVars

SwSleep ==
  /\ swPc = "sleep" /\ swPc' = "reset"
  /\ UNCHANGED <<total, combo, swTmp, nextLabel, passes, lookups, misses>>
  /\ UnchangedMain /\ UNCHANGED cbVars

-----------------------------------------------------------------------------
(* callbacktest (stress-test.c:190-242) on the library's receive thread,  *)
(* for a frame of type t.  It may run as soon as vmac_register returned, *)
(* and reads the role flags when it runs.                                 *)

UnchangedSweep == UNCHANGED swVars

\* Faulty variant of callbacktest: the producer test of the Announcement
\* branch dropped.
callbacktestAnyRole(t) ==
  /\ mainPc # "reg" /\ cbPc = "idle" /\ recv < MaxRecv
  /\ recv' = recv + 1
  /\ CASE t = "DATA" /\ consumer = 1 ->
            cbTmp' = total /\ cbPc' = "store" /\ UNCHANGED <<logWrites>>
       [] t = "ANN" /\ running2 = 0 ->
            logWrites' = logWrites \cup {logFile} /\ UNCHANGED <<cbPc, cbTmp>>
       [] OTHER -> UNCHANGED <<cbPc, cbTmp, logWrites>>
  /\ UNCHANGED <<counted, total>> /\ UnchangedMain /\ UnchangedSweep

\* An Interest is printed (producer, no sender running); a Data frame is
\* counted with total++ (consumer); an Announcement is logged with
\* fprintf(logFile, ...) (producer, no sender running; the comparison
\* reads the uninitialised ret and only chooses what is written); any
\* other frame is dropped.  frame and meta are freed.
callbacktest(t) ==
  /\ mainPc # "reg" /\ cbPc = "idle" /\ recv < MaxRecv
  /\ recv' = recv + 1
  /\ CASE t = "DATA" /\ consumer = 1 ->
            cbTmp' = total /\ cbPc' = "store" /\ UNCHANGED <<logWrites>>
       [] t = "ANN" /\ producer = 1 /\ running2 = 0 ->
            logWrites' = logWrites \cup {logFile} /\ UNCHANGED <<cbPc, cbTmp>>
       [] OTHER -> UNCHANGED <<cbPc, cbTmp, logWrites>>
  /\ UNCHANGED <<counted, total>> /\ UnchangedMain /\ UnchangedSweep

\* The store of the callback's total++ (stress-test.c:222).
CbStore ==
  /\ cbPc = "store" /\ cbPc' = "idle"
  /\ total' = cbTmp + 1 /\ counted' = counted + 1
  /\ UNCHANGED <<cbTmp, recv, logWrites>> /\ UnchangedMain /\ UnchangedSweep

Callback == (\E t \in FrameTypes : callbacktest(t)) \/ CbStore

Sweep == SwReset \/ SwLookup \/ SwLoad \/ SwStore \/ SwSend \/ SwSleep

Main == MainRegister \/ MainArgs \/ RunVmac \/ MainLoop

Next == Main \/ Sweep \/ Callback

Spec == Init /\ [][Next]_vars

\* No action reads nextLabel: runs that do not check LabelsIncrease
\* identify states that differ only in it.
StressView == <<argv, mainPc, logFile, weare, producer, consumer, running2, total,
                swPc, combo, swTmp, passes, cbPc, cbTmp, recv, lookups, misses,
                logWrites, counted>>

-----------------------------------------------------------------------------
\* The keys of the rows of rates[].
TableKeys == {RatesRow(i) : i \in 0 .. RATES_NUM - 1}

(* getRate never runs off the end of rates[] (which would return an      *)
(* undefined double) for any combination vmac_send_interest's four loops *)
(* produce, and one sweep of those loops tries every row of the table:   *)
(* the loop bounds and the table layout agree.                           *)
RateSweepExact ==
  /\ misses = {}
  /\ swPc = "sleep" => lookups = TableKeys

(* callbacktest writes to logFile only after main opened it: the         *)
(* Announcement branch runs only for a producer, and main opens the file *)
(* before run_vmac sets producer = 1, even though the library may call   *)
(* back as soon as vmac_register returns.                                *)
LogFileOpenWhenWritten == logWrites \subseteq {"open"}

(* Within one pass the sweep labels its frames with increasing numbers   *)
(* (sprintf(rateStr, "%d ", total++), stress-test.c:127), which the      *)
(* producer reads back with strtod to tell a new pass (a smaller label)  *)
(* from the next rate (stress-test.c:229-234).  callbacktest's total++   *)
(* (stress-test.c:222) on the library thread shares the counter, which   *)
(* may skip labels but must not send one again or go back.               *)
LabelsIncrease == swPc = "send" => swTmp >= nextLabel

=============================================================================
