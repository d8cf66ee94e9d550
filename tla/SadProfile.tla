----------------------------- MODULE SadProfile -----------------------------
(***************************************************************************)
(* sad_profile and evu_test: core 0 calls the profiled function, the EVU   *)
(* counts its entries and exits in counters 20 and 21, and the firmware    *)
(* polls the two counters and logs one record per call in the DSPM.        *)
(*                                                                         *)
(* Time is counted in milestones: now is the number of entries and exits   *)
(* so far, so a cycle stamp or an event counter sampled while call i runs  *)
(* has the value 2i - 1 and one sampled after it has the value 2i.  The    *)
(* nine metrics of a record appear as two: the cycles and one event count. *)
(***************************************************************************)
EXTENDS Integers, Sequences

CONSTANTS
    Program,     \* "sad_profile" or "evu_test"
    Passes,      \* profiling passes, each with a fresh start of the firmware
    Calls,       \* calls of the profiled function in a pass
    MaxLogRecords,
    SlowCalls,   \* does every call last for a full iteration of the poll loop
    SlowGaps,    \* does every gap between two calls
    SlowStart,   \* does the time from ready to the first call
    SlowEnd,     \* does the time from the last call to the end of the pass
    Timely       \* does the firmware start before core 0's timeout

ASSUME ConstantsAssumption ==
    /\ Program \in {"sad_profile", "evu_test"}
    /\ Passes \in Nat \ {0} /\ Calls \in Nat /\ MaxLogRecords \in Nat
    /\ {SlowCalls, SlowGaps, SlowStart, SlowEnd, Timely} \subseteq BOOLEAN

VARIABLES
    pc,          \* where core 0 is in the pass
    pass,        \* the current pass
    entered,     \* calls that have begun in this pass
    returned,    \* calls that have ended in this pass
    cnt20,       \* counter 20, entry milestones
    cnt21,       \* counter 21, exit milestones
    running,     \* PMC_STATUS is 0
    status,      \* DSPM_STATUS
    cmd,         \* DSPM_CMD is CMD_TRIGGER_INTERRUPT
    callCount,   \* DSPM_LOG_CALL_COUNT
    totals,      \* DSPM_LOG_TOTALS, of the cycles
    records,     \* DSPM_LOG_RECORDS
    result,      \* what core 0 has read of the log
    fpc,         \* next step of the firmware
    curEntry, curExit, prevEntry, prevExit,
    mcycleEntry, \* mcycle_entry
    snap,        \* llcrd_snap and the other baselines
    rec,         \* the deltas of the exit being logged, as intervals
    polls        \* bound: iterations begun since the last event, up to 2

coreVars == <<pc, pass, entered, returned, result>>
logVars == <<callCount, totals, records>>
localVars == <<curEntry, curExit, prevEntry, prevExit, mcycleEntry, snap, rec>>
vars == <<coreVars, cnt20, cnt21, running, status, cmd, logVars, fpc, localVars, polls>>

now == entered + returned
Stamps == 0 .. 2 * Calls
Interval == Stamps \X Stamps

CoreSteps == {"halt", "clear", "start", "wait_started", "configure", "trigger",
              "wait_ready", "run", "halt_end", "read_count", "read_totals",
              "end", "hung"}
BootSteps == {"b_cmd", "b_log", "b_started", "b_wait", "b_clear", "b_ready",
              "b_zero20", "b_zero21"}
PollSteps == {"read_entry", "read_exit", "e_stamp", "e_snap", "x_stamp",
              "x_stat", "x_totals", "x_record", "x_count"}

TypeOK ==
    /\ pc \in CoreSteps /\ pass \in 1 .. Passes
    /\ entered \in 0 .. Calls /\ returned \in 0 .. Calls
    /\ cnt20 \in 0 .. Calls /\ cnt21 \in 0 .. Calls
    /\ running \in BOOLEAN /\ cmd \in BOOLEAN
    /\ status \in {"none", "started", "all_sent"}
    /\ callCount \in 0 .. Calls /\ totals \in Nat
    /\ records \in Seq([cyc : Interval, stat : Interval])
    /\ Len(records) <= MaxLogRecords
    /\ result \in [count : Nat, totals : Nat]
    /\ fpc \in BootSteps \cup PollSteps
    /\ {curEntry, curExit, prevEntry, prevExit} \subseteq 0 .. Calls
    /\ mcycleEntry \in Stamps /\ snap \in Stamps
    /\ rec \in [cyc : Interval, stat : Interval]
    /\ polls \in 0 .. 2

NoRecord == [cyc |-> <<0, 0>>, stat |-> <<0, 0>>]

Init ==
    /\ pc = "halt" /\ pass = 1 /\ entered = 0 /\ returned = 0
    /\ cnt20 = 0 /\ cnt21 = 0
    /\ running = FALSE /\ status = "none" /\ cmd = FALSE
    /\ callCount = 0 /\ totals = 0 /\ records = <<>>
    /\ result = [count |-> 0, totals |-> 0]
    /\ fpc = "b_cmd"
    /\ curEntry = 0 /\ curExit = 0 /\ prevEntry = 0 /\ prevExit = 0
    /\ mcycleEntry = 0 /\ snap = 0 /\ rec = NoRecord
    /\ polls = 0

-----------------------------------------------------------------------------
\* Core 0.

\* Definitions named X_Mutation are what a plausible bug would make of X; no
\* specification uses them.

Go(from, to) == pc = from /\ pc' = to

\* PMC_STATUS
CSetRunning(from, to, value) ==
    /\ Go(from, to)
    /\ running' = value
    /\ UNCHANGED <<pass, entered, returned, result, cnt20, cnt21, status, cmd,
                   logVars, localVars, polls, fpc>>

\* the DSPM below 0x200; the log is left to the firmware
CClear ==
    /\ Go("clear", "start")
    /\ status' = "none" /\ cmd' = FALSE
    /\ UNCHANGED <<pass, entered, returned, result, cnt20, cnt21, running,
                   logVars, localVars, polls, fpc>>

\* the copied image restarts the firmware
CStart_Mutation ==
    /\ Go("start", "wait_started")
    /\ running' = TRUE
    /\ UNCHANGED <<pass, entered, returned, result, cnt20, cnt21, status, cmd,
                   logVars, localVars, polls, fpc>>

CStart ==
    /\ Go("start", "wait_started")
    /\ running' = TRUE /\ fpc' = "b_cmd"
    /\ UNCHANGED <<pass, entered, returned, result, cnt20, cnt21, status, cmd,
                   logVars, localVars, polls>>

CWaitStarted ==
    /\ \/ status = "started" /\ Go("wait_started", "configure")
       \/ ~Timely /\ Go("wait_started", "hung")
    /\ UNCHANGED <<pass, entered, returned, result, cnt20, cnt21, running,
                   status, cmd, logVars, localVars, polls, fpc>>

\* counters 20 and 21 are selected and zeroed
CConfigure_Mutation ==
    /\ Go("configure", "trigger")
    /\ UNCHANGED <<pass, entered, returned, result, cnt20, cnt21, running, status,
                   cmd, logVars, localVars, polls, fpc>>

CConfigure ==
    /\ Go("configure", "trigger")
    /\ cnt20' = 0 /\ cnt21' = 0
    /\ UNCHANGED <<pass, entered, returned, result, running, status, cmd,
                   logVars, localVars, polls, fpc>>

CTrigger ==
    /\ Go("trigger", "wait_ready")
    /\ cmd' = TRUE
    /\ UNCHANGED <<pass, entered, returned, result, cnt20, cnt21, running,
                   status, logVars, localVars, polls, fpc>>

\* the pass begins: calls are counted from here
CWaitReady ==
    /\ status = "all_sent"
    /\ Go("wait_ready", "run")
    /\ entered' = 0 /\ returned' = 0 /\ polls' = 0
    /\ UNCHANGED <<pass, result, cnt20, cnt21, running, status, cmd, logVars,
                   localVars, fpc>>

\* enough time for the firmware to begin an iteration and complete it
Elapsed(slow) == slow => polls = 2

\* Core 0 executes the entry of the function: PCTRACK0
CEntry ==
    /\ pc = "run" /\ entered = returned /\ entered < Calls
    /\ Elapsed(IF entered = 0 THEN SlowStart ELSE SlowGaps)
    /\ entered' = entered + 1 /\ cnt20' = cnt20 + 1 /\ polls' = 0
    /\ UNCHANGED <<pc, pass, returned, result, cnt21, running, status, cmd,
                   logVars, localVars, fpc>>

\* and its first ret: PCTRACK1
CExit ==
    /\ pc = "run" /\ entered > returned
    /\ Elapsed(SlowCalls)
    /\ returned' = returned + 1 /\ cnt21' = cnt21 + 1 /\ polls' = 0
    /\ UNCHANGED <<pc, pass, entered, result, cnt20, running, status, cmd,
                   logVars, localVars, fpc>>

\* sad_profile halts the firmware and reads its log, evu_test reads first
CFinish ==
    /\ returned = Calls /\ Elapsed(SlowEnd)
    /\ Go("run", IF Program = "evu_test" THEN "read_count" ELSE "halt_end")
    /\ UNCHANGED <<pass, entered, returned, result, cnt20, cnt21, running,
                   status, cmd, logVars, localVars, polls, fpc>>

CReadCount ==
    /\ Go("read_count", "read_totals")
    /\ result' = [result EXCEPT !.count = callCount]
    /\ UNCHANGED <<pass, entered, returned, cnt20, cnt21, running, status, cmd,
                   logVars, localVars, polls, fpc>>

CReadTotals ==
    /\ pc = "read_totals"
    /\ result' = [result EXCEPT !.totals = totals]
    /\ IF Program = "evu_test" THEN pc' = "halt_end" /\ pass' = pass
       ELSE IF pass < Passes THEN pc' = "halt" /\ pass' = pass + 1
       ELSE pc' = "end" /\ pass' = pass
    /\ UNCHANGED <<entered, returned, cnt20, cnt21, running, status, cmd,
                   logVars, localVars, polls, fpc>>

Core ==
    \/ CSetRunning("halt", "clear", FALSE) \/ CClear \/ CStart \/ CWaitStarted
    \/ CConfigure \/ CTrigger \/ CWaitReady \/ CEntry \/ CExit \/ CFinish
    \/ CSetRunning("halt_end", IF Program = "evu_test" THEN "end" ELSE "read_count", FALSE)
    \/ CReadCount \/ CReadTotals

-----------------------------------------------------------------------------
\* The firmware, from boot to the poll loop.

Step(from, to) == running /\ fpc = from /\ fpc' = to /\ UNCHANGED coreVars

FwCmd(from, to) ==
    /\ Step(from, to)
    /\ cmd' = FALSE
    /\ UNCHANGED <<cnt20, cnt21, running, status, logVars, localVars, polls>>

\* the log area is cleared
FwClearLog ==
    /\ Step("b_log", "b_started")
    /\ callCount' = 0 /\ totals' = 0 /\ records' = <<>>
    /\ UNCHANGED <<cnt20, cnt21, running, status, cmd, localVars, polls>>

FwStatus(from, to, value) ==
    /\ Step(from, to)
    /\ status' = value
    /\ UNCHANGED <<cnt20, cnt21, running, cmd, logVars, localVars, polls>>

FwWait ==
    /\ cmd
    /\ Step("b_wait", "b_clear")
    /\ UNCHANGED <<cnt20, cnt21, running, status, cmd, logVars, localVars, polls>>

FwZero20 ==
    /\ Step("b_zero20", "b_zero21")
    /\ cnt20' = 0
    /\ UNCHANGED <<cnt21, running, status, cmd, logVars, localVars, polls>>

FwZero21 ==
    /\ Step("b_zero21", "read_entry")
    /\ cnt21' = 0
    /\ prevEntry' = 0 /\ prevExit' = 0 /\ mcycleEntry' = 0 /\ snap' = 0
    /\ UNCHANGED <<cnt20, running, status, cmd, logVars, curEntry, curExit, rec, polls>>

Boot ==
    \/ FwCmd("b_cmd", "b_log") \/ FwClearLog \/ FwStatus("b_started", "b_wait", "started")
    \/ FwWait \/ FwCmd("b_clear", "b_ready") \/ FwStatus("b_ready", "b_zero20", "all_sent")
    \/ FwZero20 \/ FwZero21

-----------------------------------------------------------------------------
\* The poll loop.

Poll(from, to) == Step(from, to) /\ UNCHANGED <<cnt20, cnt21, running, status, cmd>>

FwReadEntry ==
    /\ Poll("read_entry", "read_exit")
    /\ curEntry' = cnt20
    /\ polls' = IF polls = 2 THEN 2 ELSE polls + 1
    /\ UNCHANGED <<logVars, curExit, prevEntry, prevExit, mcycleEntry, snap, rec>>

\* The next step after the exit counter is read or the entry is processed.
Exit(exit) == IF exit # prevExit THEN "x_stamp" ELSE "read_entry"

FwReadExit ==
    /\ Poll("read_exit", IF curEntry # prevEntry THEN "e_stamp" ELSE Exit(cnt21))
    /\ curExit' = cnt21
    /\ UNCHANGED <<logVars, curEntry, prevEntry, prevExit, mcycleEntry, snap, rec, polls>>

FwEntryStamp_Mutation ==
    /\ Poll("e_stamp", "e_snap")
    /\ UNCHANGED <<logVars, localVars, polls>>

FwEntryStamp ==
    /\ Poll("e_stamp", "e_snap")
    /\ mcycleEntry' = now
    /\ UNCHANGED <<logVars, curEntry, curExit, prevEntry, prevExit, snap, rec, polls>>

FwEntrySnap_Mutation ==
    /\ Poll("e_snap", Exit(curExit))
    /\ prevEntry' = curEntry
    /\ UNCHANGED <<logVars, curEntry, curExit, prevExit, mcycleEntry, snap, rec, polls>>

FwEntrySnap ==
    /\ Poll("e_snap", Exit(curExit))
    /\ snap' = now
    /\ prevEntry' = curEntry
    /\ UNCHANGED <<logVars, curEntry, curExit, prevExit, mcycleEntry, rec, polls>>

FwExitStamp ==
    /\ Poll("x_stamp", "x_stat")
    /\ rec' = [rec EXCEPT !.cyc = <<mcycleEntry, now>>]
    /\ UNCHANGED <<logVars, curEntry, curExit, prevEntry, prevExit, mcycleEntry, snap, polls>>

FwExitStat ==
    /\ Poll("x_stat", "x_totals")
    /\ rec' = [rec EXCEPT !.stat = <<snap, now>>]
    /\ UNCHANGED <<logVars, curEntry, curExit, prevEntry, prevExit, mcycleEntry, snap, polls>>

Length(interval) == interval[2] - interval[1]

FwTotals_Mutation ==
    /\ Poll("x_totals", "x_record")
    /\ totals' = Length(rec.cyc)
    /\ UNCHANGED <<callCount, records, localVars, polls>>

FwTotals ==
    /\ Poll("x_totals", "x_record")
    /\ totals' = totals + Length(rec.cyc)
    /\ UNCHANGED <<callCount, records, localVars, polls>>

FwRecord_Mutation ==
    /\ Poll("x_record", "x_count")
    /\ records' = Append(records, rec)
    /\ UNCHANGED <<callCount, totals, localVars, polls>>

FwRecord ==
    /\ Poll("x_record", "x_count")
    /\ records' = IF callCount < MaxLogRecords THEN Append(records, rec) ELSE records
    /\ UNCHANGED <<callCount, totals, localVars, polls>>

FwCount_Mutation ==
    /\ Poll("x_count", "read_entry")
    /\ callCount' = callCount + 1
    /\ UNCHANGED <<totals, records, localVars, polls>>

FwCount ==
    /\ Poll("x_count", "read_entry")
    /\ callCount' = callCount + 1
    /\ prevExit' = curExit
    /\ UNCHANGED <<totals, records, curEntry, curExit, prevEntry, mcycleEntry, snap, rec, polls>>

PollLoop ==
    \/ FwReadEntry \/ FwReadExit \/ FwEntryStamp \/ FwEntrySnap \/ FwExitStamp
    \/ FwExitStat \/ FwTotals \/ FwRecord \/ FwCount

Firmware == Boot \/ PollLoop

-----------------------------------------------------------------------------
Next == Core \/ Firmware

Spec == Init /\ [][Next]_vars

\* Core 0 and the firmware keep executing.
FairSpec == Spec /\ WF_vars(Core) /\ WF_vars(Firmware)

-----------------------------------------------------------------------------
(***************************************************************************)
(* Properties                                                              *)
(***************************************************************************)
InPass == pc = "run" \/ pc \in {"halt_end", "read_count", "read_totals"}

\* The milestone counters are exact: from the moment core 0 has seen the
\* firmware ready, they hold the calls that have begun and ended in the pass.
CountersExact == InPass => cnt20 = entered /\ cnt21 = returned

\* The firmware never logs more calls than have ended.
LogNeverAhead == InPass => callCount <= returned

\* Record i measures call i: its cycles and its events run from a moment during
\* call i to a moment after it and before the next one.
Exact(interval, i) == interval = <<2 * i - 1, 2 * i>>
RecordsExact ==
    InPass => \A i \in DOMAIN records : Exact(records[i].cyc, i) /\ Exact(records[i].stat, i)

\* No stretch of time is charged to two calls: a record begins after the end of
\* the record before it.
RecordsDisjoint ==
    InPass => \A i \in 2 .. Len(records) : records[i - 1].cyc[2] <= records[i].cyc[1]

\* A call that lasts for an iteration or more is measured from its own entry: its
\* record does not begin after its end.
LongCallKeepsItsTime ==
    InPass => \A i \in DOMAIN records : records[i].cyc[1] < 2 * i

\* When the pass is over core 0 has read one logged call per call made.
EveryCallCounted == pc = "end" => result.count = Calls

\* What core 0 reports at the end is the whole pass: one logged call per call
\* made, and the total of the time in these calls.
ResultComplete == pc = "end" => result = [count |-> Calls, totals |-> Calls]

\* Every pass comes to its end.
PassesEnd == <>(pc = "end")
=============================================================================
