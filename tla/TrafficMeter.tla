---------------------------- MODULE TrafficMeter ----------------------------
(***************************************************************************)
(* Counters 4-19 of mempol and everybody who works on them: the hardware   *)
(* counts the accesses of the cores, the PMU firmware reads the four       *)
(* counters of a core, resets them, charges the core's token bucket and    *)
(* logs core 0, and core 0 resets and reads its own counters around every  *)
(* stage of its work.  Nobody synchronises these accesses: every read and  *)
(* every write of a counter is a step.                                     *)
(*                                                                         *)
(* MempolHandshake takes a core's traffic as one number and has the        *)
(* handshake; here the acknowledgement is any answer, and the widths of    *)
(* bucket, log and timer are those of the code with smaller numbers.       *)
(***************************************************************************)
EXTENDS Integers, Sequences

CONSTANTS
    NumCores,    \* NUM_POLICED_CORES
    Weight,      \* <<aLLCr, aLLCw, aMEMr, aMEMw>>
    Refill,      \* B * P
    W,           \* w
    HalfWord,    \* 2^31: an int32_t is in -HalfWord .. HalfWord - 1
    CountMax,    \* <<511, 511, 127, 127>>: what the log keeps of a counter
    HalfToken,   \* 2^29: the log keeps a token in -HalfToken .. HalfToken - 1
    MaxLog,      \* DSPM_LOG_MAX_ENTRIES
    HalfTimer,   \* 2^32: half of the 64-bit timer
    MaxTime,     \* bound: a stage ends by this time
    Iterations,  \* TOTAL_STAGE_ITERS
    Kinds,       \* bound: the kinds of access, <<group, core>>, the cores make
    MaxAccesses  \* bound: accesses in a run

\* LLC reads, LLC writes, memory reads, memory writes
Groups == 1 .. 4
Cores == 0 .. NumCores - 1
Counters == Groups \X Cores

Cap == W * Refill

ASSUME MeterAssumption ==
    /\ NumCores \in Nat \ {0}
    /\ Weight \in [Groups -> Nat] /\ CountMax \in [Groups -> Nat]
    /\ Refill \in Nat \ {0} /\ W \in Nat \ {0}
    /\ HalfWord \in Nat /\ Cap + Refill < HalfWord
    /\ HalfToken \in Nat /\ 0 < HalfToken /\ HalfToken <= HalfWord
    /\ MaxLog \in Nat
    /\ HalfTimer \in Nat \ {0} /\ MaxTime \in Nat
    /\ Iterations \in Nat \ {0}
    /\ Kinds \subseteq Counters /\ MaxAccesses \in Nat

VARIABLES
    cnt,         \* counters 4-19, by group and core
    fpc,         \* next step of the firmware's poll loop
    group,       \* the group this step is for
    idx,         \* the core this step is for
    snap,        \* llc_rd, llc_wr, mem_rd, mem_wr
    saved,       \* log_llc_rd_0 ... log_mem_wr_0
    decision,    \* log_decision_0
    token,       \* token[]
    throttled,   \* counters 28-31
    logged,      \* the firmware's log_count
    logCount,    \* the word at DSPM_LOG_BASE
    logMem,      \* the log records behind it
    spc,         \* next step of core 0's stage
    sg,          \* the group this step is for
    stage,       \* global_iter
    buf,         \* buf_llcrd ... buf_memwr of this iteration
    cyc          \* buf_cyc of this iteration

\* What happened, for the properties
VARIABLES
    caused,      \* accesses of a core
    charged,     \* accesses charged to a core's bucket
    since,       \* core 0's accesses since its own reset of the counter
    truth,       \* the bucket in unbounded integers, as long as
    sane,        \* it has always fitted an int32_t
    polled,      \* what the firmware did for core 0 in every logged iteration
    elapsed,     \* the real length of the stage's work
    made         \* accesses so far

firmwareVars == <<fpc, group, idx, snap, saved, decision, token, throttled>>
logVars == <<logged, logCount, logMem>>
stageVars == <<spc, sg, stage, buf, cyc>>
fwHistory == <<charged, truth, sane, polled>>
vars == <<cnt, firmwareVars, logVars, stageVars, caused, fwHistory, since,
          elapsed, made>>

NoCounts == [g \in Groups |-> 0]
Decisions == {"none", "pause", "resume"}
Blank == [counts |-> NoCounts, decision |-> "none", token |-> 0]
FirmwareSteps == {"read", "reset", "charge", "log_counts", "log_token",
                  "log_count"}
Record == [counts : [Groups -> Nat], decision : Decisions, token : Int]

TypeOK ==
    /\ cnt \in [Counters -> Nat]
    /\ fpc \in FirmwareSteps /\ group \in Groups /\ idx \in Cores
    /\ snap \in [Groups -> Nat] /\ saved \in [Groups -> Nat]
    /\ decision \in Decisions
    /\ token \in [Cores -> -HalfWord .. HalfWord - 1]
    /\ throttled \in [Cores -> BOOLEAN]
    /\ logged \in 0 .. MaxLog /\ logCount \in 0 .. MaxLog
    /\ fpc \in {"log_token", "log_count"} => logged < MaxLog
    /\ logMem \in [1 .. MaxLog -> Record]
    /\ spc \in {"reset", "work", "report", "halted"}
    /\ sg \in 1 .. 5 /\ (spc # "report" => sg \in Groups)
    /\ stage \in 0 .. Iterations /\ (spc # "halted" => stage < Iterations)
    /\ buf \in [Groups -> Nat] /\ cyc \in 0 .. HalfTimer - 1
    /\ caused \in [Counters -> Nat] /\ charged \in [Counters -> Nat]
    /\ since \in [Groups -> Nat]
    /\ truth \in [Cores -> Int] /\ sane \in [Cores -> BOOLEAN]
    /\ polled \in Seq(Record)
    /\ elapsed \in Nat /\ made \in 0 .. MaxAccesses

\* The firmware has been triggered; the log area holds what was there before.
Init ==
    /\ cnt = [k \in Counters |-> 0]
    /\ fpc = "read" /\ group = 1 /\ idx = 0
    /\ snap = NoCounts /\ saved = NoCounts /\ decision = "none"
    /\ token = [c \in Cores |-> 0]
    /\ throttled = [c \in Cores |-> FALSE]
    /\ logged = 0 /\ logCount = 0 /\ logMem = [i \in 1 .. MaxLog |-> Blank]
    /\ spc = "reset" /\ sg = 1 /\ stage = 0 /\ buf = NoCounts /\ cyc = 0
    /\ caused = [k \in Counters |-> 0] /\ charged = [k \in Counters |-> 0]
    /\ since = NoCounts
    /\ truth = [c \in Cores |-> 0] /\ sane = [c \in Cores |-> TRUE]
    /\ polled = <<>> /\ elapsed = 0 /\ made = 0

-----------------------------------------------------------------------------
\* The core whose accesses the event selector of a counter lets through:
\* MEM_WR_REQ_CORE_1 has the value of MEM_WR_REQ_CORE_2.
Selected(g, c) == IF g = 4 /\ c = 1 THEN 2 ELSE c

\* Core c makes an access of kind g; every counter that selects it counts it.
Access(g, c) ==
    /\ spc # "halted"
    /\ made < MaxAccesses
    /\ made' = made + 1
    /\ caused' = [caused EXCEPT ![<<g, c>>] = @ + 1]
    /\ cnt' = [k \in Counters |->
                  IF k[1] = g /\ Selected(g, k[2]) = c THEN cnt[k] + 1 ELSE cnt[k]]
    /\ since' = IF c = 0 THEN [since EXCEPT ![g] = @ + 1] ELSE since
    /\ UNCHANGED <<firmwareVars, logVars, stageVars, fwHistory, elapsed>>

-----------------------------------------------------------------------------
\* The poll loop. Four reads, four resets, then the bucket.

\* the next group of the step, or the first group of the step that follows
NextGroup(following) ==
    /\ group' = IF group = 4 THEN 1 ELSE group + 1
    /\ fpc' = IF group = 4 THEN following ELSE fpc

FwRead ==
    /\ fpc = "read"
    /\ snap' = [snap EXCEPT ![group] = cnt[<<group, idx>>]]
    /\ saved' = IF idx = 0 /\ group = 4 THEN snap' ELSE saved
    /\ NextGroup("reset")
    /\ UNCHANGED <<cnt, idx, decision, token, throttled, logVars, stageVars,
                   caused, fwHistory, since, elapsed, made>>

FwReset_Mutation ==
    /\ fpc = "reset"
    /\ cnt' = IF group = 4 THEN cnt ELSE [cnt EXCEPT ![<<group, idx>>] = 0]
    /\ NextGroup("charge")
    /\ UNCHANGED <<idx, snap, saved, decision, token, throttled, logVars,
                   stageVars, caused, fwHistory, since, elapsed, made>>

FwReset ==
    /\ fpc = "reset"
    /\ cnt' = [cnt EXCEPT ![<<group, idx>>] = 0]
    /\ NextGroup("charge")
    /\ UNCHANGED <<idx, snap, saved, decision, token, throttled, logVars,
                   stageVars, caused, fwHistory, since, elapsed, made>>

\* aLLCr * llc_rd + aLLCw * llc_wr + aMEMr * mem_rd + aMEMw * mem_wr
Traffic(counts) == Weight[1] * counts[1] + Weight[2] * counts[2]
                     + Weight[3] * counts[3] + Weight[4] * counts[4]

\* the int32_t with the low bits of n
Signed(n) == ((n + HalfWord) % (2 * HalfWord)) - HalfWord

Capped_Mutation(t) == IF t < 0 \/ t > Cap THEN Cap ELSE t
Capped(t) == IF t > Cap THEN Cap ELSE t

\* V and token[idx] += B * P - V, in 32 bits each
Bucket(t, v) == Capped(Signed(t + Refill - Signed(v)))

\* What the acknowledgement, the bucket and counter 28 + c make the firmware do.
Decided(acked, t, isThrottled) ==
    IF acked /\ t < 0 /\ ~isThrottled THEN "pause"
    ELSE IF acked /\ t >= 0 /\ isThrottled THEN "resume"
    ELSE "none"

FwCharge ==
    /\ fpc = "charge"
    /\ \E acked \in BOOLEAN :
          LET t == Bucket(token[idx], Traffic(snap))
              d == Decided(acked, t, throttled[idx])
              exact == truth[idx] + Refill - Traffic(snap)
          IN  /\ token' = [token EXCEPT ![idx] = t]
              /\ throttled' = IF d = "none" THEN throttled
                              ELSE [throttled EXCEPT ![idx] = (d = "pause")]
              /\ decision' = IF idx = 0 THEN d ELSE decision
              /\ sane' = [sane EXCEPT ![idx] = @ /\ exact >= -HalfWord]
              /\ truth' = [truth EXCEPT ![idx] =
                              IF ~sane'[idx] THEN 0
                              ELSE IF exact > Cap THEN Cap ELSE exact]
              /\ polled' = IF idx = 0 /\ logged < MaxLog
                           THEN Append(polled, [counts |-> snap, decision |-> d,
                                                token |-> t])
                           ELSE polled
    /\ charged' = [k \in Counters |->
                      IF k[2] = idx THEN charged[k] + snap[k[1]] ELSE charged[k]]
    /\ snap' = NoCounts    \* not used again
    /\ idx' = IF idx = NumCores - 1 THEN 0 ELSE idx + 1
    /\ fpc' = IF idx < NumCores - 1 THEN "read" ELSE "log_counts"
    /\ UNCHANGED <<cnt, group, saved, logVars, stageVars, caused, since, elapsed, made>>

\* The log record: two words, then the count. log_decision_0 is cleared at the
\* top of the next iteration.
Saturated(counts) == [g \in Groups |-> IF counts[g] > CountMax[g] THEN CountMax[g]
                                       ELSE counts[g]]
Kept(t) == t % (2 * HalfToken)

FwLogCounts_Mutation ==
    /\ fpc = "log_counts"
    /\ logMem' = [logMem EXCEPT ![logged + 1].counts = Saturated(saved)]
    /\ logCount' = logged + 1
    /\ fpc' = "log_token"
    /\ UNCHANGED <<cnt, group, idx, snap, saved, decision, token, throttled, logged,
                   stageVars, caused, fwHistory, since, elapsed, made>>

FwLogCounts ==
    /\ fpc = "log_counts"
    /\ IF logged < MaxLog
       THEN /\ logMem' = [logMem EXCEPT ![logged + 1].counts = Saturated(saved)]
            /\ fpc' = "log_token"
            /\ UNCHANGED decision
       ELSE /\ fpc' = "read" /\ decision' = "none"
            /\ UNCHANGED logMem
    /\ UNCHANGED <<cnt, group, idx, snap, saved, token, throttled, logged, logCount,
                   stageVars, caused, fwHistory, since, elapsed, made>>

FwLogToken ==
    /\ fpc = "log_token"
    /\ logMem' = [logMem EXCEPT ![logged + 1] =
                     [counts |-> @.counts, decision |-> decision,
                      token |-> Kept(token[0])]]
    /\ fpc' = "log_count"
    /\ UNCHANGED <<cnt, group, idx, snap, saved, decision, token, throttled,
                   logged, logCount, stageVars, caused, fwHistory, since,
                   elapsed, made>>

FwLogCount ==
    /\ fpc = "log_count"
    /\ logged' = logged + 1
    /\ logCount' = logged + 1
    /\ fpc' = "read" /\ decision' = "none"
    /\ UNCHANGED <<cnt, group, idx, snap, saved, token, throttled, logMem,
                   stageVars, caused, fwHistory, since, elapsed, made>>

Firmware ==
    /\ spc # "halted"    \* PMC_STATUS
    /\ FwRead \/ FwReset \/ FwCharge \/ FwLogCounts \/ FwLogToken \/ FwLogCount

-----------------------------------------------------------------------------
\* An iteration of core 0's stages: reset_counters(0), timer, work, timer, and
\* the four reads into the buffers.

StageReset_Mutation ==
    /\ spc = "reset"
    /\ cnt' = [k \in Counters |-> IF k[1] = sg THEN 0 ELSE cnt[k]]
    /\ since' = [since EXCEPT ![sg] = 0]
    /\ sg' = IF sg = 4 THEN 1 ELSE sg + 1
    /\ spc' = IF sg = 4 THEN "work" ELSE "reset"
    /\ UNCHANGED <<firmwareVars, logVars, stage, buf, cyc, caused, fwHistory,
                   elapsed, made>>

StageReset ==
    /\ spc = "reset"
    /\ cnt' = [cnt EXCEPT ![<<sg, 0>>] = 0]
    /\ since' = [since EXCEPT ![sg] = 0]
    /\ sg' = IF sg = 4 THEN 1 ELSE sg + 1
    /\ spc' = IF sg = 4 THEN "work" ELSE "reset"
    /\ UNCHANGED <<firmwareVars, logVars, stage, buf, cyc, caused, fwHistory,
                   elapsed, made>>

\* read_pmu_timer: the low half is read first, the high half at a later time.
PmuTimer(low, high) == (high \div HalfTimer) * HalfTimer + (low % HalfTimer)

\* (uint32_t)(t1 - t0)
Cycles_Mutation(t0, t1) == IF t1 < t0 THEN 0 ELSE t1 - t0
Cycles(t0, t1) == (t1 - t0) % HalfTimer

\* The work is done: it began and ended at the times of the low reads.
StageWorked ==
    /\ spc = "work"
    /\ \E began, beganHigh, ended, endedHigh \in 0 .. MaxTime :
          /\ began <= beganHigh /\ beganHigh <= ended /\ ended <= endedHigh
          /\ elapsed' = ended - began
          /\ cyc' = Cycles(PmuTimer(began, beganHigh), PmuTimer(ended, endedHigh))
    /\ spc' = "report"
    /\ UNCHANGED <<cnt, firmwareVars, logVars, sg, stage, buf, caused, fwHistory,
                   since, made>>

\* the counters of core 1 (cnt 5, 9, 13, 17)
StageReport_Mutation ==
    /\ spc = "report" /\ sg \in Groups
    /\ buf' = [buf EXCEPT ![sg] = cnt[<<sg, 1>>]]
    /\ sg' = sg + 1
    /\ UNCHANGED <<cnt, firmwareVars, logVars, spc, stage, cyc, caused, fwHistory,
                   since, elapsed, made>>

StageReport ==
    /\ spc = "report" /\ sg \in Groups
    /\ buf' = [buf EXCEPT ![sg] = cnt[<<sg, 0>>]]
    /\ sg' = sg + 1
    /\ UNCHANGED <<cnt, firmwareVars, logVars, spc, stage, cyc, caused, fwHistory,
                   since, elapsed, made>>

\* global_iter++; after the last iteration core 0 halts the PMU.
StageEnd ==
    /\ spc = "report" /\ sg = 5
    /\ stage' = stage + 1
    /\ sg' = 1
    /\ spc' = IF stage' < Iterations THEN "reset" ELSE "halted"
    /\ UNCHANGED <<cnt, firmwareVars, logVars, buf, cyc, caused, fwHistory, since,
                   elapsed, made>>

Stage == StageReset \/ StageWorked \/ StageReport \/ StageEnd

-----------------------------------------------------------------------------
Next == Firmware \/ Stage \/ \E k \in Kinds : Access(k[1], k[2])

Spec == Init /\ [][Next]_vars

-----------------------------------------------------------------------------
(***************************************************************************)
(* Properties                                                              *)
(***************************************************************************)
\* The firmware holds counter g of core c in its snapshot, not charged yet,
Seen(g, c) == idx = c /\ (fpc \in {"reset", "charge"} \/ (fpc = "read" /\ g < group))
\* and has reset the counter since.
Cleared(g, c) == fpc = "charge" \/ (fpc = "reset" /\ g < group)

\* The accesses of a counter that are charged, about to be, or still counted.
Accounted(g, c) ==
    charged[<<g, c>>] + (IF Seen(g, c) THEN snap[g] ELSE 0)
                      + (IF Seen(g, c) /\ ~Cleared(g, c) THEN 0 ELSE cnt[<<g, c>>])

CausedFor(g, c) == IF Selected(g, c) \in Cores THEN caused[<<g, Selected(g, c)>>] ELSE 0

\* No access is charged twice, and none that was not made: what is charged to a
\* core's bucket, held in the firmware's snapshot and still in the counter never
\* exceeds the accesses of the core the counter selects, wherever the accesses
\* and core 0's own resets fall between the firmware's reads and resets.
ChargedOnce ==
    \A g \in Groups, c \in Cores : Accounted(g, c) <= CausedFor(g, c)

\* A worker escapes the charge only by what it does between the read and the
\* reset of that counter: main.c's "Reset performance counters immediately after
\* read" loses nothing else, and core 0's reset_counters(0) touches no worker.
LossOnlyInWindow ==
    [][\A g \in Groups, c \in Cores \ {0} :
          CausedFor(g, c) - Accounted(g, c) # (CausedFor(g, c) - Accounted(g, c))'
             => Seen(g, c) /\ ~Cleared(g, c)]_vars

\* The buffers of a stage iteration never report an access from before it, though
\* the firmware resets the same counters: they can only report too few.
StageNeverOverReports ==
    spc = "report" => \A g \in Groups : g < sg => buf[g] <= since[g]

\* The cycles of an iteration are exact although either timer read may be torn by
\* a carry between its halves, as long as the work took less than 2^32 cycles.
ElapsedExact ==
    spc = "report" /\ elapsed < HalfTimer => cyc = elapsed

\* The token bucket is exact as long as it has always fitted an int32_t, also in
\* the iterations in which V alone did not.
BucketExact == \A c \in Cores : sane[c] => token[c] = truth[c]

\* What core 0's dump unpacks from a log record
Printed(i) ==
    [logMem[i] EXCEPT !.token = IF @ >= HalfToken THEN @ - 2 * HalfToken ELSE @]

\* Whenever core 0 halts the PMU, every entry of the dump is what the firmware
\* did in that iteration: its decision, its counts up to saturation, its token
\* where 30 bits hold it; no entry is half written or left from before.
LogTruthful ==
    \A i \in 1 .. logCount :
        /\ i <= Len(polled)
        /\ Printed(i).decision = polled[i].decision
        /\ \A g \in Groups :
              /\ Printed(i).counts[g] <= polled[i].counts[g]
              /\ polled[i].counts[g] <= CountMax[g]
                    => Printed(i).counts[g] = polled[i].counts[g]
        /\ polled[i].token \in -HalfToken .. HalfToken - 1
              => Printed(i).token = polled[i].token

\* pmu_defines.h: "Read and write requests of Core X to Main Memory from LLC". No
\* core is charged for more accesses of a kind than it makes.
ChargedForOwn == \A k \in Counters : charged[k] <= caused[k]
=============================================================================
