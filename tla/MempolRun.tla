----------------------------- MODULE MempolRun -----------------------------
(***************************************************************************)
(* A whole run of mempol: core 0 loads and starts the firmware, the cores  *)
(* set their interrupts up, core 0 starts the policing, works, halts the   *)
(* PMU, resumes parked cores and waits for them to finish.                 *)
(*                                                                         *)
(* The policing itself, firmware poll loop and trap handlers, is the one   *)
(* of MempolHandshake: at[c] ranges over the labels of main(), so a core   *)
(* can be interrupted, parked and resumed at every point of the run.       *)
(***************************************************************************)
EXTENDS Integers

CONSTANTS
    NumCores, Refill, W, Costs, MaxTraffic, MaxOverdraft, MaxCount,
    StartPolls,  \* reads of the status before core 0 gives the PMU up
    ReadyPolls,  \* reads of a ready flag before core 0 goes on without the core
    DonePolls,   \* reads of a done flag before core 0 goes on without the core
    Timely       \* the values timely can have

ASSUME RunAssumption ==
    /\ NumCores \in Nat \ {0}
    /\ Refill \in Nat \ {0} /\ W \in Nat \ {0}
    /\ Costs \subseteq Nat
    /\ MaxTraffic \in Nat /\ MaxOverdraft \in Nat /\ MaxCount \in Nat
    /\ StartPolls \in Nat /\ ReadyPolls \in Nat /\ DonePolls \in Nat
    /\ Timely \subseteq BOOLEAN

\* Where core 0 is in main().
MainLabels == {"init", "halt_pmu", "clear_dspm", "start_pmu", "wait_started",
               "hung", "signal", "wait_ready", "counters", "go", "trigger",
               "stages", "halt_end", "scan", "resume", "wait_done", "end"}
\* Where core 1, 2 or 3 is in main().
WorkerLabels == {"wait_stale", "wait_fresh", "flag", "wait_go", "work",
                 "mie_off", "clear", "drain", "done", "idle"}
\* Where a core is in setup_core_interrupt.
SetupLabels == {"s_clear", "s_drain1", "s_enable", "s_ack", "s_drain2", "s_mie"}
Labels == MainLabels \cup WorkerLabels \cup SetupLabels

VARIABLES
    word, traffic, throttled, sent, pending, at, hpc, counterVal, saved,
    paused, received, fpc, idx, fwV, token,
    latch,       \* the hardware overflow latch of counters 0-3
    pmu,         \* PMC_STATUS: "halted" or "running"
    cmd,         \* DSPM_CMD is CMD_TRIGGER_INTERRUPT
    started,     \* DSPM_STATUS is STATUS_STARTED
    coresReady,  \* DSPM_CORES_READY is 0xCAFE0001
    ready,       \* the ready words of cores 1-3 in the DSPM
    go,          \* g_interference_go
    coreDone,    \* g_core_done
    mie,         \* are external interrupts enabled on core c
    left,        \* the timeout of core 0's current wait loop
    k,           \* core 0's loop variable "core"
    timely       \* in this run the cores wait before core 0 signals, and answer in time

H == INSTANCE MempolHandshake WITH
        Positions <- Labels, Wfi <- "wfi_loop", Zero <- "null",
        Spurious <- FALSE, Lossy <- FALSE

Cores == 0 .. NumCores - 1
Workers == 1 .. NumCores - 1

dspm == <<cmd, started, coresReady, ready>>
runVars == <<latch, pmu, dspm, go, coreDone, mie, left, k>>
handlerVars == <<hpc, counterVal, saved, paused, received>>
firmwareVars == <<fpc, idx, fwV, token, throttled, sent>>
\* What steps change; timely is fixed for a run.
vars == <<word, traffic, pending, at, handlerVars, firmwareVars, runVars>>
allVars == <<vars, timely>>

BootSteps == {"b_cmd", "b_latch", "b_started", "b_wait", "b_clear", "b_ack"}

Typed ==
    /\ word \in [Cores -> H!Words]
    /\ traffic \in [Cores -> 0 .. MaxTraffic]
    /\ throttled \in [Cores -> BOOLEAN]
    /\ pending \in [Cores -> BOOLEAN]
    /\ at \in [Cores -> Labels \cup {"wfi_loop", "null"}]
    /\ hpc \in [Cores -> H!HandlerSteps]
    /\ counterVal \in [Cores -> H!Words]
    /\ saved \in [Cores -> Labels \cup {"wfi_loop", "null"}]
    /\ sent \in [Cores -> 0 .. MaxCount] /\ received \in [Cores -> 0 .. MaxCount]
    /\ fwV \in 0 .. MaxTraffic /\ token \in [Cores -> Int]
    /\ left \in Nat
    /\ paused \in [Cores -> BOOLEAN]
    /\ fpc \in H!FirmwareSteps \cup BootSteps
    /\ idx \in Cores /\ k \in Nat \ {0}
    /\ latch \in [Cores -> BOOLEAN]
    /\ pmu \in {"halted", "running"}
    /\ {cmd, started, coresReady, go} \subseteq BOOLEAN
    /\ ready \in [Workers -> BOOLEAN]
    /\ coreDone \in [Cores -> BOOLEAN]
    /\ mie \in [Cores -> BOOLEAN]
    /\ timely \in Timely

TypeOK == Typed /\ k <= NumCores

-----------------------------------------------------------------------------
\* What a run finds. The hardware counters, the PLIC, the DSPM and memory that
\* the loader does not write keep what they had; the harts come out of reset.
InitWith(w, t, p, l, r, g) ==
    /\ word = w /\ throttled = t /\ pending = p /\ latch = l
    /\ coresReady = r /\ go = g
    /\ traffic = [c \in Cores |-> 0]
    /\ sent = [c \in Cores |-> 0]
    /\ at = [c \in Cores |-> IF c = 0 THEN "init" ELSE "wait_stale"]
    /\ hpc = [c \in Cores |-> "none"]
    /\ counterVal = [c \in Cores |-> "zero"]
    /\ saved = [c \in Cores |-> "null"]
    /\ paused = [c \in Cores |-> FALSE]
    /\ received = [c \in Cores |-> 0]
    /\ fpc = "b_cmd" /\ idx = 0 /\ fwV = 0
    /\ token = [c \in Cores |-> 0]
    /\ pmu = "halted" /\ cmd = FALSE /\ started = FALSE
    /\ ready = [c \in Workers |-> FALSE]
    /\ coreDone = [c \in Cores |-> FALSE]
    /\ mie = [c \in Cores |-> FALSE]
    /\ left = 0 /\ k = 1
    /\ timely \in Timely

AllFalse == [c \in Cores |-> FALSE]
Flags == [Cores -> BOOLEAN]

\* after power-on
Init == InitWith([c \in Cores |-> "zero"], AllFalse, AllFalse, AllFalse, FALSE, FALSE)

\* after an earlier run, which left its commands, interrupts and overflows, its
\* ready signal and g_interference_go behind, but not its throttle state
LeftoverInit ==
    \E w \in [Cores -> H!Words], p \in Flags, l \in Flags, r \in BOOLEAN, g \in BOOLEAN :
        InitWith(w, AllFalse, p, l, r, g)

\* after an earlier run, which left its throttle state
RerunInit ==
    \E t \in Flags : InitWith([c \in Cores |-> "zero"], t, AllFalse, AllFalse, TRUE, FALSE)

-----------------------------------------------------------------------------
\* Definitions named X_Mutation are what a plausible bug would make of X; no
\* specification uses them.

\* A step of core c's main(), from one label to the next.
Go(c, from, to) ==
    /\ at[c] = from /\ hpc[c] = "none"
    /\ at' = [at EXCEPT ![c] = to]
    /\ UNCHANGED <<handlerVars, firmwareVars>>

\* setup_core_interrupt

SetupClear(c) ==       \* the word is cleared, the overflow latch is not
    /\ Go(c, "s_clear", "s_drain1")
    /\ word' = [word EXCEPT ![c] = "zero"]
    /\ UNCHANGED <<traffic, pending, runVars>>

SetupDrain_Mutation(c, from, to) ==
    /\ Go(c, from, to)
    /\ UNCHANGED <<word, traffic, pending, runVars>>

SetupDrain(c, from, to) ==  \* claim and complete until the PLIC has nothing
    /\ Go(c, from, to)
    /\ pending' = [pending EXCEPT ![c] = FALSE]
    /\ UNCHANGED <<word, traffic, runVars>>

SetupEnable(c) ==      \* OVERFLOW_EN: a latched overflow may trigger again
    /\ Go(c, "s_enable", "s_ack")
    /\ \E again \in {FALSE, latch[c]} : pending' = [pending EXCEPT ![c] = @ \/ again]
    /\ UNCHANGED <<word, traffic, runVars>>

SetupAck(c) ==
    /\ Go(c, "s_ack", "s_drain2")
    /\ word' = [word EXCEPT ![c] = "ack"]
    /\ UNCHANGED <<traffic, pending, runVars>>

SetupMie(c) ==
    /\ Go(c, "s_mie", IF c = 0 THEN "signal" ELSE "flag")
    /\ mie' = [mie EXCEPT ![c] = TRUE]
    /\ UNCHANGED <<word, traffic, pending, latch, pmu, dspm, go, coreDone, left, k>>

Setup(c) ==
    \/ SetupClear(c) \/ SetupDrain(c, "s_drain1", "s_enable") \/ SetupEnable(c)
    \/ SetupAck(c) \/ SetupDrain(c, "s_drain2", "s_mie") \/ SetupMie(c)

-----------------------------------------------------------------------------
\* main() on core 0: start

\* the globals, except g_interference_go
MainInit ==
    /\ at[0] = "init"
    /\ at' = [at EXCEPT ![0] = "halt_pmu"]
    /\ paused' = AllFalse /\ coreDone' = AllFalse
    /\ saved' = [c \in Cores |-> "null"]
    /\ received' = [c \in Cores |-> 0]
    /\ UNCHANGED <<word, traffic, pending, hpc, counterVal, firmwareVars,
                   latch, pmu, dspm, go, mie, left, k>>

SetPmu(from, to, state) ==
    /\ Go(0, from, to)
    /\ pmu' = state
    /\ UNCHANGED <<word, traffic, pending, latch, dspm, go, coreDone, mie, left, k>>

MainClearDspm ==
    /\ Go(0, "clear_dspm", "start_pmu")
    /\ cmd' = FALSE /\ started' = FALSE /\ coresReady' = FALSE
    /\ ready' = [c \in Workers |-> FALSE]
    /\ UNCHANGED <<word, traffic, pending, latch, pmu, go, coreDone, mie, left, k>>

\* the copied image restarts the firmware with fresh buckets
MainStartPmu ==
    /\ at[0] = "start_pmu"
    /\ at' = [at EXCEPT ![0] = "wait_started"]
    /\ pmu' = "running" /\ left' = StartPolls
    /\ fpc' = "b_cmd" /\ idx' = 0 /\ fwV' = 0 /\ token' = [c \in Cores |-> 0]
    /\ UNCHANGED <<word, traffic, pending, handlerVars, throttled, sent,
                   latch, dspm, go, coreDone, mie, k>>

\* while (status != STARTED && timeout > 0) timeout--; if (timeout == 0) hang
MainWaitStarted ==
    /\ UNCHANGED <<word, traffic, pending, latch, pmu, dspm, go, coreDone, mie, k>>
    /\ \/ /\ ~started /\ left > 0 /\ ~timely
          /\ Go(0, "wait_started", "wait_started")
          /\ left' = left - 1
       \/ /\ started \/ (left = 0 /\ ~timely)
          /\ Go(0, "wait_started", IF left = 0 THEN "hung" ELSE "s_clear")
          /\ left' = left

MainSignal_Mutation ==
    /\ timely => \A c \in Workers : at[c] = "wait_fresh"
    /\ Go(0, "signal", "wait_ready")
    /\ coresReady' = TRUE
    /\ left' = ReadyPolls /\ k' = 0
    /\ UNCHANGED <<word, traffic, pending, latch, pmu, cmd, started, ready, go,
                   coreDone, mie>>

MainSignal ==
    /\ timely => \A c \in Workers : at[c] = "wait_fresh"
    /\ Go(0, "signal", "wait_ready")
    /\ coresReady' = TRUE
    /\ left' = ReadyPolls /\ k' = 1
    /\ UNCHANGED <<word, traffic, pending, latch, pmu, cmd, started, ready, go,
                   coreDone, mie>>

\* One wait loop per core; a core that does not answer in time gets a warning.
WaitLoop(flag, from, to, polls) ==
    /\ UNCHANGED <<word, traffic, pending, latch, pmu, dspm, go, coreDone, mie>>
    /\ \/ /\ k < NumCores /\ ~flag[k] /\ left > 0 /\ ~timely
          /\ Go(0, from, from)
          /\ left' = left - 1 /\ k' = k
       \/ /\ k < NumCores
          /\ flag[k] \/ (left = 0 /\ ~timely)
          /\ Go(0, from, from)
          /\ left' = polls /\ k' = k + 1
       \/ /\ k = NumCores
          /\ Go(0, from, to)
          /\ left' = polls /\ k' = 1

MainWaitReady_Mutation ==
    /\ Go(0, "wait_ready", "counters")
    /\ UNCHANGED <<word, traffic, pending, runVars>>

MainWaitReady == WaitLoop(ready, "wait_ready", "counters", ReadyPolls)

\* counters 4-19 are configured, caches primed, counters reset
MainCounters ==
    /\ Go(0, "counters", "go")
    /\ traffic' = [c \in Cores |-> 0]
    /\ UNCHANGED <<word, pending, runVars>>

MainGo ==
    /\ Go(0, "go", "trigger")
    /\ go' = TRUE
    /\ UNCHANGED <<word, traffic, pending, latch, pmu, dspm, coreDone, mie, left, k>>

MainTrigger ==
    /\ Go(0, "trigger", "stages")
    /\ cmd' = TRUE
    /\ UNCHANGED <<word, traffic, pending, latch, pmu, started, coresReady, ready,
                   go, coreDone, mie, left, k>>

-----------------------------------------------------------------------------
\* main() on core 0: the stages and the end

MainStage_Mutation ==
    /\ Go(0, "stages", "stages")
    /\ traffic' = [traffic EXCEPT ![0] = 0]
    /\ word' = [word EXCEPT ![0] = "zero"]
    /\ UNCHANGED <<pending, runVars>>

\* each iteration of a stage starts with reset_counters(0)
MainStage ==
    /\ Go(0, "stages", "stages")
    /\ traffic' = [traffic EXCEPT ![0] = 0]
    /\ UNCHANGED <<word, pending, runVars>>

MainFinish ==
    /\ Go(0, "stages", "halt_end")
    /\ coreDone' = [coreDone EXCEPT ![0] = TRUE]
    /\ k' = 1
    /\ UNCHANGED <<word, traffic, pending, latch, pmu, dspm, go, mie, left>>

\* if (g_paused[core]) ...
MainScan ==
    /\ UNCHANGED <<word, traffic, pending, latch, pmu, dspm, go, coreDone, mie>>
    /\ \/ /\ k < NumCores /\ paused[k]
          /\ Go(0, "scan", "resume")
          /\ UNCHANGED <<k, left>>
       \/ /\ k < NumCores /\ ~paused[k]
          /\ Go(0, "scan", "scan")
          /\ k' = k + 1 /\ left' = left
       \/ /\ k = NumCores
          /\ Go(0, "scan", "wait_done")
          /\ k' = 1 /\ left' = DonePolls

\* ... write_32b(core_counter_addr, 0x41000000)
MainResume ==
    /\ Go(0, "resume", "scan")
    /\ word' = [word EXCEPT ![k] = "resume"]
    /\ pending' = [pending EXCEPT ![k] = TRUE]
    /\ latch' = [latch EXCEPT ![k] = TRUE]
    /\ k' = k + 1
    /\ UNCHANGED <<traffic, pmu, dspm, go, coreDone, mie, left>>

MainWaitDone == WaitLoop(coreDone, "wait_done", "end", DonePolls)

Main ==
    \/ MainInit \/ SetPmu("halt_pmu", "clear_dspm", "halted") \/ MainClearDspm
    \/ MainStartPmu \/ MainWaitStarted \/ MainSignal \/ MainWaitReady
    \/ MainCounters \/ MainGo \/ MainTrigger \/ MainStage \/ MainFinish
    \/ SetPmu("halt_end", "scan", "halted") \/ MainScan \/ MainResume \/ MainWaitDone

-----------------------------------------------------------------------------
\* main() on cores 1-3

\* wait until flag holds
Await(c, flag, from, to) ==
    /\ flag
    /\ Go(c, from, to)
    /\ UNCHANGED <<word, traffic, pending, runVars>>

WorkerWaitGo(c) == Await(c, go, "wait_go", "work")

WorkerFlag_Mutation(c) ==
    /\ Go(c, "flag", "wait_go")
    /\ UNCHANGED <<word, traffic, pending, runVars>>

WorkerFlag(c) ==
    /\ Go(c, "flag", "wait_go")
    /\ ready' = [ready EXCEPT ![c] = TRUE]
    /\ UNCHANGED <<word, traffic, pending, latch, pmu, cmd, started, coresReady,
                   go, coreDone, mie, left, k>>

WorkerMieOff_Mutation(c) ==
    /\ Go(c, "mie_off", "clear")
    /\ UNCHANGED <<word, traffic, pending, runVars>>

WorkerMieOff(c) ==
    /\ Go(c, "mie_off", "clear")
    /\ mie' = [mie EXCEPT ![c] = FALSE]
    /\ UNCHANGED <<word, traffic, pending, latch, pmu, dspm, go, coreDone, left, k>>

WorkerClear(c) ==
    /\ Go(c, "clear", "drain")
    /\ word' = [word EXCEPT ![c] = "zero"]
    /\ UNCHANGED <<traffic, pending, runVars>>

WorkerDone_Mutation(c) ==
    /\ Go(c, "done", "idle")
    /\ UNCHANGED <<word, traffic, pending, runVars>>

WorkerDone(c) ==
    /\ Go(c, "done", "idle")
    /\ coreDone' = [coreDone EXCEPT ![c] = TRUE]
    /\ UNCHANGED <<word, traffic, pending, latch, pmu, dspm, go, mie, left, k>>

Worker(c) ==
    \/ Await(c, ~coresReady, "wait_stale", "wait_fresh")
    \/ Await(c, coresReady, "wait_fresh", "s_clear")
    \/ WorkerFlag(c)
    \/ WorkerWaitGo(c)
    \/ Await(c, coreDone[0], "work", "mie_off")
    \/ WorkerMieOff(c) \/ WorkerClear(c) \/ SetupDrain(c, "drain", "done")
    \/ WorkerDone(c)

\* Every core that executes its program causes traffic, and the counters that
\* MainCounters has just configured and reset count it.
Traffic(c) ==
    /\ go
    /\ UNCHANGED <<at, runVars>> /\ H!Work(c)

-----------------------------------------------------------------------------
\* The firmware, up to the poll loop, while the PMU is not halted.

Boot(from, to) ==
    /\ pmu = "running" /\ fpc = from /\ fpc' = to
    /\ UNCHANGED <<traffic, pending, at, handlerVars, fwV, token, throttled, sent,
                   pmu, coresReady, ready, go, coreDone, mie, left, k>>

BootCmd(from, to) ==   \* CMD_NONE
    /\ Boot(from, to)
    /\ cmd' = FALSE
    /\ UNCHANGED <<word, idx, latch, started>>

BootLatch ==           \* cnt_wr of zero clears words and overflow latches
    /\ Boot("b_latch", "b_started")
    /\ word' = [c \in Cores |-> "zero"]
    /\ latch' = AllFalse
    /\ UNCHANGED <<idx, cmd, started>>

BootStarted ==
    /\ Boot("b_started", "b_wait")
    /\ started' = TRUE
    /\ UNCHANGED <<word, idx, latch, cmd>>

BootWait ==
    /\ cmd
    /\ Boot("b_wait", "b_clear")
    /\ UNCHANGED <<word, idx, latch, cmd, started>>

BootAck ==             \* cnt_wr of CVA_ACK_MASK to counter idx
    /\ IF idx = NumCores - 1
       THEN Boot("b_ack", "read") /\ idx' = 0
       ELSE Boot("b_ack", "b_ack") /\ idx' = idx + 1
    /\ word' = [word EXCEPT ![idx] = "ack"]
    /\ latch' = [latch EXCEPT ![idx] = FALSE]
    /\ UNCHANGED <<cmd, started>>

\* A command is written with the overflow bit set.
Police ==
    /\ pmu = "running"
    /\ H!Firmware
    /\ latch' = IF fpc \in {"send_pause", "send_resume"}
                THEN [latch EXCEPT ![idx] = TRUE] ELSE latch
    /\ UNCHANGED <<pmu, dspm, go, coreDone, mie, left, k>>

Firmware ==
    \/ BootCmd("b_cmd", "b_latch") \/ BootLatch \/ BootStarted \/ BootWait
    \/ BootCmd("b_clear", "b_ack") \/ BootAck \/ Police

\* The trap handler, once interrupts are enabled.
Handler(c) ==
    /\ hpc[c] = "none" => mie[c]
    /\ H!Handler(c)
    /\ UNCHANGED runVars

-----------------------------------------------------------------------------
Core(c) == Setup(c) \/ Handler(c) \/ (c = 0 /\ Main) \/ (c # 0 /\ Worker(c))

Next ==
    /\ Firmware \/ \E c \in Cores : Core(c) \/ Traffic(c)
    /\ UNCHANGED timely

\* Every hart and the PMU keep executing; core 0 runs a bounded number of
\* stages; traffic need not happen.
Fairness ==
    /\ WF_vars(Firmware)
    /\ \A c \in Cores : WF_vars(Core(c))
    /\ WF_vars(MainFinish)

Spec == Init /\ [][Next]_allVars
FairSpec == Spec /\ Fairness
LeftoverSpec == LeftoverInit /\ [][Next]_allVars
RerunSpec == RerunInit /\ [][Next]_allVars

-----------------------------------------------------------------------------
(***************************************************************************)
(* Properties                                                              *)
(***************************************************************************)
Policing == pmu = "running" /\ fpc \in H!FirmwareSteps

\* The poll loop starts on a clean channel: when the firmware enters it, every
\* core has interrupts enabled, none pending, none in service, an acknowledged
\* word and no throttle state, whatever the start-up order of the harts was.
PolicingStartsClean ==
    [][timely /\ ~Policing /\ Policing' /\ ~coreDone[0] =>
        \A c \in Cores : /\ mie[c] /\ ~pending[c] /\ hpc[c] = "none"
                         /\ word'[c] = "ack" /\ ~paused[c] /\ ~throttled[c]]_vars

\* From there until core 0 has finished its stages the word, the throttle state
\* and the core's handler stay tied together as in the steady state: no step of
\* main() on any hart disturbs the handshake.
HandshakeKept == timely /\ Policing /\ ~coreDone[0] => H!HandshakeInv

\* From the first step of the poll loop until core 0 has finished, the whole run,
\* main() of every hart included, is what CoreThrottle promises: it begins with
\* every core running and no order under way, and each step is one of
\* CoreThrottle's or leaves it alone.
PolicingAsPromised ==
    [][timely /\ Policing' /\ ~coreDone'[0] =>
        IF Policing THEN H!Abs!Next \/ UNCHANGED H!Abs!vars ELSE H!Abs!Init']_vars

\* No trap handler runs before the firmware has entered its poll loop: whatever
\* command, pending interrupt, latched overflow or ready signal an earlier run
\* left behind is removed by boot and setup before interrupts are enabled.
NoStaleInterrupt == \A c \in Cores : hpc[c] # "none" => fpc \in H!FirmwareSteps

\* While core 0 runs its stages, a core is sent to its saved address only while
\* it is parked: it never jumps to an address saved by an earlier pause, or to 0.
ResumeOnlyParked ==
    ~coreDone[0] => \A c \in Cores :
        hpc[c] = "switch" /\ counterVal[c] = "resume" => paused[c]

\* A worker that has reported completion is inert: it is in no handler, takes no
\* interrupt and is never parked.
DoneIsInert ==
    \A c \in Workers : coreDone[c] /\ at[0] # "init" =>
        hpc[c] = "none" /\ ~mie[c] /\ at[c] = "idle" /\ ~paused[c]

\* The harts and the firmware never wait for each other in a circle: when none
\* of them can take a step, the run is over, with every worker finished, or the
\* PMU is halted and a core is left parked (the waits of main(), the scan that
\* resumes cores).
HangsOnlyParked ==
    timely /\ ~ENABLED (Firmware \/ \E c \in Cores : Core(c)) =>
        \/ at[0] = "end" /\ \A c \in Workers : coreDone[c]
        \/ pmu = "halted" /\ \E c \in Cores : paused[c]

\* With the PMU halted nothing stops core 0 any more: it comes to its last wait.
MainEnds == coreDone[0] ~> at[0] = "wait_done"

\* When core 0 has resumed the parked workers, every worker sees g_core_done and
\* finishes.
WorkersEnd == \A c \in Workers : at[0] = "wait_done" ~> coreDone[c]

\* Every worker gets core 0's ready signal and sets itself up.
SignalReachesWorkers == \A c \in Workers : timely /\ coresReady ~> ready[c]
=============================================================================
