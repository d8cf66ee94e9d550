--------------------------- MODULE MempolRun_proofs ---------------------------
(***************************************************************************)
(* Theorems about a whole run of mempol, for any number of cores, budget,  *)
(* traffic and timeout, from any state an earlier run may leave except its *)
(* throttle state. What needs the harts to be in time is stated for timely *)
(* runs; the rest holds for every run.                                     *)
(*                                                                         *)
(* The argument goes from the harts to the channel. Until the firmware     *)
(* polls, no core with its interrupts enabled has one pending (QuietInv),  *)
(* and core 0 is past the trigger when it does (MasterInv). A timely core  *)
(* 0 comes there only with every worker ready (StartInv), so the policing  *)
(* starts with the steady state's invariant, H!CoreInv, and until core 0   *)
(* has finished no step of main() touches what it speaks about.            *)
(***************************************************************************)
EXTENDS MempolRun, TLAPS

-----------------------------------------------------------------------------
\* Facts about the operators.

\* Core 0 is a core, the others are the workers.
LEMMA CoreSets == 0 \in Cores /\ Workers = Cores \ {0}
BY RunAssumption DEF Cores, Workers

\* The counts of interrupts stay in their range.
LEMMA IncType == \A n \in 0 .. MaxCount : H!Inc(n) \in 0 .. MaxCount
BY RunAssumption DEF H!Inc

\* A bucket stays an integer.
LEMMA ChargeType == \A t \in Int, v \in Nat : H!Charge(t, v) \in Int
<1>1. H!Cap \in Int
  BY RunAssumption DEF H!Cap
<1>2. QED
  BY <1>1, RunAssumption DEF H!Charge

\* The poll loop goes on to a core.
LEMMA NextIdx ==
  ASSUME idx \in Cores
  PROVE  (IF idx = NumCores - 1 THEN 0 ELSE idx + 1) \in Cores
BY RunAssumption DEF Cores

-----------------------------------------------------------------------------
\* A run after power-on is one that finds nothing of an earlier run.
LEMMA PowerOn == Spec => LeftoverSpec
<1>1. Init => LeftoverInit
  <2> SUFFICES ASSUME Init
               PROVE  \E w \in [Cores -> H!Words], p \in Flags, l \in Flags,
                         r \in BOOLEAN, g \in BOOLEAN : InitWith(w, AllFalse, p, l, r, g)
    BY DEF LeftoverInit
  <2> DEFINE zero == [c \in Cores |-> "zero"]
  <2>1. zero \in [Cores -> H!Words] /\ AllFalse \in Flags
    BY DEF H!Words, AllFalse, Flags
  <2>2. InitWith(zero, AllFalse, AllFalse, AllFalse, FALSE, FALSE)
    BY DEF Init
  <2> HIDE DEF zero
  <2>. QED
    BY <2>1, <2>2
<1>. QED
  BY <1>1 DEF Spec, LeftoverSpec

-----------------------------------------------------------------------------
\* Types.

\* Where a core can be.
Where == Labels \cup {"wfi_loop", "null"}

\* A step of main() takes core 0 from one label to another.
LEMMA MainMoves ==
  ASSUME Main
  PROVE  at[0] \in Labels /\ \E to \in Labels : at' = [at EXCEPT ![0] = to]
BY DEF Main, MainInit, SetPmu, MainClearDspm, MainStartPmu, MainWaitStarted, MainSignal,
       MainWaitReady, MainCounters, MainGo, MainTrigger, MainStage, MainFinish,
       MainScan, MainResume, MainWaitDone, WaitLoop, Go, Labels, MainLabels,
       WorkerLabels, SetupLabels

\* A step of a worker's main() or of setup_core_interrupt does the same for its core.
LEMMA WorkerMoves ==
  ASSUME NEW c \in Cores, Worker(c) \/ Setup(c)
  PROVE  at[c] \in Labels /\ \E to \in Labels : at' = [at EXCEPT ![c] = to]
BY DEF Worker, Setup, Await, WorkerFlag, WorkerWaitGo, WorkerMieOff, WorkerClear,
       WorkerDone, SetupDrain, SetupClear, SetupEnable, SetupAck, SetupMie, Go, Labels,
       MainLabels, WorkerLabels, SetupLabels

\* Core 0's main() keeps the types,
LEMMA MainTypes ==
  ASSUME Typed, Main, UNCHANGED timely
  PROVE  Typed'
<1> USE RunAssumption
    DEF Typed, Where, Go, handlerVars, firmwareVars, runVars, dspm
<1>1. at' \in [Cores -> Where]
  BY MainMoves, CoreSets
<1>2. CASE MainInit
  BY <1>1, <1>2
     DEF MainInit, AllFalse, Where, Labels, MainLabels, WorkerLabels, SetupLabels
<1>3. ASSUME NEW from, NEW to, NEW state \in {"halted", "running"}, SetPmu(from, to, state)
     PROVE  Typed'
  BY <1>1, <1>3 DEF SetPmu
<1>4. CASE MainClearDspm
  BY <1>1, <1>4 DEF MainClearDspm
<1>5. CASE MainStartPmu
  BY <1>1, <1>5 DEF MainStartPmu, BootSteps
<1>6. CASE MainWaitStarted
  BY <1>1, <1>6 DEF MainWaitStarted
<1>7. CASE MainSignal
  BY <1>1, <1>7 DEF MainSignal
<1>8. CASE MainWaitReady
  BY <1>1, <1>8 DEF MainWaitReady, WaitLoop
<1>9. CASE MainCounters
  BY <1>1, <1>9 DEF MainCounters
<1>10. CASE MainGo
  BY <1>1, <1>10 DEF MainGo
<1>11. CASE MainTrigger
  BY <1>1, <1>11 DEF MainTrigger
<1>12. CASE MainStage
  BY <1>1, <1>12 DEF MainStage
<1>13. CASE MainFinish
  BY <1>1, <1>13 DEF MainFinish
<1>14. CASE MainScan
  BY <1>1, <1>14 DEF MainScan
<1>15. CASE MainResume
  <2>1. word' \in [Cores -> H!Words]
    BY <1>15 DEF MainResume, H!Words
  <2>2. pending' \in [Cores -> BOOLEAN] /\ latch' \in [Cores -> BOOLEAN]
    BY <1>15 DEF MainResume
  <2>3. k' \in Nat \ {0}
    BY <1>15 DEF MainResume
  <2>. QED
    BY <1>1, <1>15, <2>1, <2>2, <2>3 DEF MainResume
<1>16. CASE MainWaitDone
  BY <1>1, <1>16 DEF MainWaitDone, WaitLoop
<1>. QED
  BY <1>2, <1>3, <1>4, <1>5, <1>6, <1>7, <1>8, <1>9, <1>10, <1>11, <1>12, <1>13, <1>14,
     <1>15, <1>16
     DEF Main

\* so do the workers and setup_core_interrupt,
LEMMA WorkerTypes ==
  ASSUME Typed, NEW c \in Cores, (c # 0 /\ Worker(c)) \/ Setup(c),
         UNCHANGED timely
  PROVE  Typed'
<1> USE RunAssumption
    DEF Typed, Where, Go, handlerVars, firmwareVars, runVars, dspm
<1>1. at' \in [Cores -> Where]
  BY WorkerMoves, CoreSets
<1>2. CASE Worker(c) /\ c # 0
  <2>1. CASE WorkerFlag(c)
    BY <1>1, <2>1 DEF WorkerFlag
  <2>2. CASE WorkerMieOff(c) \/ WorkerClear(c) \/ WorkerDone(c)
    BY <1>1, <2>2, ZenonT(60) DEF WorkerMieOff, WorkerClear, WorkerDone, H!Words
  <2>3. CASE SetupDrain(c, "drain", "done")
    BY <1>1, <2>3 DEF SetupDrain
  <2>4. ASSUME NEW flag, NEW from, NEW to, Await(c, flag, from, to) PROVE Typed'
    BY <1>1, <2>4 DEF Await
  <2>. QED
    BY <1>2, <2>1, <2>2, <2>3, <2>4 DEF Worker, WorkerWaitGo
<1>3. CASE Setup(c)
  BY <1>1, <1>3, ZenonT(60)
     DEF Setup, SetupDrain, SetupClear, SetupEnable, SetupAck, SetupMie, H!Words
<1>. QED
  BY <1>2, <1>3

\* the firmware,
LEMMA FirmwareTypes ==
  ASSUME Typed, Firmware, UNCHANGED timely
  PROVE  Typed'
<1> USE RunAssumption
    DEF Typed, handlerVars, firmwareVars, runVars, dspm, BootSteps
<1>1. CASE BootCmd("b_cmd", "b_latch") \/ BootLatch \/ BootStarted \/ BootWait
           \/ BootCmd("b_clear", "b_ack")
  BY <1>1, ZenonT(60) DEF BootCmd, BootLatch, BootStarted, BootWait, Boot, AllFalse, H!Words
<1>2. CASE BootAck
  <2>1. idx' \in Cores
    BY <1>2, NextIdx, CoreSets DEF BootAck, Boot, Cores
  <2>. QED
    BY <1>2, <2>1 DEF BootAck, Boot, H!Words, H!FirmwareSteps
<1>3. CASE Police
  <2> latch' \in [Cores -> BOOLEAN]
    BY <1>3 DEF Police
  <2> USE DEF Police, H!channel, H!coreVars, H!firmwareVars
  <2>1. CASE H!FwRead
    BY <1>3, <2>1 DEF H!FwRead, H!FirmwareSteps
  <2>2. CASE H!FwReset
    <3>1. token' \in [Cores -> Int]
      BY <1>3, <2>2, ChargeType DEF H!FwReset
    <3>. QED
      BY <1>3, <2>2, <3>1 DEF H!FwReset, H!FirmwareSteps
  <2>3. CASE H!FwCheck
    BY <1>3, <2>3, NextIdx DEF H!FwCheck, H!FwNext, H!FirmwareSteps
  <2>4. CASE H!FwSendPause \/ H!FwSendResume
    BY <1>3, <2>4
       DEF H!FwSendPause, H!FwSendResume, H!FwSend, H!Raise, H!FirmwareSteps, H!Words
  <2>5. CASE H!FwMark
    BY <1>3, <2>5, NextIdx, IncType DEF H!FwMark, H!FwNext, H!FirmwareSteps
  <2>. QED
    BY <1>3, <2>1, <2>2, <2>3, <2>4, <2>5 DEF H!Firmware
<1>. QED
  BY <1>1, <1>2, <1>3 DEF Firmware

\* and the handlers and the cores' traffic.
LEMMA HandlerTypes ==
  ASSUME Typed, NEW c \in Cores, Handler(c) \/ Traffic(c), UNCHANGED timely
  PROVE  Typed'
<1> USE DEF Typed, handlerVars, firmwareVars, runVars, dspm, H!channel, H!coreVars,
            H!firmwareVars
<1>1. CASE Traffic(c)
  <2>1. PICK v \in Costs : /\ traffic' = [traffic EXCEPT ![c] = @ + v]
                          /\ traffic[c] + v <= MaxTraffic
    BY <1>1 DEF Traffic, H!Work
  <2>2. traffic' \in [Cores -> 0 .. MaxTraffic]
    BY <2>1, RunAssumption
  <2>. QED
    BY <1>1, <2>2 DEF Traffic, H!Work
<1>2. CASE Handler(c)
  <2>1. CASE H!HClaim(c)
    BY <1>2, <2>1, IncType DEF Handler, H!HClaim, H!HandlerSteps
  <2>2. CASE H!HRead(c) \/ H!HIgnore(c)
    BY <1>2, <2>2 DEF Handler, H!HRead, H!HIgnore, H!HandlerSteps
  <2>3. CASE H!HPause(c)
    BY <1>2, <2>3 DEF Handler, H!HPause, H!HandlerSteps
  <2>4. CASE H!HResume(c)
    BY <1>2, <2>4 DEF Handler, H!HResume, H!HandlerSteps
  <2>5. CASE H!HAck(c) \/ H!HComplete(c)
    BY <1>2, <2>5 DEF Handler, H!HAck, H!HComplete, H!HandlerSteps, H!Words
  <2>. QED
    BY <1>2, <2>1, <2>2, <2>3, <2>4, <2>5 DEF Handler, H!Handler
<1>. QED
  BY <1>1, <1>2

\* Every variable keeps its type; k is not bounded here, see TypeCorrect.
THEOREM Types == LeftoverSpec => []Typed
<1>1. LeftoverInit => Typed
  <2> SUFFICES ASSUME NEW w \in [Cores -> H!Words], NEW p \in Flags, NEW l \in Flags,
                      NEW r \in BOOLEAN, NEW g \in BOOLEAN, InitWith(w, AllFalse, p, l, r, g)
               PROVE  Typed
    BY DEF LeftoverInit
  <2>1. at \in [Cores -> Labels]
    BY DEF InitWith, Labels, MainLabels, WorkerLabels, SetupLabels
  <2>2. hpc \in [Cores -> H!HandlerSteps] /\ counterVal \in [Cores -> H!Words]
    BY DEF InitWith, H!HandlerSteps, H!Words
  <2>3. /\ sent \in [Cores -> 0 .. MaxCount] /\ received \in [Cores -> 0 .. MaxCount]
        /\ traffic \in [Cores -> 0 .. MaxTraffic]
    BY RunAssumption DEF InitWith
  <2>4. saved \in [Cores -> Where] /\ token \in [Cores -> Int] /\ fwV \in 0 .. MaxTraffic
    BY RunAssumption DEF InitWith, Where
  <2>5. fpc \in H!FirmwareSteps \cup BootSteps /\ pmu \in {"halted", "running"}
    BY DEF InitWith, BootSteps
  <2>6. timely \in Timely /\ left \in Nat /\ idx \in Cores /\ k \in Nat \ {0}
    BY CoreSets DEF InitWith
  <2>7. cmd \in BOOLEAN /\ started \in BOOLEAN /\ coresReady \in BOOLEAN /\ go \in BOOLEAN
    BY DEF InitWith
  <2>8. /\ throttled \in [Cores -> BOOLEAN] /\ pending \in [Cores -> BOOLEAN]
        /\ latch \in [Cores -> BOOLEAN] /\ paused \in [Cores -> BOOLEAN]
        /\ mie \in [Cores -> BOOLEAN] /\ coreDone \in [Cores -> BOOLEAN]
        /\ word \in [Cores -> H!Words] /\ ready \in [Workers -> BOOLEAN]
    BY DEF InitWith, Flags, AllFalse
  <2>. QED
    BY <2>1, <2>2, <2>3, <2>4, <2>5, <2>6, <2>7, <2>8 DEF Typed, Where
<1>2. Typed /\ [Next]_allVars => Typed'
  <2>1. ASSUME Typed, UNCHANGED allVars PROVE Typed'
    BY <2>1 DEF Typed, allVars, vars, handlerVars, firmwareVars, runVars, dspm
  <2>. QED
    BY <2>1, MainTypes, WorkerTypes, FirmwareTypes, HandlerTypes DEF Next, Core
<1>3. QED
  BY <1>1, <1>2, PTL DEF LeftoverSpec

-----------------------------------------------------------------------------
\* A worker after its work.

\* after mie is off
Post == {"clear", "drain", "done", "idle"}

InertCore(c) ==
    /\ paused[c] => at[c] = "wfi_loop"
    /\ c # 0 => /\ at[c] \in Post => hpc[c] = "none" /\ ~mie[c]
                /\ saved[c] \notin Post
                /\ coreDone[c] => at[c] = "idle"

InertInv == \A c \in Cores : InertCore(c)

\* The poll loop leaves the harts and the boot words alone and never ends.
LEMMA PolicingFrame ==
  ASSUME Police
  PROVE  /\ UNCHANGED <<at, handlerVars, pmu, dspm, go, coreDone, mie, left, k>>
         /\ fpc \in H!FirmwareSteps /\ fpc' \in H!FirmwareSteps
BY DEF Police, H!Firmware, H!FwRead, H!FwReset, H!FwCheck, H!FwSendPause,
       H!FwSendResume, H!FwSend, H!FwMark, H!FwNext, H!FirmwareSteps, H!coreVars,
       H!firmwareVars, H!channel, handlerVars

\* The boot of the firmware leaves the harts alone.
LEMMA BootFrame ==
  ASSUME Firmware, ~Police
  PROVE  /\ UNCHANGED <<at, handlerVars, pmu, go, coreDone, mie, left, k>>
         /\ fpc \in BootSteps /\ pmu = "running"
BY DEF Firmware, BootCmd, BootLatch, BootStarted, BootWait, BootAck, Boot, BootSteps,
       handlerVars

\* main() has no label for wfi_loop or for address 0.
LEMMA NotLabels == "wfi_loop" \notin Labels /\ "null" \notin Labels
BY DEF Labels, MainLabels, WorkerLabels, SetupLabels

\* After main() has set its globals core 0 writes neither the handler's
\* variables nor the throttle state, and only MainFinish sets a done flag.
LEMMA MainFrame ==
  ASSUME Main, ~MainInit
  PROVE  /\ UNCHANGED <<handlerVars, throttled, mie>>
         /\ MainStartPmu \/ hpc[0] = "none"
         /\ MainFinish \/ UNCHANGED coreDone
<1> USE DEF handlerVars, firmwareVars, runVars, dspm, Go
<1>1. CASE MainWaitStarted \/ MainWaitReady \/ MainScan \/ MainWaitDone
  BY <1>1 DEF MainWaitStarted, MainWaitReady, MainScan, MainWaitDone, WaitLoop
<1>2. CASE MainClearDspm \/ MainStartPmu \/ MainSignal \/ MainCounters \/ MainGo
           \/ MainTrigger
  BY <1>2 DEF MainClearDspm, MainStartPmu, MainSignal, MainCounters, MainGo, MainTrigger
<1>3. CASE MainStage \/ MainFinish \/ MainResume
  BY <1>3 DEF MainStage, MainFinish, MainResume
<1>4. CASE \/ SetPmu("halt_pmu", "clear_dspm", "halted")
           \/ SetPmu("halt_end", "scan", "halted")
  BY <1>4 DEF SetPmu
<1>. QED
  BY <1>1, <1>2, <1>3, <1>4 DEF Main

\* setup_core_interrupt touches its core's word, interrupt and enable bit only.
LEMMA SetupFrame ==
  ASSUME NEW c \in Cores, Setup(c)
  PROVE  /\ at[c] \in SetupLabels
         /\ hpc[c] = "none"
         /\ \/ /\ at[c] = "s_mie"
               /\ at' = [at EXCEPT ![c] = IF c = 0 THEN "signal" ELSE "flag"]
            \/ UNCHANGED mie /\ \E to \in SetupLabels : at' = [at EXCEPT ![c] = to]
         /\ UNCHANGED mie \/ mie' = [mie EXCEPT ![c] = TRUE]
         /\ UNCHANGED <<traffic, handlerVars, firmwareVars, pmu, dspm, go, coreDone,
                        left, k>>
<1> USE DEF SetupLabels, runVars, dspm, Go
<1>1. CASE SetupMie(c)
  BY <1>1 DEF SetupMie
<1>2. CASE SetupClear(c) \/ SetupEnable(c) \/ SetupAck(c)
  BY <1>2 DEF SetupClear, SetupEnable, SetupAck
<1>3. CASE SetupDrain(c, "s_drain1", "s_enable") \/ SetupDrain(c, "s_drain2", "s_mie")
  BY <1>3 DEF SetupDrain
<1>. QED
  BY <1>1, <1>2, <1>3 DEF Setup

\* A core with g_paused set is in wfi_loop; a worker that has disabled its
\* interrupts after its work is in no handler and no pause saves such a place.
THEOREM Inert == LeftoverSpec => []InertInv
<1>1. LeftoverInit => InertInv
  BY CoreSets DEF LeftoverInit, InitWith, InertInv, InertCore, Post
<1>2. Typed /\ InertInv /\ [Next]_allVars => InertInv'
  <2> SUFFICES ASSUME Typed, InertInv, [Next]_allVars, NEW d \in Cores PROVE InertCore(d)'
    BY DEF InertInv
  <2>0. InertCore(d)
    BY DEF InertInv
  <2> USE <2>0, CoreSets
      DEF Typed, InertCore, Post, handlerVars, firmwareVars, runVars, dspm
  <2>1. CASE Firmware
    BY <2>1, PolicingFrame, BootFrame
  <2>2. CASE Main
    <3>1. CASE MainInit
      BY <3>1 DEF MainInit, AllFalse
    <3>2. CASE MainFinish
      BY <3>2 DEF MainFinish, Go
    <3>3. CASE ~MainInit /\ ~MainFinish
      BY <2>2, <3>3, MainFrame, MainMoves, NotLabels
    <3>. QED
      BY <3>1, <3>2, <3>3
  <2>3. ASSUME NEW c \in Cores, Setup(c) PROVE InertCore(d)'
    BY <2>3, SetupFrame DEF SetupLabels
  <2>4. ASSUME NEW c \in Cores, Worker(c), c # 0 PROVE InertCore(d)'
    <3> USE <2>4 DEF Go
    <3>1. CASE WorkerFlag(c) \/ WorkerWaitGo(c)
      BY <3>1 DEF WorkerFlag, WorkerWaitGo, Await
    <3>2. CASE WorkerMieOff(c)
      BY <3>2 DEF WorkerMieOff
    <3>3. CASE WorkerClear(c) \/ WorkerDone(c)
      BY <3>3 DEF WorkerClear, WorkerDone
    <3>4. CASE SetupDrain(c, "drain", "done")
      BY <3>4 DEF SetupDrain
    <3>5. CASE Await(c, coreDone[0], "work", "mie_off")
      BY <3>5 DEF Await
    <3>6. CASE Await(c, ~coresReady, "wait_stale", "wait_fresh")
               \/ Await(c, coresReady, "wait_fresh", "s_clear")
      BY <3>6 DEF Await
    <3>. QED
      BY <2>4, <3>1, <3>2, <3>3, <3>4, <3>5, <3>6 DEF Worker
  <2>5. ASSUME NEW c \in Cores, Traffic(c) PROVE InertCore(d)'
    BY <2>5 DEF Traffic, H!Work, H!firmwareVars, H!channel
  <2>6. ASSUME NEW c \in Cores, Handler(c) PROVE InertCore(d)'
    BY <2>6
       DEF Handler, H!Handler, H!HClaim, H!HRead, H!HPause, H!HResume, H!HIgnore,
           H!HAck, H!HComplete, H!channel, H!firmwareVars
  <2>7. CASE UNCHANGED allVars
    BY <2>7 DEF allVars, vars
  <2>. QED
    BY <2>1, <2>2, <2>3, <2>4, <2>5, <2>6, <2>7 DEF Next, Core
<1>3. QED
  BY <1>1, <1>2, Types, PTL DEF LeftoverSpec

\* A worker that has set g_core_done is in no handler, takes no interrupt and is
\* not parked, whatever core 0 writes to its word when it resumes the workers.
THEOREM Inertness == LeftoverSpec => []DoneIsInert
<1>1. Typed /\ InertInv => DoneIsInert
  BY CoreSets DEF Typed, InertInv, InertCore, DoneIsInert, Post, Workers
<1>2. QED
  BY <1>1, Inert, Types, PTL

-----------------------------------------------------------------------------
\* Core 0 and the firmware.

\* before the firmware runs, and after the trigger
Early == {"init", "halt_pmu", "clear_dspm", "start_pmu"}
Late == {"stages", "halt_end", "scan", "resume", "wait_done", "end"}

\* Where core c is in main(), or will be when it is resumed.
Pos(c) == IF paused[c] THEN saved[c] ELSE at[c]

\* The firmware is in its poll loop.
Polling == fpc \in H!FirmwareSteps

\* How far the firmware is tells how far core 0 is; its own channel is in the
\* steady state as soon as there is one, whatever the workers do.
MasterInv ==
    /\ at[0] \in Early => pmu = "halted" /\ fpc = "b_cmd"
    /\ cmd \/ fpc \in {"b_clear", "b_ack"} \/ Polling => Pos(0) \in Late
    /\ fpc \in BootSteps \ {"b_ack"} => idx = 0
    /\ fpc = "b_ack" /\ idx > 0 => word[0] = "ack"
    /\ Polling => H!CoreInv(0)
    /\ Pos(0) = "resume" => k < NumCores
    /\ Pos(0) \in Late /\ ~coreDone[0] => Pos(0) = "stages"
    /\ k <= NumCores

\* Where core c may be with its interrupts enabled, before the policing.
Enabled(c) == IF c = 0 THEN {"signal", "wait_ready", "counters", "go", "trigger"} \cup Late
              ELSE {"flag", "wait_go", "work", "mie_off"}

\* Before the policing core c is in no handler and none can start.
QuietCore(c) ==
    /\ hpc[c] = "none" /\ ~paused[c] /\ ~throttled[c] /\ at[c] \in Labels
    /\ mie[c] => ~pending[c] /\ at[c] \in Enabled(c)
    /\ at[c] = "s_mie" => ~pending[c]

QuietInv == ~Polling => at[0] # "resume" /\ \A c \in Cores : QuietCore(c)

RunInv == MasterInv /\ QuietInv

\* A step of core c's main() that leaves the word alone.
LEMMA MainKeeps ==
  ASSUME Typed, NEW c \in Cores, H!CoreInv(c), at[c] \in Labels, at'[c] \in Labels,
         word'[c] = word[c],
         UNCHANGED <<hpc, counterVal, saved, paused, throttled, idx, fpc>>
  PROVE  H!CoreInv(c)'
BY NotLabels DEF H!CoreInv, H!Decided

\* Core 0's main() keeps MasterInv: the trigger comes last, "resume" is reached
\* for a worker only, and core 0's own word is never written after the trigger.
LEMMA MainMaster ==
  ASSUME Typed, InertInv, RunInv, Main
  PROVE  MasterInv'
<1> USE CoreSets, RunAssumption
    DEF Typed, RunInv, MasterInv, Pos, Early, Late, Polling, handlerVars, firmwareVars,
        runVars, dspm, Go
<1>0. at[0] # "wfi_loop" /\ ~paused[0] /\ at[0] \in Labels /\ at'[0] \in Labels
  BY MainMoves, NotLabels DEF InertInv, InertCore
<1>1. CASE MainInit
  BY <1>0, <1>1, MainKeeps DEF MainInit, AllFalse, H!FirmwareSteps
<1>2. CASE MainClearDspm
  BY <1>0, <1>2, MainKeeps DEF MainClearDspm
<1>3. CASE MainStartPmu
  BY <1>0, <1>3, MainKeeps DEF MainStartPmu, H!FirmwareSteps, BootSteps
<1>4. CASE MainWaitStarted
  BY <1>0, <1>4, MainKeeps DEF MainWaitStarted
<1>5. CASE MainSignal
  BY <1>0, <1>5, MainKeeps DEF MainSignal
<1>6. CASE MainWaitReady
  BY <1>0, <1>6, MainKeeps DEF MainWaitReady, WaitLoop
<1>7. CASE MainCounters
  BY <1>0, <1>7, MainKeeps DEF MainCounters
<1>8. CASE MainGo
  BY <1>0, <1>8, MainKeeps DEF MainGo
<1>9. CASE MainTrigger
  BY <1>0, <1>9, MainKeeps DEF MainTrigger
<1>10. CASE MainStage
  BY <1>0, <1>10, MainKeeps DEF MainStage
<1>11. CASE MainFinish
  BY <1>0, <1>11, MainKeeps DEF MainFinish
<1>12. CASE MainScan
  BY <1>0, <1>12, MainKeeps DEF MainScan
<1>13. CASE MainResume
  BY <1>0, <1>13, MainKeeps DEF MainResume
<1>14. CASE MainWaitDone
  BY <1>0, <1>14, MainKeeps DEF MainWaitDone, WaitLoop
<1>15. CASE SetPmu("halt_pmu", "clear_dspm", "halted")
  BY <1>0, <1>15, MainKeeps DEF SetPmu
<1>16. CASE SetPmu("halt_end", "scan", "halted")
  BY <1>0, <1>16, MainKeeps DEF SetPmu
<1>. QED
  BY <1>1, <1>2, <1>3, <1>4, <1>5, <1>6, <1>7, <1>8, <1>9, <1>10, <1>11, <1>12, <1>13,
     <1>14, <1>15, <1>16
     DEF Main

\* Core 0's main() keeps QuietInv: before the policing no worker is paused, so
\* MainScan has nobody to resume.
LEMMA MainQuiet ==
  ASSUME Typed, InertInv, RunInv, Main
  PROVE  QuietInv'
<1> USE CoreSets, RunAssumption
    DEF Typed, RunInv, QuietInv, QuietCore, Enabled, Early, Late, Polling, handlerVars,
        firmwareVars, runVars, dspm, Go
<1>0. at'[0] \in Labels /\ \A c \in Cores : c # 0 => at'[c] = at[c]
  BY MainMoves
<1>1. CASE MainInit
  BY <1>0, <1>1 DEF MainInit, AllFalse, H!FirmwareSteps
<1>2. CASE MainClearDspm
  BY <1>0, <1>2 DEF MainClearDspm
<1>3. CASE MainStartPmu
  BY <1>0, <1>3 DEF MainStartPmu, H!FirmwareSteps, BootSteps, MasterInv
<1>4. CASE MainWaitStarted
  BY <1>0, <1>4 DEF MainWaitStarted
<1>5. CASE MainSignal
  BY <1>0, <1>5 DEF MainSignal
<1>6. CASE MainWaitReady
  BY <1>0, <1>6 DEF MainWaitReady, WaitLoop
<1>7. CASE MainCounters
  BY <1>0, <1>7 DEF MainCounters
<1>8. CASE MainGo
  BY <1>0, <1>8 DEF MainGo
<1>9. CASE MainTrigger
  BY <1>0, <1>9 DEF MainTrigger
<1>10. CASE MainStage
  BY <1>0, <1>10 DEF MainStage
<1>11. CASE MainFinish
  BY <1>0, <1>11 DEF MainFinish
<1>12. CASE MainScan
  <2>1. k < NumCores => k \in Cores
    BY DEF Cores
  <2>. QED
    BY <1>0, <1>12, <2>1 DEF MainScan
<1>13. CASE MainResume
  BY <1>0, <1>13 DEF MainResume
<1>14. CASE MainWaitDone
  BY <1>0, <1>14 DEF MainWaitDone, WaitLoop
<1>15. CASE SetPmu("halt_pmu", "clear_dspm", "halted")
  BY <1>0, <1>15 DEF SetPmu
<1>16. CASE SetPmu("halt_end", "scan", "halted")
  BY <1>0, <1>16 DEF SetPmu
<1>. QED
  BY <1>1, <1>2, <1>3, <1>4, <1>5, <1>6, <1>7, <1>8, <1>9, <1>10, <1>11, <1>12, <1>13,
     <1>14, <1>15, <1>16
     DEF Main

\* The boot keeps RunInv: BootAck starts the poll loop on an acknowledged word.
LEMMA BootRun ==
  ASSUME Typed, RunInv, Firmware, ~Police
  PROVE  RunInv'
<1> USE CoreSets, RunAssumption
    DEF Typed, RunInv, MasterInv, QuietInv, QuietCore, Pos, Polling, BootSteps,
        H!FirmwareSteps, handlerVars, Boot
<1>1. CASE BootCmd("b_cmd", "b_latch") \/ BootCmd("b_clear", "b_ack")
  BY <1>1 DEF BootCmd, Early
<1>2. CASE BootLatch \/ BootStarted \/ BootWait
  BY <1>2 DEF BootLatch, BootStarted, BootWait, Early
<1>3. CASE BootAck
  <2>1. CASE idx = NumCores - 1
    BY <1>3, <2>1, NotLabels DEF BootAck, Early, H!CoreInv, H!Decided
  <2>2. CASE idx # NumCores - 1
    BY <1>3, <2>2 DEF BootAck, Early, Cores
  <2>. QED
    BY <2>1, <2>2
<1>. QED
  BY <1>1, <1>2, <1>3 DEF Firmware

\* The poll loop keeps the steady state's invariant of a core.
LEMMA PoliceKeeps ==
  ASSUME Typed, NEW c \in Cores, H!CoreInv(c), Police
  PROVE  H!CoreInv(c)'
<1> USE DEF Typed, Police, H!CoreInv, H!Decided, H!channel, H!coreVars, H!firmwareVars
<1>1. CASE H!FwRead
  BY <1>1 DEF H!FwRead
<1>2. CASE H!FwReset
  BY <1>2 DEF H!FwReset
<1>3. CASE H!FwCheck
  BY <1>3 DEF H!FwCheck, H!FwNext, H!Acked
<1>4. CASE H!FwSendPause
  BY <1>4 DEF H!FwSendPause, H!FwSend
<1>5. CASE H!FwSendResume
  BY <1>5 DEF H!FwSendResume, H!FwSend
<1>6. CASE H!FwMark
  BY <1>6 DEF H!FwMark, H!FwNext
<1>. QED
  BY <1>1, <1>2, <1>3, <1>4, <1>5, <1>6 DEF H!Firmware

\* So do the handlers, and the interrupted program does not move.
LEMMA HandlerKeeps ==
  ASSUME Typed, NEW c \in Cores, NEW d \in Cores, H!CoreInv(d), Handler(c)
  PROVE  H!CoreInv(d)' /\ Pos(d)' = Pos(d)
<1> USE DEF Typed, Pos, H!CoreInv, H!Decided, H!channel, H!firmwareVars
<1>1. CASE H!HClaim(c)
  BY <1>1 DEF H!HClaim
<1>2. CASE H!HRead(c)
  BY <1>2 DEF H!HRead
<1>3. CASE H!HPause(c)
  BY <1>3 DEF H!HPause, H!IsPause
<1>4. CASE H!HResume(c)
  BY <1>4, NotLabels DEF H!HResume
<1>5. CASE H!HIgnore(c)
  BY <1>5 DEF H!HIgnore
<1>6. CASE H!HComplete(c)
  BY <1>6 DEF H!HComplete
<1>7. CASE H!HAck(c)
  BY <1>7, ZenonT(60) DEF H!HAck, H!Words
<1>. QED
  BY <1>1, <1>2, <1>3, <1>4, <1>5, <1>6, <1>7 DEF Handler, H!Handler

\* The poll loop keeps RunInv.
LEMMA PoliceRun ==
  ASSUME Typed, RunInv, Police
  PROVE  RunInv'
<1>1. H!CoreInv(0)'
  BY PolicingFrame, PoliceKeeps, CoreSets DEF RunInv, MasterInv, Polling
<1>2. MasterInv'
  BY <1>1, PolicingFrame
     DEF RunInv, MasterInv, Polling, Pos, Early, handlerVars, dspm, H!FirmwareSteps,
         BootSteps
<1>. QED
  BY <1>2, PolicingFrame DEF RunInv, QuietInv, Polling

\* setup_core_interrupt keeps MasterInv: core 0 runs it before the trigger,
LEMMA SetupMaster ==
  ASSUME Typed, InertInv, RunInv, NEW c \in Cores, Setup(c)
  PROVE  MasterInv'
<1> USE CoreSets DEF Typed, handlerVars, firmwareVars, dspm, RunInv, MasterInv, Pos
<1>1. CASE c = 0
  <2>1. /\ ~paused[0] /\ UNCHANGED paused
        /\ at[0] \notin Early \cup Late /\ at'[0] \notin Early \cup Late
    BY <1>1, SetupFrame DEF InertInv, InertCore, Early, Late, SetupLabels
  <2>. QED
    BY <1>1, <2>1, SetupFrame DEF Late, Polling
<1>2. CASE c # 0
  <2>1. word'[0] = word[0]
    BY <1>2 DEF Setup, SetupClear, SetupDrain, SetupEnable, SetupAck, SetupMie, Go
  <2>. QED
    BY <1>2, <2>1, SetupFrame, ZenonT(60) DEF H!CoreInv, H!Decided, Polling
<1>. QED
  BY <1>1, <1>2

\* and QuietInv: it drains the PLIC after it has enabled the overflow, and sets
\* mie last.
LEMMA SetupQuiet ==
  ASSUME Typed, RunInv, NEW c \in Cores, Setup(c)
  PROVE  QuietInv'
<1> SUFFICES ASSUME ~Polling, NEW d \in Cores PROVE (at[0] # "resume" /\ QuietCore(d))'
  BY SetupFrame DEF QuietInv, Polling, firmwareVars
<1> USE CoreSets
    DEF Typed, handlerVars, firmwareVars, runVars, dspm, RunInv, QuietInv, QuietCore,
    Go, Enabled
<1>1. at'[0] # "resume" /\ at'[d] \in Labels
  BY SetupFrame DEF SetupLabels, Labels, MainLabels, WorkerLabels
<1>2. CASE SetupClear(c) \/ SetupAck(c)
  BY <1>1, <1>2 DEF SetupClear, SetupAck, Late
<1>3. CASE SetupDrain(c, "s_drain1", "s_enable") \/ SetupDrain(c, "s_drain2", "s_mie")
  BY <1>1, <1>3 DEF SetupDrain, Late
<1>4. CASE SetupEnable(c)
  BY <1>1, <1>4 DEF SetupEnable, Late
<1>5. CASE SetupMie(c)
  BY <1>1, <1>5 DEF SetupMie, Late
<1>. QED
  BY <1>2, <1>3, <1>4, <1>5 DEF Setup

\* The workers keep RunInv.
LEMMA WorkerRun ==
  ASSUME Typed, InertInv, RunInv, NEW c \in Cores, Worker(c), c # 0
  PROVE  RunInv'
<1> USE CoreSets DEF Typed, handlerVars, firmwareVars, runVars, dspm, RunInv, Go
<1>1. /\ UNCHANGED <<handlerVars, firmwareVars, pmu, cmd, k, coreDone[0]>>
      /\ word'[0] = word[0] /\ at'[0] = at[0]
  BY DEF Worker, Await, WorkerFlag, WorkerWaitGo, WorkerMieOff, WorkerClear, WorkerDone,
         SetupDrain, Go
<1>2. MasterInv'
  BY <1>1 DEF MasterInv, Pos, Polling, H!CoreInv, H!Decided
<1>3. QuietInv'
  <2> SUFFICES ASSUME ~Polling, NEW d \in Cores PROVE (at[0] # "resume" /\ QuietCore(d))'
    BY <1>1 DEF QuietInv, Polling
  <2>1. at'[0] # "resume" /\ at'[d] \in Labels
    BY <1>1, WorkerMoves DEF QuietInv, QuietCore
  <2> USE DEF QuietInv, QuietCore, Enabled
  <2>2. CASE WorkerFlag(c) \/ WorkerWaitGo(c)
    BY <2>1, <2>2 DEF WorkerFlag, WorkerWaitGo, Await
  <2>3. CASE WorkerMieOff(c) \/ WorkerClear(c) \/ WorkerDone(c)
    BY <2>1, <2>3 DEF WorkerMieOff, WorkerClear, WorkerDone
  <2>4. CASE SetupDrain(c, "drain", "done")
    BY <2>1, <2>4 DEF SetupDrain
  <2>5. CASE Await(c, ~coresReady, "wait_stale", "wait_fresh")
               \/ Await(c, coresReady, "wait_fresh", "s_clear")
    BY <2>1, <2>5 DEF Await
  <2>6. CASE Await(c, coreDone[0], "work", "mie_off")
    BY <2>1, <2>6 DEF Await
  <2>. QED
    BY <2>2, <2>3, <2>4, <2>5, <2>6 DEF Worker
<1>. QED
  BY <1>2, <1>3

\* The handlers keep RunInv; none runs unless the firmware polls.
LEMMA HandlerRun ==
  ASSUME Typed, RunInv, NEW c \in Cores, Handler(c)
  PROVE  RunInv'
<1>1. Polling
  BY DEF RunInv, QuietInv, QuietCore, Handler, H!Handler, H!HClaim, H!HRead, H!HPause,
         H!HResume, H!HIgnore, H!HAck, H!HComplete, H!channel, H!firmwareVars
<1>2. UNCHANGED <<firmwareVars, runVars>> /\ at'[0] \in {at[0], "wfi_loop", saved[0]}
  BY CoreSets
     DEF Typed, firmwareVars, Handler, H!Handler, H!HClaim, H!HRead, H!HPause,
         H!HResume, H!HIgnore, H!HAck, H!HComplete, H!channel, H!firmwareVars
<1>3. Polling'
  BY <1>1, <1>2 DEF Polling, firmwareVars
<1>4. H!CoreInv(0)' /\ Pos(0)' = Pos(0)
  BY <1>1, HandlerKeeps, CoreSets DEF RunInv, MasterInv
<1>5. at'[0] \notin Early
  BY <1>1, <1>3, <1>4 DEF RunInv, MasterInv, Pos, Early, Late, H!CoreInv
<1>. QED
  BY <1>1, <1>2, <1>3, <1>4, <1>5
     DEF RunInv, MasterInv, QuietInv, Polling, firmwareVars, runVars, dspm,
         H!FirmwareSteps, BootSteps

\* Traffic keeps RunInv.
LEMMA TrafficRun ==
  ASSUME RunInv, NEW c \in Cores, Traffic(c)
  PROVE  RunInv'
<1>1. UNCHANGED <<at, word, pending, hpc, counterVal, saved, paused, firmwareVars, runVars>>
  BY DEF Traffic, H!Work, H!channel, H!firmwareVars, firmwareVars
<1>. QED
  BY <1>1, ZenonT(60)
     DEF RunInv, MasterInv, QuietInv, QuietCore, Polling, Pos, H!CoreInv, H!Decided,
         firmwareVars, runVars, dspm

\* Core 0, the firmware and every core before the policing are tied together
\* as MasterInv and QuietInv say, in every run.
THEOREM RunInvariant == LeftoverSpec => []RunInv
<1>1. LeftoverInit => RunInv
  BY CoreSets, RunAssumption
     DEF LeftoverInit, InitWith, RunInv, MasterInv, QuietInv, QuietCore, Polling, Pos,
         Early, Late, H!FirmwareSteps, BootSteps, AllFalse, Labels, MainLabels,
         WorkerLabels, Enabled
<1>2. Typed /\ InertInv /\ RunInv /\ [Next]_allVars => RunInv'
  <2>1. ASSUME RunInv, UNCHANGED allVars PROVE RunInv'
    BY <2>1, ZenonT(60)
       DEF allVars, vars, RunInv, MasterInv, QuietInv, QuietCore, Polling, Pos,
           H!CoreInv, H!Decided, handlerVars, firmwareVars, runVars, dspm
  <2>. QED
    BY <2>1, MainMaster, MainQuiet, BootRun, PoliceRun, SetupMaster, SetupQuiet,
       WorkerRun, HandlerRun, TrafficRun
       DEF Next, Core, RunInv
<1>3. QED
  BY <1>1, <1>2, Types, Inert, PTL DEF LeftoverSpec

\* Every variable keeps its type; core 0's loop variable never passes the last
\* core, although MainResume increments it without a check of its own.
THEOREM TypeCorrect == LeftoverSpec => []TypeOK
<1>1. Typed /\ RunInv => TypeOK
  BY DEF TypeOK, RunInv, MasterInv
<1>. QED
  BY <1>1, Types, RunInvariant, PTL

\* No trap handler runs before the firmware has entered its poll loop, whatever
\* command, interrupt, latch, ready signal or go flag an earlier run has left.
THEOREM StaleFree == LeftoverSpec => []NoStaleInterrupt
<1>1. RunInv => NoStaleInterrupt
  BY DEF RunInv, QuietInv, QuietCore, Polling, NoStaleInterrupt
<1>. QED
  BY <1>1, RunInvariant, PTL

-----------------------------------------------------------------------------
\* Starting in time.

\* between the start of the firmware and the ready signal
Signalling == {"wait_started", "hung", "signal"} \cup SetupLabels

\* Core 0 signals after it has cleared what an earlier run signalled.
StartMain ==
    /\ at[0] \in {"start_pmu"} \cup Signalling => ~coresReady
    /\ ~Polling /\ at[0] \in Enabled(0) => mie[0]

\* A worker leaves its two wait loops after the signal, is ready with its
\* interrupts enabled, and stays at its work while core 0 is at its own.
StartCore(c) ==
    /\ at[0] \in Early \cup Signalling => at[c] \in {"wait_stale", "wait_fresh"} /\ ~ready[c]
    /\ at[0] \in Early \ {"start_pmu"} /\ at[c] = "wait_fresh" => ~coresReady
    /\ timely /\ at[0] = "wait_ready" /\ c < k => ready[c]
    /\ timely /\ Pos(0) \in {"counters", "go", "trigger"} \cup Late => ready[c]
    /\ ~Polling /\ ready[c] /\ ~coreDone[0] => at[c] \in {"wait_go", "work"}
    /\ ~Polling /\ at[c] \in {"flag", "wait_go", "work"} => mie[c]
    /\ timely /\ fpc = "b_ack" /\ ~coreDone[0] /\ c < idx => word[c] = "ack"

\* The channel of a worker is in the steady state, the worker at its work.
KeptCore(c) == H!CoreInv(c) /\ Pos(c) \in {"wait_go", "work"}

StartInv ==
    /\ StartMain
    /\ \A c \in Workers : StartCore(c)
    /\ timely /\ Polling /\ ~coreDone[0] => \A c \in Workers : KeptCore(c)

Base == Typed /\ InertInv /\ RunInv

\* Core 0's main() keeps what StartInv says of core 0,
LEMMA MainStartMain ==
  ASSUME Base, StartInv, Main, UNCHANGED timely
  PROVE  StartMain'
<1> USE CoreSets DEF Base, Typed, handlerVars, firmwareVars, runVars, dspm, Go
<1>0. ~paused[0] /\ at[0] \in Labels /\ at'[0] \in Labels
  BY MainMoves, NotLabels DEF InertInv, InertCore
<1> USE <1>0
    DEF Pos, Early, Late, Signalling, SetupLabels, Polling, StartInv, StartMain, Enabled
<1>1. CASE MainInit
  BY <1>1 DEF MainInit, RunInv, MasterInv, AllFalse
<1>2. CASE MainClearDspm
  BY <1>2 DEF MainClearDspm, RunInv, MasterInv
<1>3. CASE MainStartPmu
  BY <1>3 DEF MainStartPmu, RunInv, MasterInv, H!FirmwareSteps, BootSteps
<1>4. CASE MainWaitStarted
  BY <1>4 DEF MainWaitStarted, RunInv, MasterInv
<1>5. CASE MainSignal
  BY <1>5 DEF MainSignal, RunInv, MasterInv
<1>6. CASE MainWaitReady
  BY <1>6 DEF MainWaitReady, RunInv, MasterInv, WaitLoop
<1>7. CASE MainCounters
  BY <1>7 DEF MainCounters, RunInv, MasterInv
<1>8. CASE MainGo
  BY <1>8 DEF MainGo, RunInv, MasterInv
<1>9. CASE MainTrigger
  BY <1>9 DEF MainTrigger, RunInv, MasterInv
<1>10. CASE MainStage
  BY <1>10 DEF MainStage, RunInv, MasterInv
<1>11. CASE MainFinish
  BY <1>11 DEF MainFinish, RunInv, MasterInv
<1>12. CASE MainScan
  BY <1>12 DEF MainScan, RunInv, MasterInv
<1>13. CASE MainResume
  BY <1>13 DEF MainResume, RunInv, MasterInv
<1>14. CASE MainWaitDone
  BY <1>14 DEF MainWaitDone, RunInv, MasterInv, WaitLoop
<1>15. CASE SetPmu("halt_pmu", "clear_dspm", "halted")
  BY <1>15 DEF SetPmu
<1>16. CASE SetPmu("halt_end", "scan", "halted")
  BY <1>16 DEF SetPmu
<1>. QED
  BY <1>1, <1>2, <1>3, <1>4, <1>5, <1>6, <1>7, <1>8, <1>9, <1>10, <1>11, <1>12, <1>13,
     <1>14, <1>15, <1>16
     DEF Main

\* of the workers,
LEMMA MainStart ==
  ASSUME Base, StartInv, Main, UNCHANGED timely, NEW d \in Workers
  PROVE  StartCore(d)'
<1> USE CoreSets DEF Base, Typed, handlerVars, firmwareVars, runVars, dspm, Go
<1>0. ~paused[0] /\ at[0] \in Labels /\ at'[0] \in Labels /\ at'[d] = at[d]
  BY MainMoves, NotLabels DEF InertInv, InertCore
<1>d. d \in Nat /\ 0 < d /\ d < NumCores /\ StartCore(d)
  BY RunAssumption DEF Workers, StartInv
<1> USE <1>0, <1>d
    DEF Pos, Early, Late, Signalling, SetupLabels, Polling, StartInv, StartMain,
        StartCore, Enabled
<1>1. CASE MainInit
  BY <1>1 DEF MainInit, RunInv, MasterInv, AllFalse
<1>2. CASE MainClearDspm
  BY <1>2 DEF MainClearDspm, RunInv, MasterInv
<1>3. CASE MainStartPmu
  BY <1>3 DEF MainStartPmu, RunInv, MasterInv, H!FirmwareSteps, BootSteps
<1>4. CASE MainWaitStarted
  BY <1>4 DEF MainWaitStarted, RunInv, MasterInv
<1>5. CASE MainSignal
  BY <1>5 DEF MainSignal, RunInv, MasterInv
<1>6. CASE MainWaitReady
  BY <1>6 DEF MainWaitReady, RunInv, MasterInv, WaitLoop
<1>7. CASE MainCounters
  BY <1>7 DEF MainCounters, RunInv, MasterInv
<1>8. CASE MainGo
  BY <1>8 DEF MainGo, RunInv, MasterInv
<1>9. CASE MainTrigger
  BY <1>9 DEF MainTrigger, RunInv, MasterInv
<1>10. CASE MainStage
  BY <1>10 DEF MainStage, RunInv, MasterInv
<1>11. CASE MainFinish
  BY <1>11 DEF MainFinish, RunInv, MasterInv
<1>12. CASE MainScan
  BY <1>12 DEF MainScan, RunInv, MasterInv
<1>13. CASE MainResume
  BY <1>13 DEF MainResume, RunInv, MasterInv
<1>14. CASE MainWaitDone
  BY <1>14 DEF MainWaitDone, RunInv, MasterInv, WaitLoop
<1>15. CASE SetPmu("halt_pmu", "clear_dspm", "halted")
  BY <1>15 DEF SetPmu
<1>16. CASE SetPmu("halt_end", "scan", "halted")
  BY <1>16 DEF SetPmu
<1>. QED
  BY <1>1, <1>2, <1>3, <1>4, <1>5, <1>6, <1>7, <1>8, <1>9, <1>10, <1>11, <1>12, <1>13,
     <1>14, <1>15, <1>16
     DEF Main

\* and, until it has finished, of the channels.
LEMMA MainKept ==
  ASSUME Base, StartInv, Main, UNCHANGED timely, timely, Polling', ~coreDone'[0],
         NEW d \in Workers
  PROVE  KeptCore(d)'
<1> USE CoreSets DEF Base, RunInv, Polling
<1>0. ~paused[0] /\ at[0] \in Labels /\ at'[d] = at[d]
  BY MainMoves, NotLabels DEF InertInv, InertCore, Typed
<1>1. ~MainInit /\ ~MainStartPmu
  BY DEF MainInit, MainStartPmu, MasterInv, Early, H!FirmwareSteps, firmwareVars
<1>2. ~MainFinish
  BY DEF MainFinish, Typed
<1>3. UNCHANGED <<handlerVars, throttled, coreDone>> /\ UNCHANGED <<fpc, idx>>
  BY <1>1, <1>2, MainFrame
     DEF firmwareVars, Main, MainInit, SetPmu, MainClearDspm, MainStartPmu,
         MainWaitStarted, MainSignal, MainWaitReady, MainCounters, MainGo, MainTrigger,
         MainStage, MainFinish, MainScan, MainResume, MainWaitDone, WaitLoop, Go
<1>4. Polling /\ ~coreDone[0] /\ KeptCore(d)
  BY <1>3 DEF StartInv
<1>5. ~MainResume
  BY <1>0, <1>4 DEF MainResume, MasterInv, Pos, Late, Go
<1>6. word'[d] = word[d]
  BY <1>1, <1>5
     DEF runVars, Main, MainInit, SetPmu, MainClearDspm, MainStartPmu, MainWaitStarted,
         MainSignal, MainWaitReady, MainCounters, MainGo, MainTrigger, MainStage,
         MainFinish, MainScan, MainResume, MainWaitDone, WaitLoop, Go
<1>. QED
  BY <1>0, <1>3, <1>4, <1>6 DEF KeptCore, Pos, H!CoreInv, H!Decided, handlerVars

\* The boot keeps StartInv, and begins the policing with every channel in the
\* state the steady state starts from.
LEMMA BootStart ==
  ASSUME Base, StartInv, Firmware, ~Police, UNCHANGED timely
  PROVE  StartInv'
<1> USE CoreSets, RunAssumption
    DEF Base, Typed, RunInv, Polling, BootSteps, H!FirmwareSteps, handlerVars, Boot
<1>1. /\ UNCHANGED <<at, handlerVars, mie, coreDone, ready, k>>
      /\ ~Polling
  BY BootFrame DEF Boot, Firmware, BootCmd, BootLatch, BootStarted, BootWait, BootAck
<1>2. UNCHANGED coresReady
  BY DEF Firmware, BootCmd, BootLatch, BootStarted, BootWait, BootAck
<1>3. StartMain'
  BY <1>1, <1>2 DEF StartInv, StartMain
<1>4. ASSUME NEW d \in Workers PROVE StartCore(d)'
  <2>0. d \in Nat /\ d # 0 /\ d \in Cores /\ StartCore(d)
    BY DEF StartInv, Workers
  <2>1. timely /\ fpc' = "b_ack" /\ ~coreDone[0] /\ d < idx' => word'[d] = "ack"
    <3>1. CASE BootAck
      BY <2>0, <3>1 DEF BootAck, StartCore, Cores
    <3>2. CASE ~BootAck
      BY <2>0, <3>2 DEF Firmware, BootCmd, BootLatch, BootStarted, BootWait, MasterInv
    <3>. QED
      BY <3>1, <3>2
  <2>. QED
    BY <1>1, <1>2, <2>0, <2>1 DEF StartCore, Pos
<1>5. ASSUME timely, Polling', ~coreDone[0], NEW d \in Workers PROVE KeptCore(d)'
  <2>0. d \in Nat /\ d # 0 /\ d \in Cores /\ StartCore(d)
    BY DEF StartInv, Workers
  <2>1. BootAck /\ idx = NumCores - 1
    BY <1>5 DEF Firmware, BootCmd, BootLatch, BootStarted, BootWait, BootAck
  <2>2. word'[d] = "ack" /\ fpc' = "read" /\ UNCHANGED throttled
    BY <1>5, <2>0, <2>1 DEF BootAck, StartCore, Cores
  <2>3. hpc[d] = "none" /\ ~paused[d] /\ ~throttled[d]
    BY <1>1, <2>0 DEF QuietInv, QuietCore
  <2>4. at[d] \in {"wait_go", "work"}
    BY <1>1, <1>5, <2>0, <2>1 DEF BootAck, StartCore, MasterInv
  <2>. QED
    BY <1>1, <2>0, <2>2, <2>3, <2>4 DEF KeptCore, H!CoreInv, H!Decided, Pos
<1>. QED
  BY <1>1, <1>3, <1>4, <1>5 DEF StartInv

\* The poll loop keeps StartInv.
LEMMA PoliceStart ==
  ASSUME Base, StartInv, Police, UNCHANGED timely
  PROVE  StartInv'
<1>0. /\ UNCHANGED <<at, paused, saved, mie, coreDone, ready, coresReady, k>>
      /\ Polling /\ Polling'
  BY PolicingFrame DEF Polling, handlerVars, dspm
<1>1. StartMain'
  BY <1>0 DEF StartInv, StartMain
<1>2. ASSUME NEW d \in Workers PROVE StartCore(d)'
  BY <1>0 DEF StartInv, StartCore, Pos, Polling, H!FirmwareSteps
<1>3. ASSUME timely, ~coreDone[0], NEW d \in Workers PROVE KeptCore(d)'
  BY <1>0, <1>3, PoliceKeeps, CoreSets DEF Base, StartInv, KeptCore, Pos
<1>. QED
  BY <1>0, <1>1, <1>2, <1>3 DEF StartInv

\* The handlers keep StartInv.
LEMMA HandlerStart ==
  ASSUME Base, StartInv, NEW c \in Cores, Handler(c), UNCHANGED timely
  PROVE  StartInv'
<1> USE CoreSets DEF Base, Typed
<1>0. Polling
  BY DEF RunInv, QuietInv, QuietCore, Handler, H!Handler, H!HClaim, H!HRead, H!HPause,
         H!HResume, H!HIgnore, H!HAck, H!HComplete, H!channel, H!firmwareVars
<1>1. UNCHANGED <<fpc, mie, coreDone, ready, coresReady, k>>
  BY DEF runVars, dspm, H!firmwareVars, Handler, H!Handler, H!HClaim, H!HRead, H!HPause,
         H!HResume, H!HIgnore, H!HAck, H!HComplete, H!channel, H!firmwareVars
<1>2. Pos(0)' = Pos(0) /\ at'[0] \in {at[0], "wfi_loop", saved[0]} /\ H!CoreInv(0)'
  BY <1>0, HandlerKeeps
     DEF RunInv, MasterInv, Handler, H!Handler, H!HClaim, H!HRead, H!HPause, H!HResume,
         H!HIgnore, H!HAck, H!HComplete, H!channel, H!firmwareVars
<1>3. at'[0] \notin Early \cup Signalling \cup {"wait_ready"}
  BY <1>0, <1>2
     DEF RunInv, MasterInv, Pos, Early, Late, Signalling, SetupLabels, H!CoreInv
<1>4. StartMain'
  BY <1>0, <1>1, <1>3 DEF StartMain, Polling, Early
<1>5. ASSUME NEW d \in Workers PROVE StartCore(d)'
  BY <1>0, <1>1, <1>2, <1>3 DEF StartInv, StartCore, Polling, H!FirmwareSteps
<1>6. ASSUME timely, ~coreDone[0], NEW d \in Workers PROVE KeptCore(d)'
  BY <1>0, <1>6, HandlerKeeps DEF StartInv, KeptCore
<1>. QED
  BY <1>1, <1>4, <1>5, <1>6 DEF StartInv, Polling

\* Traffic keeps StartInv.
LEMMA TrafficStart ==
  ASSUME StartInv, NEW c \in Cores, Traffic(c), UNCHANGED timely
  PROVE  StartInv'
<1>1. UNCHANGED <<at, word, hpc, counterVal, saved, paused, firmwareVars, runVars>>
  BY DEF Traffic, H!Work, H!channel, H!firmwareVars, firmwareVars
<1>. QED
  BY <1>1, ZenonT(60)
     DEF StartInv, StartMain, StartCore, KeptCore, Polling, Pos, H!CoreInv, H!Decided,
         firmwareVars, runVars, dspm

\* setup_core_interrupt keeps StartInv: a worker that still runs it is not ready.
LEMMA SetupStart ==
  ASSUME Base, StartInv, NEW c \in Cores, Setup(c), UNCHANGED timely
  PROVE  StartInv'
<1> USE CoreSets DEF Base, Typed, RunInv
<1>0. /\ at[c] \in SetupLabels /\ ~paused[c]
      /\ UNCHANGED <<handlerVars, firmwareVars, dspm, coreDone, k>>
  BY SetupFrame DEF InertInv, InertCore, SetupLabels
<1>1. \A e \in Cores : e # c => at'[e] = at[e] /\ mie'[e] = mie[e] /\ word'[e] = word[e]
  BY DEF runVars, Setup, SetupClear, SetupDrain, SetupEnable, SetupAck, SetupMie, Go
<1>2. \/ at'[c] \in SetupLabels /\ mie'[c] = mie[c]
      \/ at'[c] = (IF c = 0 THEN "signal" ELSE "flag") /\ mie'[c]
  BY SetupFrame
     DEF SetupLabels, Setup, SetupClear, SetupDrain, SetupEnable, SetupAck, SetupMie, Go
<1> USE <1>0
    DEF handlerVars, firmwareVars, dspm, SetupLabels, Early, Late, Signalling, Pos, Polling
<1>3. StartMain'
  BY <1>1, <1>2 DEF StartInv, StartMain, Enabled
<1>4. ASSUME NEW d \in Workers PROVE StartCore(d)'
  <2>0. d \in Cores /\ d # 0 /\ StartCore(d)
    BY DEF StartInv
  <2>1. CASE c = 0
    BY <1>1, <1>2, <2>0, <2>1 DEF StartCore
  <2>2. CASE c # 0 /\ c # d
    BY <1>1, <2>0, <2>2 DEF StartCore
  <2>3. CASE c = d
    <3>1. timely /\ fpc = "b_ack" => coreDone[0]
      BY <2>0, <2>3 DEF StartCore, MasterInv, H!FirmwareSteps
    <3>. QED
      BY <1>1, <1>2, <2>0, <2>3, <3>1 DEF StartCore
  <2>. QED
    BY <2>1, <2>2, <2>3
<1>5. ASSUME timely, Polling, ~coreDone[0], NEW d \in Workers PROVE KeptCore(d)'
  <2>0. d \in Cores /\ d # 0 /\ KeptCore(d)
    BY <1>5 DEF StartInv
  <2>1. c # 0 /\ c # d
    BY <1>5, <2>0 DEF MasterInv, KeptCore
  <2>. QED
    BY <1>1, <2>0, <2>1 DEF KeptCore, H!CoreInv, H!Decided
<1>. QED
  BY <1>3, <1>4, <1>5 DEF StartInv

\* The workers keep StartInv: none leaves its work before core 0 has finished.
LEMMA WorkerStart ==
  ASSUME Base, StartInv, NEW c \in Cores, Worker(c), c # 0, UNCHANGED timely
  PROVE  StartInv'
<1> USE CoreSets DEF Base, Typed, RunInv
<1>0. /\ at[c] \in Labels /\ ~paused[c]
      /\ UNCHANGED <<handlerVars, firmwareVars, k, cmd, coresReady, go>>
      /\ coreDone'[0] = coreDone[0] /\ mie'[0] = mie[0] /\ at'[0] = at[0]
  BY WorkerMoves, NotLabels
     DEF InertInv, InertCore, runVars, dspm, Worker, Await, WorkerFlag, WorkerWaitGo,
         WorkerMieOff, WorkerClear, WorkerDone, SetupDrain, Go
<1>1. \A e \in Cores : e # c => at'[e] = at[e] /\ mie'[e] = mie[e] /\ word'[e] = word[e]
  BY DEF runVars, dspm, Worker, Await, WorkerFlag, WorkerWaitGo, WorkerMieOff,
         WorkerClear, WorkerDone, SetupDrain, Go
<1>2. \A e \in Workers : e # c => ready'[e] = ready[e]
  BY DEF runVars, dspm, Worker, Await, WorkerFlag, WorkerWaitGo, WorkerMieOff,
         WorkerClear, WorkerDone, SetupDrain, Go
<1> USE <1>0 DEF handlerVars, firmwareVars, Pos, Polling
<1>3. StartMain'
  BY <1>1 DEF StartInv, StartMain, Enabled
<1>4. StartCore(c)'
  <2>0. c \in Workers /\ StartCore(c)
    BY DEF StartInv
  <2> USE <1>1, <2>0 DEF StartCore, Go, Signalling, runVars, dspm
  <2>1. CASE WorkerFlag(c)
    BY <2>1 DEF WorkerFlag
  <2>2. CASE WorkerWaitGo(c)
    BY <2>2 DEF WorkerWaitGo, Await
  <2>3. CASE WorkerMieOff(c)
    BY <2>3 DEF WorkerMieOff
  <2>4. CASE WorkerClear(c)
    BY <2>4 DEF WorkerClear, MasterInv, H!FirmwareSteps
  <2>5. CASE WorkerDone(c)
    BY <2>5 DEF WorkerDone
  <2>6. CASE SetupDrain(c, "drain", "done")
    BY <2>6 DEF SetupDrain
  <2>7. CASE Await(c, coreDone[0], "work", "mie_off")
    BY <2>7 DEF Await
  <2>8. CASE Await(c, ~coresReady, "wait_stale", "wait_fresh")
    BY <2>8 DEF Await
  <2>9. CASE Await(c, coresReady, "wait_fresh", "s_clear")
    BY <2>9 DEF Await, StartInv, StartMain, Early
  <2>. QED
    BY <2>1, <2>2, <2>3, <2>4, <2>5, <2>6, <2>7, <2>8, <2>9 DEF Worker
<1>5. ASSUME NEW d \in Workers, d # c PROVE StartCore(d)'
  <2>1. d \in Cores /\ d # c /\ StartCore(d)
    BY <1>5 DEF StartInv
  <2>. QED
    BY <1>1, <1>2, <2>1 DEF StartCore
<1>6. ASSUME timely, Polling, ~coreDone[0], NEW d \in Workers PROVE KeptCore(d)'
  <2>1. KeptCore(d) /\ d \in Cores
    BY <1>6 DEF StartInv
  <2>2. CASE d = c
    <3>1. at[d] \in {"wait_go", "work"}
      BY <2>1, <2>2 DEF KeptCore
    <3>2. at'[d] \in {"wait_go", "work"} /\ word'[d] = word[d]
      BY <1>6, <2>2, <3>1
         DEF Worker, Await, WorkerFlag, WorkerWaitGo, WorkerMieOff, WorkerClear,
             WorkerDone, SetupDrain, Go
    <3>. QED
      BY <2>1, <2>2, <3>1, <3>2 DEF KeptCore, H!CoreInv, H!Decided
  <2>3. CASE d # c
    <3>1. at'[d] = at[d] /\ word'[d] = word[d]
      BY <1>1, <2>1, <2>3
    <3>. QED
      BY <2>1, <3>1 DEF KeptCore, H!CoreInv, H!Decided
  <2>. QED
    BY <2>2, <2>3
<1>. QED
  BY <1>3, <1>4, <1>5, <1>6 DEF StartInv

\* The workers follow core 0's ready signal, in a timely run core 0 goes on only
\* with all of them, and no step of main() disturbs a channel while core 0 works.
THEOREM StartInvariant == LeftoverSpec => []StartInv
<1>1. LeftoverInit => StartInv
  <2> SUFFICES ASSUME LeftoverInit PROVE StartInv
    OBVIOUS
  <2>1. /\ at[0] = "init" /\ fpc = "b_cmd" /\ saved[0] = "null" /\ ~paused[0]
        /\ \A c \in Cores : ~mie[c]
        /\ \A c \in Cores : c # 0 => at[c] = "wait_stale" /\ ~ready[c]
    BY CoreSets DEF LeftoverInit, InitWith
  <2>. QED
    BY <2>1, CoreSets
       DEF StartInv, StartMain, StartCore, Polling, Pos, Early, Late, Signalling,
           SetupLabels, Enabled, H!FirmwareSteps
<1>2. Base /\ StartInv /\ [Next]_allVars => StartInv'
  <2>1. ASSUME Base, StartInv, Main, UNCHANGED timely PROVE StartInv'
    BY <2>1, MainStartMain, MainStart, MainKept DEF StartInv
  <2>2. ASSUME StartInv, UNCHANGED allVars PROVE StartInv'
    BY <2>2, ZenonT(60)
       DEF allVars, vars, StartInv, StartMain, StartCore, KeptCore, Polling, Pos,
           H!CoreInv, H!Decided, handlerVars, firmwareVars, runVars, dspm
  <2>. QED
    BY <2>1, <2>2, BootStart, PoliceStart, SetupStart, WorkerStart, HandlerStart,
       TrafficStart
       DEF Next, Core
<1>3. QED
  BY <1>1, <1>2, Types, Inert, RunInvariant, PTL DEF LeftoverSpec, Base

\* The policing begins with the last acknowledgement that the boot writes.
LEMMA PolicingBegins ==
  ASSUME Typed, Next, ~Policing, Policing'
  PROVE  ~Polling /\ BootAck /\ idx = NumCores - 1
<1> USE CoreSets DEF Typed, Polling, Policing
<1>1. ~Police
  BY PolicingFrame DEF Police
<1>2. ASSUME Main PROVE FALSE
  <2>1. CASE MainStartPmu
    BY <2>1 DEF MainStartPmu, H!FirmwareSteps
  <2>2. CASE ~MainStartPmu
    BY <1>2, <2>2
       DEF firmwareVars, runVars, Main, MainInit, SetPmu, MainClearDspm, MainStartPmu,
           MainWaitStarted, MainSignal, MainWaitReady, MainCounters, MainGo,
           MainTrigger, MainStage, MainFinish, MainScan, MainResume, MainWaitDone,
           WaitLoop, Go
  <2>. QED
    BY <2>1, <2>2
<1>3. ASSUME NEW e \in Cores, Setup(e) PROVE FALSE
  BY <1>3, SetupFrame DEF firmwareVars
<1>4. ASSUME NEW e \in Cores, Worker(e) PROVE FALSE
  BY <1>4
     DEF firmwareVars, runVars, Worker, Await, WorkerFlag, WorkerWaitGo, WorkerMieOff,
         WorkerClear, WorkerDone, SetupDrain, Go
<1>5. ASSUME NEW e \in Cores, Handler(e) \/ Traffic(e) PROVE FALSE
  BY <1>5
     DEF runVars, Handler, H!Handler, H!HClaim, H!HRead, H!HPause, H!HResume,
         H!HIgnore, H!HAck, H!HComplete, H!channel, H!firmwareVars, Traffic, H!Work
<1>6. Firmware /\ ~Police
  BY <1>1, <1>2, <1>3, <1>4, <1>5 DEF Next, Core
<1>. QED
  BY <1>6, BootFrame
     DEF Firmware, BootCmd, BootLatch, BootStarted, BootWait, BootAck, Boot,
         H!FirmwareSteps, BootSteps

\* In a timely run it begins on a clean channel.
LEMMA CleanStep ==
  ASSUME Base, StartInv, Next, timely, ~Policing, Policing', ~coreDone[0], NEW c \in Cores
  PROVE  /\ mie[c] /\ ~pending[c] /\ hpc[c] = "none"
         /\ word'[c] = "ack" /\ ~paused[c] /\ ~throttled[c]
<1> USE CoreSets DEF Base, Typed, RunInv, Polling, Policing
<1>1. ~Polling /\ BootAck /\ idx = NumCores - 1
  BY PolicingBegins
<1>2. fpc = "b_ack" /\ ~paused[c] /\ hpc[c] = "none" /\ ~throttled[c]
  BY <1>1 DEF BootAck, Boot, QuietInv, QuietCore
<1>3. Pos(0) \in Late /\ at[0] \in Late
  BY <1>1, <1>2 DEF MasterInv, QuietInv, QuietCore, Pos
<1>4. mie[c]
  <2>1. CASE c = 0
    BY <1>1, <1>3, <2>1 DEF StartInv, StartMain, Enabled
  <2>2. CASE c # 0
    BY <1>1, <1>3, <2>2 DEF StartInv, StartCore
  <2>. QED
    BY <2>1, <2>2
<1>5. ~pending[c]
  BY <1>1, <1>4 DEF QuietInv, QuietCore
<1>6. word'[c] = "ack"
  <2>1. c = idx \/ (c < idx /\ word[c] = "ack")
    <3>1. c \in Nat /\ c <= idx /\ idx \in Nat
      BY <1>1 DEF Cores
    <3>2. ASSUME c = 0, c # idx PROVE word[c] = "ack"
      <4>1. idx > 0
        BY <3>1, <3>2
      <4>. QED
        BY <1>2, <3>2, <4>1 DEF MasterInv
    <3>3. c # 0 /\ c < idx => word[c] = "ack"
      BY <1>2 DEF StartInv, StartCore
    <3>. QED
      BY <1>1, <3>1, <3>2, <3>3 DEF Cores
  <2>. QED
    BY <1>1, <2>1 DEF BootAck
<1>. QED
  BY <1>2, <1>4, <1>5, <1>6

\* In a timely run the poll loop starts on a clean channel: every core has its
\* interrupts enabled, none pending or in service, an acknowledged word and no
\* throttle state.
THEOREM CleanStart == LeftoverSpec => PolicingStartsClean
<1>1. Base /\ StartInv /\ [Next]_allVars =>
      [timely /\ ~Policing /\ Policing' /\ ~coreDone[0] =>
        \A c \in Cores : /\ mie[c] /\ ~pending[c] /\ hpc[c] = "none"
                         /\ word'[c] = "ack" /\ ~paused[c] /\ ~throttled[c]]_vars
  BY CleanStep DEF allVars, vars
<1>. QED
  BY <1>1, Types, Inert, RunInvariant, StartInvariant, PTL
     DEF LeftoverSpec, PolicingStartsClean, Base

\* In a timely run the handshake's inductive invariant holds from the start of
\* the policing until core 0 has finished, for every interleaving of the harts.
THEOREM Kept == LeftoverSpec => []HandshakeKept
<1>1. RunInv /\ StartInv => HandshakeKept
  BY CoreSets
     DEF RunInv, MasterInv, StartInv, KeptCore, HandshakeKept, Policing, Polling,
         H!HandshakeInv, H!Cores, Cores
<1>. QED
  BY <1>1, RunInvariant, StartInvariant, PTL

\* In a timely run no core is sent to its saved address while it is not parked.
THEOREM ResumesParked == LeftoverSpec => [](timely => ResumeOnlyParked)
<1>1. Base /\ StartInv => (timely => ResumeOnlyParked)
  <2> SUFFICES ASSUME Base, StartInv, timely, ~coreDone[0], NEW c \in Cores,
                      hpc[c] = "switch", counterVal[c] = "resume"
               PROVE  paused[c]
    BY DEF ResumeOnlyParked
  <2>1. Polling
    BY DEF Base, RunInv, QuietInv, QuietCore
  <2>2. H!CoreInv(c)
    BY <2>1, CoreSets DEF Base, RunInv, MasterInv, StartInv, KeptCore
  <2>. QED
    BY <2>2 DEF H!CoreInv
<1>. QED
  BY <1>1, Types, Inert, RunInvariant, StartInvariant, PTL DEF Base

-----------------------------------------------------------------------------
\* The policing of a run is what CoreThrottle promises.

AbsStep == H!Abs!Next \/ UNCHANGED H!Abs!vars

\* A step that leaves the words, g_paused, the addresses and the saved addresses
\* alone is invisible,
LEMMA AbsInvisible ==
  ASSUME UNCHANGED <<word, paused, at, saved>>
  PROVE  AbsStep
BY DEF AbsStep, H!Abs!vars, H!absMode, H!absOrder, H!absPos

\* and a step of a core's program that leaves the others alone is its work.
LEMMA AbsMoves ==
  ASSUME Typed, NEW c \in Cores, ~paused[c], NEW p \in Labels,
         at' = [at EXCEPT ![c] = p], UNCHANGED <<word, paused, saved>>
  PROVE  AbsStep
<1>1. UNCHANGED <<H!absMode, H!absOrder>>
  BY DEF H!absMode, H!absOrder
<1>2. H!absPos' = [H!absPos EXCEPT ![c] = p]
  BY DEF Typed, H!absPos, H!Cores, Cores
<1>3. H!absMode[c] = "running"
  BY DEF H!absMode, H!Cores, Cores
<1>. QED
  BY <1>1, <1>2, <1>3 DEF AbsStep, H!Abs!Next, H!Abs!Work, H!Cores, Cores

\* The poll loop gives orders one at a time.
LEMMA PoliceAbs ==
  ASSUME Typed, H!HandshakeInv, Police
  PROVE  AbsStep
<1> USE DEF Typed, H!channel, H!coreVars
<1>0. idx \in Cores /\ H!CoreInv(idx)
  BY DEF H!HandshakeInv, H!Cores, Cores
<1>1. CASE H!FwRead \/ H!FwReset \/ H!FwCheck \/ H!FwMark
  BY <1>1, AbsInvisible DEF H!FwRead, H!FwReset, H!FwCheck, H!FwMark
<1>2. CASE H!FwSendPause
  <2>1. word[idx] = "ack" /\ ~paused[idx]
    BY <1>0, <1>2 DEF H!FwSendPause, H!FwSend, H!CoreInv, H!Decided
  <2>2. H!absOrder' = [H!absOrder EXCEPT ![idx] = "pause"]
    BY <1>0, <1>2, <2>1 DEF H!FwSendPause, H!FwSend, H!absOrder, H!Cores, Cores
  <2>3. UNCHANGED <<H!absMode, H!absPos>>
    BY <1>2 DEF H!FwSendPause, H!FwSend, H!absMode, H!absPos
  <2>4. H!absMode[idx] = "running" /\ H!absOrder[idx] = "none"
    BY <1>0, <2>1 DEF H!absMode, H!absOrder, H!Cores, Cores
  <2>. QED
    BY <1>0, <2>2, <2>3, <2>4 DEF AbsStep, H!Abs!Next, H!Abs!OrderPause, H!Cores, Cores
<1>3. CASE H!FwSendResume
  <2>1. word[idx] = "ack" /\ paused[idx]
    BY <1>0, <1>3 DEF H!FwSendResume, H!FwSend, H!CoreInv, H!Decided
  <2>2. H!absOrder' = [H!absOrder EXCEPT ![idx] = "resume"]
    BY <1>0, <1>3, <2>1 DEF H!FwSendResume, H!FwSend, H!absOrder, H!Cores, Cores
  <2>3. UNCHANGED <<H!absMode, H!absPos>>
    BY <1>3 DEF H!FwSendResume, H!FwSend, H!absMode, H!absPos
  <2>4. H!absMode[idx] = "paused" /\ H!absOrder[idx] = "none"
    BY <1>0, <2>1 DEF H!absMode, H!absOrder, H!Cores, Cores
  <2>. QED
    BY <1>0, <2>2, <2>3, <2>4 DEF AbsStep, H!Abs!Next, H!Abs!OrderResume, H!Cores, Cores
<1>. QED
  BY <1>1, <1>2, <1>3 DEF Police, H!Firmware

\* The handlers obey them, each once.
LEMMA HandlerAbs ==
  ASSUME Typed, H!HandshakeInv, NEW c \in Cores, Handler(c)
  PROVE  AbsStep
<1> USE DEF Typed, H!channel, H!Cores, Cores
<1>0. H!CoreInv(c)
  BY DEF H!HandshakeInv
<1>1. CASE H!HClaim(c) \/ H!HRead(c) \/ H!HIgnore(c) \/ H!HComplete(c)
  BY <1>1, AbsInvisible DEF H!HClaim, H!HRead, H!HIgnore, H!HComplete
<1>2. CASE H!HPause(c)
  <2>1. word[c] = "pause" /\ ~paused[c]
    BY <1>0, <1>2 DEF H!HPause, H!IsPause, H!CoreInv
  <2>2. H!absMode' = [H!absMode EXCEPT ![c] = "paused"]
    BY <1>2 DEF H!HPause, H!absMode
  <2>3. H!absOrder' = [H!absOrder EXCEPT ![c] = "none"]
    BY <1>2, <2>1 DEF H!HPause, H!absOrder
  <2>4. UNCHANGED H!absPos
    BY <1>2, <2>1 DEF H!HPause, H!absPos
  <2>5. H!absOrder[c] = "pause"
    BY <2>1 DEF H!absOrder
  <2>. QED
    BY <2>2, <2>3, <2>4, <2>5 DEF AbsStep, H!Abs!Next, H!Abs!Obey
<1>3. CASE H!HResume(c)
  <2>1. word[c] = "resume" /\ paused[c]
    BY <1>0, <1>3 DEF H!HResume, H!CoreInv
  <2>2. H!absMode' = [H!absMode EXCEPT ![c] = "running"]
    BY <1>3 DEF H!HResume, H!absMode
  <2>3. H!absOrder' = [H!absOrder EXCEPT ![c] = "none"]
    BY <1>3, <2>1 DEF H!HResume, H!absOrder
  <2>4. UNCHANGED H!absPos
    BY <1>3, <2>1 DEF H!HResume, H!absPos
  <2>5. H!absOrder[c] = "resume"
    BY <2>1 DEF H!absOrder
  <2>. QED
    BY <2>2, <2>3, <2>4, <2>5 DEF AbsStep, H!Abs!Next, H!Abs!Obey
<1>4. CASE H!HAck(c)
  <2>1. (word[c] = "pause" => paused[c]) /\ (word[c] = "resume" => ~paused[c])
    BY <1>0, <1>4 DEF H!HAck, H!CoreInv
  <2>2. UNCHANGED H!absOrder
    BY <1>4, <2>1 DEF H!HAck, H!absOrder
  <2>. QED
    BY <1>4, <2>2 DEF AbsStep, H!HAck, H!Abs!vars, H!absMode, H!absPos
<1>. QED
  BY <1>1, <1>2, <1>3, <1>4 DEF Handler, H!Handler

\* main() of a hart, whichever, is the work of its core.
LEMMA MainAbs ==
  ASSUME Base, Policing, Policing', ~coreDone'[0], Main
  PROVE  AbsStep
<1> USE CoreSets DEF Base, RunInv, Polling, Policing
<1>1. ~MainInit /\ ~MainStartPmu
  BY DEF MainInit, MainStartPmu, MasterInv, Early, H!FirmwareSteps, firmwareVars
<1>2. ~MainFinish
  BY DEF MainFinish, Typed
<1>3. ~coreDone[0] /\ UNCHANGED <<paused, saved>>
  BY <1>1, <1>2, MainFrame DEF handlerVars
<1>4. ~paused[0]
  BY MainMoves, NotLabels DEF InertInv, InertCore
<1>5. ~MainResume
  BY <1>3, <1>4 DEF MainResume, MasterInv, Pos, Late, Go
<1>6. UNCHANGED word
  BY <1>1, <1>5
     DEF runVars, Main, SetPmu, MainClearDspm, MainWaitStarted, MainSignal, MainWaitReady,
         MainCounters, MainGo, MainTrigger, MainStage, MainFinish, MainScan,
         MainWaitDone, WaitLoop
<1>. QED
  BY <1>3, <1>4, <1>6, MainMoves, AbsMoves

\* A worker is in its wait or at its work, and no worker is in its setup.
LEMMA WorkerAbs ==
  ASSUME Base, StartInv, Policing, timely, ~coreDone[0], NEW c \in Cores,
         (c # 0 /\ Worker(c)) \/ Setup(c)
  PROVE  AbsStep
<1> USE CoreSets DEF Base, RunInv, Polling, Policing
<1>1. ~paused[c] /\ at[c] \in Labels
  BY WorkerMoves, NotLabels DEF InertInv, InertCore
<1>2. c # 0 => at[c] \in {"wait_go", "work"}
  BY <1>1 DEF StartInv, KeptCore, Pos
<1>3. ~Setup(c)
  BY <1>1, <1>2, SetupFrame DEF MasterInv, Pos, Late, SetupLabels
<1>4. UNCHANGED <<word, paused, saved>>
  BY <1>2, <1>3
     DEF handlerVars, Worker, Await, WorkerFlag, WorkerWaitGo, WorkerMieOff, WorkerClear,
         WorkerDone, SetupDrain, Go
<1>. QED
  BY <1>1, <1>4, WorkerMoves, AbsMoves

\* In a timely run the policing begins as CoreThrottle does, and from there until
\* core 0 has finished each step of the run is one of CoreThrottle's or leaves it
\* alone: main() on any hart, firmware and handlers together keep its promise.
THEOREM KeepsPromise == LeftoverSpec => PolicingAsPromised
<1>1. ASSUME Base, StartInv, Base', StartInv', Next, timely, ~Policing, Policing',
             ~coreDone'[0]
      PROVE  H!Abs!Init'
  <2> USE DEF H!Cores, Cores
  <2>1. BootAck /\ UNCHANGED <<paused, coreDone>>
    BY <1>1, PolicingBegins DEF Base, BootAck, Boot, handlerVars
  <2>2. \A c \in Cores : word'[c] = "ack" /\ ~paused'[c]
    BY <1>1, <2>1, CleanStep
  <2>3. \A c \in Cores : H!CoreInv(c)'
    BY <1>1, CoreSets DEF Base, RunInv, MasterInv, StartInv, KeptCore, Policing, Polling, Next
  <2>4. \A c \in Cores : at'[c] \in Labels
    BY <1>1, <2>2, <2>3 DEF Base, Typed, H!CoreInv
  <2>. QED
    BY <2>2, <2>4 DEF H!Abs!Init, H!absMode, H!absOrder, H!absPos
<1>2. ASSUME Base, StartInv, Next, timely, Policing, Policing', ~coreDone'[0]
      PROVE  AbsStep
  <2> USE CoreSets
  <2>0. Main \/ UNCHANGED coreDone \/ (~coreDone[0] /\ \E c \in Workers : WorkerDone(c))
    <3>1. CASE Firmware
      BY <3>1, PolicingFrame, BootFrame
    <3>2. ASSUME NEW c \in Cores, Handler(c) \/ Traffic(c) PROVE UNCHANGED coreDone
      BY <3>2 DEF Handler, Traffic, runVars
    <3>3. ASSUME NEW c \in Cores, Setup(c) PROVE UNCHANGED coreDone
      BY <3>3, SetupFrame
    <3>4. ASSUME NEW c \in Cores, c # 0, Worker(c), ~WorkerDone(c)
          PROVE  UNCHANGED coreDone
      BY <3>4 DEF Worker, Await, WorkerFlag, WorkerWaitGo, WorkerMieOff, WorkerClear,
                  SetupDrain, runVars
    <3>5. ASSUME NEW c \in Cores, c # 0, WorkerDone(c) PROVE c \in Workers /\ ~coreDone[0]
      BY <1>2, <3>5 DEF WorkerDone, Base, Typed
    <3>. QED
      BY <1>2, <3>1, <3>2, <3>3, <3>4, <3>5 DEF Next, Core
  <2>1. CASE Main
    BY <1>2, <2>1, MainAbs
  <2>2. CASE ~Main
    <3>1. ~coreDone[0]
      BY <1>2, <2>0, <2>2
    <3>2. H!HandshakeInv
      BY <1>2, <3>1
         DEF Base, RunInv, MasterInv, StartInv, KeptCore, Policing, Polling,
             H!HandshakeInv, H!Cores, Cores
    <3>3. Typed
      BY <1>2 DEF Base
    <3>4. CASE Firmware
      <4>1. Police
        BY <1>2, <3>4, BootFrame DEF Policing, H!FirmwareSteps, BootSteps
      <4>. QED
        BY <3>2, <3>3, <4>1, PoliceAbs
    <3>5. ASSUME NEW c \in Cores, Handler(c) PROVE AbsStep
      BY <3>2, <3>3, <3>5, HandlerAbs
    <3>6. ASSUME NEW c \in Cores, Traffic(c) PROVE AbsStep
      BY <1>2, <3>6, AbsInvisible DEF Traffic, H!Work, H!channel, runVars
    <3>7. ASSUME NEW c \in Cores, (c # 0 /\ Worker(c)) \/ Setup(c) PROVE AbsStep
      BY <1>2, <3>1, <3>7, WorkerAbs
    <3>. QED
      BY <1>2, <2>2, <3>4, <3>5, <3>6, <3>7 DEF Next, Core
  <2>. QED
    BY <2>1, <2>2
<1>3. Base /\ StartInv /\ Base' /\ StartInv' /\ [Next]_allVars =>
      [timely /\ Policing' /\ ~coreDone'[0] =>
        IF Policing THEN H!Abs!Next \/ UNCHANGED H!Abs!vars ELSE H!Abs!Init']_vars
  BY <1>1, <1>2 DEF AbsStep, allVars, vars
<1>. QED
  BY <1>3, Types, Inert, RunInvariant, StartInvariant, PTL
     DEF LeftoverSpec, PolicingAsPromised, Base
===============================================================================
