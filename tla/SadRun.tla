------------------------------- MODULE SadRun -------------------------------
(***************************************************************************)
(* A whole run of sad_profile: core 0 loads the firmware, gives the cores  *)
(* their ready signal, runs the benchmark on the files alone, loads the    *)
(* firmware again, releases the other cores' interference and runs the     *)
(* benchmark once more.                                                    *)
(*                                                                         *)
(* What the firmware logs meanwhile is the subject of SadProfile; here it  *)
(* reports its status and writes to its memory.                            *)
(***************************************************************************)
EXTENDS FatFiles

CONSTANTS
    NumCores,
    TextBytes,   \* size of the firmware's text
    DataBytes,   \* size of its data, rodata and bss
    BufferBase,  \* CORE1_DATA_BASE - HEAP_BASE
    BufferGap,   \* CORE2_DATA_BASE - CORE1_DATA_BASE
    Lines,       \* cells a worker writes in its buffer, 8192 lines
    Timely       \* the values timely can have

Workers == 1 .. NumCores - 1

ASSUME RunAssumption ==
    /\ NumCores \in Nat \ {0} /\ {TextBytes, DataBytes, BufferGap, Lines} \subseteq Nat
    /\ BufferBase \in Nat /\ HeapLimit <= BufferBase
    /\ Timely \subseteq BOOLEAN

VARIABLES
    pc,          \* where core 0 is
    pass,
    go,          \* g_interference_go: 0 idle, 1 interfere, 2 stop
    done,        \* g_core_done
    k,           \* core 0's loop variable "core"
    coresReady,  \* DSPM_CORES_READY is 0xCAFE0001
    flag,        \* the ready words of cores 1-3 in the DSPM
    status,      \* DSPM_STATUS
    cmd,         \* DSPM_CMD is CMD_TRIGGER_INTERRUPT
    running,     \* PMC_STATUS is 0
    textOld,     \* words of the ISPM that differ from the image
    dataOld,     \* words from DSPM + 0x200 on that differ from the image
    wpc,         \* where cores 1-3 are
    timely       \* in this run the cores wait before core 0 signals, and answer in time

commVars == <<coresReady, flag, status, cmd>>
pmuVars == <<commVars, running, textOld, dataOld>>
coreVars == <<pc, pass, k>>
vars == <<coreVars, go, done, pmuVars, wpc, fileVars>>
allVars == <<vars, timely>>

\* the words that an image of n bytes takes up
ImageWords(n) == {b \div 4 : b \in 0 .. n - 1}

CoreSteps == {"reinit", "halt", "clear", "text", "data", "boot", "started", "hung",
              "signal", "flags", "trigger", "ready", "bench", "halt_end", "go",
              "stop", "exit", "end"}
WorkerSteps == {"await_clear", "await_signal", "flag", "loop", "check", "write",
                "cleanup", "end"}
Statuses == {"none", "started", "ready"}

TypeOK ==
    /\ pc \in CoreSteps /\ pass \in 1 .. 2 /\ k \in 1 .. NumCores
    /\ go \in 0 .. 2 /\ done \in [0 .. NumCores - 1 -> BOOLEAN]
    /\ flag \in [Workers -> BOOLEAN] /\ status \in Statuses
    /\ {coresReady, cmd, running} \subseteq BOOLEAN
    /\ textOld \subseteq ImageWords(TextBytes) /\ dataOld \subseteq ImageWords(DataBytes)
    /\ wpc \in [Workers -> WorkerSteps]
    /\ FilesTypeOK

\* crt.S does not clear the BSS, and nobody clears the DSPM: globals and
\* communication words are what an earlier run left, and its firmware may run.
Init ==
    /\ FilesInit
    /\ pc = "reinit" /\ pass = 1 /\ k = 1
    /\ go \in 0 .. 2
    /\ done \in {[c \in 0 .. NumCores - 1 |-> b] : b \in BOOLEAN}
    /\ coresReady \in BOOLEAN
    /\ flag \in {[w \in Workers |-> b] : b \in BOOLEAN}
    /\ status \in {"none", "ready"} /\ cmd = FALSE
    /\ running \in BOOLEAN
    /\ textOld = ImageWords(TextBytes) /\ dataOld = ImageWords(DataBytes)
    /\ wpc = [w \in Workers |-> "await_clear"]
    /\ timely \in Timely

-----------------------------------------------------------------------------
\* Core 0.

Go(from, to) == pc = from /\ pc' = to

Reinit_Mutation ==
    /\ Go("reinit", "halt")
    /\ done' = [c \in DOMAIN done |-> FALSE]
    /\ UNCHANGED <<pass, k, go, pmuVars, wpc, fileVars>>

\* g_interference_go and g_core_done are among the globals reinitialised
Reinit ==
    /\ Go("reinit", "halt")
    /\ go' = 0
    /\ done' = [c \in DOMAIN done |-> FALSE]
    /\ UNCHANGED <<pass, k, pmuVars, wpc, fileVars>>

\* load_and_start_pmu
Halt(from, to) ==
    /\ Go(from, to)
    /\ running' = FALSE
    /\ UNCHANGED <<pass, k, go, done, commVars, textOld, dataOld, wpc, fileVars>>

Clear ==
    /\ Go("clear", "text")
    /\ coresReady' = FALSE /\ flag' = [w \in Workers |-> FALSE]
    /\ status' = "none" /\ cmd' = FALSE
    /\ UNCHANGED <<pass, k, go, done, running, textOld, dataOld, wpc, fileVars>>

\* memcpy: the bytes past the last 8 that fit go to the wrong entries
WordsCopied_Mutation(size) == 0 .. 2 * (size \div 8) - 1
WordsCopied(size) == 0 .. (size + 3) \div 4 - 1

CopyText ==
    /\ Go("text", "data")
    /\ textOld' = textOld \ WordsCopied(TextBytes)
    /\ UNCHANGED <<pass, k, go, done, commVars, running, dataOld, wpc, fileVars>>

CopyData ==
    /\ Go("data", "boot")
    /\ dataOld' = dataOld \ WordsCopied(DataBytes)
    /\ UNCHANGED <<pass, k, go, done, commVars, running, textOld, wpc, fileVars>>

Boot ==
    /\ Go("boot", "started")
    /\ running' = TRUE
    /\ UNCHANGED <<pass, k, go, done, commVars, textOld, dataOld, wpc, fileVars>>

\* the first pass goes on with the set-up, the second with the interference
WaitStarted ==
    /\ \/ status = "started" /\ Go("started", IF pass = 1 THEN "signal" ELSE "go")
       \/ ~timely /\ Go("started", "hung")
    /\ UNCHANGED <<pass, k, go, done, pmuVars, wpc, fileVars>>

Signal ==
    /\ timely => \A w \in Workers : wpc[w] # "await_clear"
    /\ Go("signal", "flags")
    /\ coresReady' = TRUE /\ k' = 1
    /\ UNCHANGED <<pass, go, done, flag, status, cmd, running, textOld, dataOld, wpc, fileVars>>

\* a core that does not answer in time is passed over without a word
WaitFlags ==
    /\ \/ k \in Workers /\ (flag[k] \/ ~timely) /\ k' = k + 1 /\ Go("flags", "flags")
       \/ k = NumCores /\ k' = k /\ Go("flags", "trigger")
    /\ UNCHANGED <<pass, go, done, pmuVars, wpc, fileVars>>

\* run_profiling_pass
Trigger ==
    /\ Go("trigger", "ready")
    /\ cmd' = TRUE
    /\ UNCHANGED <<pass, k, go, done, coresReady, flag, status, running, textOld, dataOld, wpc, fileVars>>

WaitReady ==
    /\ status = "ready" /\ Go("ready", "bench")
    /\ UNCHANGED <<pass, k, go, done, pmuVars, wpc, fileVars>>

\* the benchmark works on its files
Bench ==
    /\ pc = "bench" /\ FilesNext
    /\ UNCHANGED <<coreVars, go, done, pmuVars, wpc>>

BenchEnd ==
    /\ Go("bench", "halt_end")
    /\ UNCHANGED <<pass, k, go, done, pmuVars, wpc, fileVars>>

\* run_profiling_pass halts the PMU; then the second load, or the end
PassEnd ==
    /\ Go("halt_end", IF pass = 1 THEN "halt" ELSE "stop")
    /\ pass' = 2 /\ running' = FALSE
    /\ UNCHANGED <<k, go, done, commVars, textOld, dataOld, wpc, fileVars>>

SetGo(from, to, value) ==
    /\ Go(from, to)
    /\ go' = value
    /\ UNCHANGED <<pass, k, done, pmuVars, wpc, fileVars>>

Exit ==
    /\ Go("exit", "end")
    /\ done' = [done EXCEPT ![0] = TRUE]
    /\ UNCHANGED <<pass, k, go, pmuVars, wpc, fileVars>>

Core0 ==
    \/ Reinit
    \/ Halt("halt", "clear") \/ Clear \/ CopyText \/ CopyData \/ Boot \/ WaitStarted
    \/ Signal \/ WaitFlags
    \/ Trigger \/ WaitReady \/ BenchEnd \/ PassEnd
    \/ SetGo("go", "trigger", 1) \/ SetGo("stop", "exit", 2)
    \/ Exit

-----------------------------------------------------------------------------
\* Cores 1-3.

WGo(w, from, to) ==
    /\ wpc[w] = from
    /\ wpc' = [wpc EXCEPT ![w] = to]
    /\ UNCHANGED <<coreVars, go, coresReady, status, cmd, running, textOld, dataOld,
                   volumeVars, heap, files>>

\* takes a ready signal that is there for a new one
Await_Mutation(w) ==
    /\ \/ WGo(w, "await_clear", "await_signal")
       \/ coresReady /\ WGo(w, "await_signal", "flag")
    /\ UNCHANGED <<flag, done, mem>>

\* waits for a ready signal of an earlier run to go, then for the new one
Await(w) ==
    /\ \/ ~coresReady /\ WGo(w, "await_clear", "await_signal")
       \/ coresReady /\ WGo(w, "await_signal", "flag")
    /\ UNCHANGED <<flag, done, mem>>

Flag(w) ==
    /\ WGo(w, "flag", "loop")
    /\ flag' = [flag EXCEPT ![w] = TRUE]
    /\ UNCHANGED <<done, mem>>

Loop(w) ==
    /\ \/ done[0] /\ WGo(w, "loop", "cleanup")
       \/ ~done[0] /\ WGo(w, "loop", "check")
       \/ go = 1 /\ WGo(w, "check", "write")
       \/ go # 1 /\ WGo(w, "check", "loop")
    /\ UNCHANGED <<flag, done, mem>>

\* write_interference_mem
Buffer(w) == BufferBase + (w - 1) * BufferGap
Write(w) ==
    /\ WGo(w, "write", "loop")
    /\ mem' = [a \in Addresses |->
                  IF a \in Buffer(w) .. Buffer(w) + Lines - 1 THEN Junk ELSE mem[a]]
    /\ UNCHANGED <<flag, done>>

Cleanup(w) ==
    /\ WGo(w, "cleanup", "end")
    /\ done' = [done EXCEPT ![w] = TRUE]
    /\ UNCHANGED <<flag, mem>>

Worker(w) == Await(w) \/ Flag(w) \/ Loop(w) \/ Write(w) \/ Cleanup(w)

-----------------------------------------------------------------------------
\* The firmware.

\* clears the command and reports that it has started, waits for the command,
\* clears it and reports that it is ready; its variables, part of the image
\* core 0 loaded, have changed by then
Firmware ==
    /\ running /\ cmd' = FALSE
    /\ \/ status = "none" /\ status' = "started" /\ UNCHANGED dataOld
       \/ status = "started" /\ cmd /\ status' = "ready" /\ dataOld' = ImageWords(DataBytes)
    /\ UNCHANGED <<coreVars, go, done, coresReady, flag, running, textOld, wpc, fileVars>>

Next ==
    /\ \/ Core0 \/ Bench
       \/ \E w \in Workers : Worker(w)
       \/ Firmware
    /\ UNCHANGED timely

\* Every processor keeps executing, and the benchmark comes to its end.
Fairness ==
    /\ WF_allVars(Core0 /\ UNCHANGED timely)
    /\ WF_allVars(Firmware /\ UNCHANGED timely)
    /\ \A w \in Workers : WF_allVars(Worker(w) /\ UNCHANGED timely)

Spec == Init /\ [][Next]_allVars /\ Fairness

-----------------------------------------------------------------------------
\* Properties.

\* The firmware only ever starts from a complete image, with nothing of the
\* last pass or run in the communication words, and not while it still runs:
\* every step that boots it finds all bytes of text and data in place
\* (load_and_start_pmu, for both passes).
ImageLoaded ==
    /\ ~running
    /\ \A b \in 0 .. TextBytes - 1 : b \div 4 \notin textOld
    /\ \A b \in 0 .. DataBytes - 1 : b \div 4 \notin dataOld
    /\ status = "none" /\ ~cmd /\ ~coresReady
ImageStarted == [][Go("boot", "started") => ImageLoaded]_allVars

\* The first pass is alone: until core 0 releases it in the second pass, no
\* core writes interference, whatever an earlier run left in the go flag and
\* the ready word and whether or not the cores are in time.
PassOneSolo == \A w \in Workers : wpc[w] = "write" => pass = 2 /\ go # 0

\* If the cores are in time, every one of them comes to its end: none is left
\* waiting for a ready signal that the second load clears, or in its loop.
WorkersFinish == timely => <>[](\A w \in Workers : done[w])
=============================================================================
