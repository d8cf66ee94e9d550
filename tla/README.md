# Formal models of the APMU software

This directory holds TLA+ models of the programs in this repository that run
*together*: the firmware of the APMU (a small RISC-V core beside the
performance counters, "PMU" in the code) and the CVA6 program on harts 0-3. Two
such pairs exist, `mempol` (bandwidth policing) and `sad_profile` / `evu_test`
(profiling of a function by milestones). TLC checks the models on small
instances; TLAPS proves the theorems of the modules named `..._proofs` for all
instances.

## 1. Inventory

Paths are relative to `src/`.

### mempol: firmware and trap handlers (`mempol/pmu_firmware/main.c`, `mempol/pmu_bench.c`)

| | firmware poll loop | trap handler of core c |
|---|---|---|
| state | `token[]`, throttle counters 28-31, "sent" counters 21-24 | `g_saved_mepc`, `g_paused`, `g_interrupt_count`, `mepc` |
| shared | counter c, the *channel word*: command (pause, resume) or `CVA_ACK_MASK`; counters 4-19, the traffic; the overflow interrupt 156 + c | the same |
| operations | read and reset traffic, charge the bucket, check the acknowledgement, write a command, record the state | claim, count, read the word, park in `wfi_loop` or return to the saved address, acknowledge, complete |

A core whose bucket is negative is to be paused, and resumed when the bucket has
refilled. Firmware and handler share no lock: the firmware sends a command only
when the word carries the acknowledgement, and the handler replaces the command by
it. **Hard:** every access to the word is a separate bus transaction on two
processors; the firmware notes what it sent after it has sent it; the handler
acknowledges before it completes the interrupt and returns; the overflow
latch can raise the interrupt again. **Correct when** the two sides agree on each
core's state whenever a new command may be chosen, no command is lost or overwritten,
each core continues exactly where it was interrupted, and no core stays parked.

### mempol: the run (`main()` and `setup_core_interrupt` in `mempol/pmu_bench.c`)

State: the PMU's run/halt register, command, status and ready words in the DSPM,
the globals `g_interference_go`, `g_core_done`, the PLIC, each hart's interrupt
enable. Core 0 loads and starts the firmware, waits for its status, signals the
workers with a two-phase word, waits for their ready flags (with timeouts),
configures counters, releases the workers and the policing, runs its stages, then sets
`g_core_done`, halts the PMU, resumes parked workers and waits for them. **Hard:**
start-up and shutdown of four harts and a PMU, timeouts, state left by an earlier run
(`crt.S` does not clear the BSS and nobody clears all hardware counters), and
policing that goes on while core 0 ends the run. **Correct when** policing starts on a
clean channel, nothing but firmware and handler touches it while policing is on,
nothing left by an earlier run is taken for this run's, and the run ends.

### sad_profile and evu_test (`sad_profile/`, `evu_test/`)

Core 0 calls the profiled function; hardware counts its entries and exits in
counters 20 and 21; the firmware polls both, and logs cycles and eight event counts
per call in the DSPM, where core 0 reads them when the pass is over. State:
the two counters, the firmware's `cur_*`, `prev_*`, `mcycle_entry` and baselines, the
log (count, totals, records), status and command words. **Hard:** the two counters
are read one after the other while the program runs; an entry and an exit seen in the same
iteration are processed in a fixed order; readiness, counter reset and halt race with the
program; each pass restarts the firmware. **Correct when** every call is
counted and logged once, a record measures its own call, and the result read after
the halt is complete.

### mempol: metering (`mempol/pmu_firmware/main.c`, stages and log dump in `mempol/pmu_bench.c`)

State: counters 4-19, four for each core; the firmware's snapshot, `token[]` (an `int32_t`), the
DSPM log with its count; core 0's stage buffers and its 64-bit timer. The firmware reads a core's four counters,
resets them, charges the bucket and logs core 0; core 0 resets and reads its own four around every
iteration of a stage. **Hard:** eight separate accesses per core while the hardware counts and core 0
resets; products and a bucket in 32 bits; a log record of two words and a count that a halt can cut anywhere; a timer
read in two halves. **Correct when** no access is charged twice, what is lost is lost in a known
place, and bucket, cycles and log are exact within their widths.

### sad_profile: the run and the files (`sad_profile/pmu_bench.c`, `fat16.c`, `fat_file.c`, `bare_malloc.c`)

State: firmware image in ISPM and DSPM, communication words, `g_interference_go`, `g_core_done`; two
FATs, root directory, clusters; heap pointer and memory; open files. Core 0 loads the firmware (halt, clear, copy, boot), signals
the workers, runs the benchmark alone, loads again, releases the interference, runs again. The benchmark opens files, which copies their cluster
chain to the heap. **Hard:** globals and DSPM of an earlier run; a reload over a dirty image and over the ready signal;
memories that ignore byte strobes; an allocator without a limit, whose region holds the workers' buffers. **Correct when** only
a complete image is started, the first pass is alone, every worker ends, the volume stays consistent and open
files stay what was loaded.

### Other parts

* **Drivers** (`inc/`: IOPMP, APLIC, LLC, PLIC, UART), **boot code**, **C
  runtime**, **bare-metal maths**: straight-line or library code.
* **SD-VBS**, **PULP platform library**: third-party. **Scripts**: build time.

## 2. Modules

| module | models | composed with |
|---|---|---|
| `CoreThrottle` | what policing promises a core: one order at a time, obeyed once, the program continues where it stopped | refined by `MempolHandshake`, and by `MempolRun` while policing is on |
| `MempolHandshake` | poll loop and trap handlers in the steady state | `INSTANCE`d by `MempolRun` |
| `MempolHandshake_proofs` | theorems about it, the refinement among them | |
| `MempolInterrupts_proofs` | theorems on the delivery of its interrupts | uses the theorems above |
| `MempolRun` | a whole mempol run on all harts, boot to end | uses the actions of `MempolHandshake`; instance in `MCRun` |
| `MempolRun_proofs` | theorems about it | |
| `SadProfile` | both milestone programs, core 0 and firmware | |
| `SadProfile_proofs` | theorems about it | |
| `SadCalls_proofs` | theorems about calls without a pause between them | uses the theorems above |
| `TrafficMeter` | counters 4-19, bucket arithmetic, log, stages and timer of mempol | instances in `MCMetering` |
| `TrafficMeter_proofs` | theorems about it | |
| `FatFiles` | FAT16 volume, open files, bump allocator | extended by `SadRun` |
| `FatFiles_proofs` | cluster chains and what the operations keep of a volume | used by `SadRun_proofs` |
| `SadRun` | a whole sad_profile run on all harts, the benchmark using the files | instances in `MCSad` |
| `SadRun_proofs` | theorems about it and its files | |

### How they correspond to the code

`MempolHandshake`. `word[c]` is counter c. Of its bits only those the two sides look
at are kept: "pause" is 0x40000000, "resume" 0x41000000, "ack" `CVA_ACK_MASK`,
"zero" a cleared word, which the handler takes for a pause. `traffic[c]` is the weighted sum of the core's four counters;
`Refill` is B * P and `W` the cap factor. `fpc` steps through the
loop of `main.c`: `FwRead`, `FwReset`, `FwCheck` (with its three outcomes), `FwSend...`, `FwMark`.
`hpc[c]` steps through `handle_trap_c`: `HClaim`, `HRead`, one of `HPause`, `HResume`,
`HIgnore`, then `HAck`, `HComplete`. Each action makes at most one access to shared
memory, so TLC sees every interleaving of the bus accesses. `at[c]` is where the core
executes or where `mret` will take it. `Raise` and `Refire` are the interrupt
hardware: with `Spurious` the overflow latch may raise an interrupt again, with
`Lossy` the PLIC may drop a request while one is in service. A spurious interrupt
that finds "ack" is ignored, as in the code.

`MempolRun` adds the rest of the run. The positions of a core are the labels of `main()`,
so an interrupt, a pause or a resume can hit every point of the run; every store to
shared state is a step. The variable `timely` is fixed for a run: if it is TRUE, cores answer before core 0's timeouts
expire and the workers are in their wait when core 0 signals; if not, a timeout may expire at any time.
`Timely` is the set of values a run may start with. The four initial predicates are
power-on and the states an earlier run can leave behind.

`SadProfile` counts time in milestones (`now`), so a stamp says which call it was taken in.
The nine metrics of a record are modelled as two, the cycle stamp and one event
count, because entry takes them in two places. `SlowCalls`, `SlowGaps`, `SlowStart` and
`SlowEnd` say which of the program's intervals last for a full iteration of the poll
loop; `polls` counts the iterations begun since the last milestone to express it.

`TrafficMeter` takes the handshake out (the acknowledgement is any answer) and puts the
arithmetic in. `FwRead` and `FwReset` are one access each, by group and core, so accesses of the cores and core 0's
`StageReset` fall between any two; `Signed` is the conversion to `int32_t`, with `HalfWord` for 2^31;
`FwLogCounts`, `FwLogToken`, `FwLogCount` are the three stores of a log record. `Selected` are the event selectors of
`pmu_defines.h`. The variables from `caused` on record what happened and are read by the properties only.

`FatFiles`. A byte of memory is named by where it came from (byte i of cluster c, a zero, part of a
`FAT_FILE`, the benchmark's own), so that "the file is still what was loaded" can be said; `Answers` is
the relation `entry_matches` computes between path components and 8.3 names. The benchmark calls the operations in any order
(`FilesNext`); `fat16_create` has no caller in the repository and is part of it, as the API the module offers.
The volume is laid out in 16-bit words as `fat16_mount` finds it, for two FATs, as in the shipped image: FAT1, FAT2, root directory, clusters
(`Words`, `RootWord`, `DataWord`, `ClusterWord`). `fat16_alloc` scans words up to 0xFFF6 (`Scanned`) whatever a FAT holds (`FatEntries`), and sets the word it
finds and the one a FAT further on to 0xFFFF (`Hit`), wherever they are: in FAT2 (`fat2`), in an entry of the root directory, whose name, first
cluster or size they may be (`Struck`), or in the data behind (`marked`), which files and sub-directories are read from (`Content`, `FindInDir`).
`reach` is the highest cluster it has returned; only properties read it. Of the memory behind the volume, where the `memset` of such a cluster goes, nothing is modelled,
and the scan goes no further than the root directory, as long as that has a word that is 0: always on the shipped image, which uses 4 of 64 entries.
`SadRun` has one action per store of core 0 or a worker to shared state; words of the image in `textOld`, `dataOld` differ from the
image, and the firmware makes its data differ. What the firmware logs is `SadProfile`'s subject.

Definitions named `X_Mutation` beside a definition `X` are what a plausible bug would make of it. No
specification uses them: they show that a property can fail.

Abstracted throughout: formatting and printing, breadcrumbs and cycle padding, register addresses.

## 3. What the runs show

| run | question | bounds |
|---|---|---|
| `handshake_one` | Do firmware and one core keep in agreement through all interleavings, do counts and logged types agree, are overdrafts answered and pauses ended, is `CoreThrottle` with its fairness implemented? | 1 core, 2 positions, counts wrap after 2 |
| `handshake_two` | Do the inductive invariant, safe returns and the refinement hold when one loop serves two cores, with repeated and dropped interrupts? | 2 cores, 2.9 million states |
| `run_policing` | Does policing stay undisturbed by `main()`, so that the whole run is what `CoreThrottle` promises, are workers inert when finished, and does nobody wait in a circle? | 2 harts in overdraft, 1.7 million states |
| `run_leftover` | Does a run that finds a command, pending interrupt, latched overflow, ready signal and go flag of an earlier run take none of the interrupts for its own, although timeouts expire? And if they do not expire, does policing start clean and every worker get its signal? | 3 harts, leftovers on any one of them, go flag and ready signal together (with any on all: the theorems on `LeftoverSpec`), each wait of 1 poll; `Costs = {0}`, so no core exceeds its budget and no handler runs |
| `sad_slow` | Are counters, records and results exact over two passes when calls and gaps last an iteration, with the record area full? | 3 calls, 2 records, 2 passes |
| `sad_evu_test` | With back-to-back calls, is every call logged once, never early and without charging time twice? | 4 calls |
| `metering` | Is an access charged at most once and lost only between a read and its reset; do stages never report too much; are bucket, cycles and log exact, wrapped, torn and cut off as they may be? | 2 cores, 2 accesses, 2 stages, 1 record; `int32_t` of 6 values, 1.3 million states |
| `sad_run` | Is only a complete image started, is the first pass alone, do the workers end, are volume and open files intact? | 2 harts, 3 volumes of 9 clusters with a FAT entry behind them: with room, without a slot (the only one in runs that are not in time), without a free cluster; 2 open files |

Four runs look for, and find, a disagreement between the code and what its
comments or documents say:

* `run_rerun`: nobody initialises the throttle state in counters 28-31. After a
  run that ended with a core throttled, the next one resumes that core although it
  runs, and sends it to `g_saved_mepc`, which is 0.
* `run_stranded`: core 0 looks at each `g_paused` once when it resumes "any paused
  cores"; a worker whose pause is still pending parks afterwards and never finishes.
* `sad_long_call`: when a call ends and the next begins within one iteration, the
  entry is processed first and overwrites the start of the call that has ended: a long call is
  recorded as poll overhead. The documents except short calls only.
* `metering_selector`: `MEM_WR_REQ_CORE_1` has the value of `MEM_WR_REQ_CORE_2`, so core 1's bucket pays
  for core 2's memory writes and its own are free.

The models show more of the kind, without a run of their own: change a constant or an initial
predicate of a run above.

* `MempolRun`'s `MainEnds` under `FairSpec`: the firmware polices core 0 too (`mempol/pmu_firmware/main.c:9-10` says cores
  1-3). If core 0 is paused, or its pause is pending, when it halts the PMU, it is never resumed.
* `WorkerWaitGo`: `g_interference_go` is not among the globals mempol's `main()` reinitialises "in case BSS not
  cleared" (`sad_profile` does); workers that find it set by an earlier run (`LeftoverInit`) start their interference before core 0
  says so. Start-up withstands that: `run_leftover` and the theorems on `LeftoverSpec` include it.
* `ResumeOnlyParked` with `Timely = {FALSE}`: core 0 goes on after a ready timeout, and the
  late core's setup throws away a pause the firmware counts as done.
* `SignalReachesWorkers` without its `timely`: a worker that comes to the
  two-phase wait after the fresh signal takes it for a stale one and waits for ever. In `SadRun`, `WorkersFinish`
  without `timely`: a late worker misses the signal when the reload clears it.
* `MainWaitStarted`: a status that arrives with the last poll is reported as a timeout.
* `MainResume`: core 0's resume can reach a worker for which the firmware's own
  resume is pending; the running worker jumps back to its last pause.
* `WorkerClear`, `SetupDrain`: core 0 sets `g_core_done` before it halts the PMU, so
  the firmware can write a last command after a worker has drained its PLIC.
* `CountersExact` with `SlowStart = FALSE`: the firmware reports ready before it zeroes
  counters 20 and 21, although its comment says it "NEVER resets" them, and a milestone in between is wiped.
* `ResultComplete` with `SlowEnd = FALSE`: core 0 halts the firmware before the delay meant for
  its last log write.
* `RecordsExact` with `SlowCalls = FALSE`: a short call whose entry falls between
  the two counter reads is recorded with the time since the previous entry.
* `VolumeConsistent` without what it says of `reach`: on a full volume `fat16_alloc` does not return 0, as `fat16.h:45` promises. It returns
  entries behind the last cluster (304 to 1023 on the shipped image, which has no free cluster), clears memory behind the volume, and when these are used up (on the
  shipped image the 60 free slots of the root directory are used up before) sets words
  of the root directory, such as the upper half of a file's size. `sad_run` contains such runs; the property says how far consistency goes.
* `OpenFilesIntact` with `HeapLimit > BufferBase`: `HEAP_SIZE` is 4 MiB from 0x81000000, the workers' buffers start
  at 0x81100000, and `bare_malloc` checks neither. Two passes on the shipped images need about 0.4 MiB.
* `StageNeverOverReports` is only half of an equality: the firmware resets core 0's counters within the same
  iteration, so a stage reports what came after the last poll. And `LossOnlyInWindow` excludes core 0, whose own
  `reset_counters(0)` erases up to one poll's traffic uncharged in every iteration.
* `BucketExact` speaks of buckets that have fitted: there is a cap and no floor, so a core that does not acknowledge for long can wrap
  its debt into credit.
* `fat_fopen` of an entry whose chain is shorter than its size leaves the rest of the buffer uninitialised;
  `fat16_create` does not look for an existing entry of the name.

### Why the bounds are enough

The firmware serves one core at a time and cores share nothing but the loop, so two cores
show every interaction; a third hart matters to the wait loops of core 0 and is
there in `run_leftover`. The buckets are tested only for their sign, so a bucket
with one overdraft, zero and its cap is enough; `handshake_one` has several of each. `MaxTraffic` and `MaxOverdraft`
bound what a core causes between two resets. `MaxCount` lets the 32-bit
interrupt counts wrap after a few steps (after every step where counts do not matter). A timeout of one poll can expire and be
met, at every step of the partner. `run_leftover` is about the start, before any
core is policed, and has no core over its budget; with one, workers can be left parked as in `run_stranded`, so that no run
claims that every run ends. `HangsOnlyParked` in `run_policing` says that this is the only way to get stuck. In `SadProfile` the firmware compares a counter only
with its previous value, so three or four calls show a first, a middle and a last call; `MaxLogRecords`
below `Calls` fills the log in `sad_slow`.

In `metering` the integers are so small that one access leaves the `int32_t`, the log and the 30-bit token: every
width is exceeded and met. The two kinds of access are the first counter of the policed worker and the last of
core 0, so that each can fall between any read and reset; two stages show a first and a last one, and a log of one record fills and overflows.
In `sad_run` a file of two clusters and one in a directory can be open at the same time on a
heap that fits both and little else. Of the volumes one has a deleted slot, one none, and one no free cluster and a root directory as long as a FAT. The
allocator comes to the entry behind the last cluster and goes on into the root directory, where it overwrites a size, and with its copy for FAT2 into the root again and the data.
With one log record in `metering`, that a record is not one of an earlier iteration is left to the theorem `DumpTruthful`. The 31-bit mask on counter
reads is left out: no counter gets there within a poll.

Runs of `MempolRun` and `SadProfile` end: harts idle and the PMU is halted. Deadlock is
not an error there (`CHECK_DEADLOCK FALSE`), and the liveness properties say what must
have happened by then. In the steady state of `MempolHandshake` deadlock is checked.

### Fairness

Weak fairness of the firmware and of every handler in `MempolHandshake`: the PMU runs
nothing but the loop, and a core with an interrupt pending takes it, since
interrupts are enabled and `wfi_loop` wakes on it. The cores' own work is not fair. In
`MempolRun` each hart also keeps executing, and `MainFinish` is fair because the number of stages is
fixed. In `SadProfile` core 0 and the firmware keep executing; in `SadRun` every hart and the firmware, and the benchmark
comes to its end (`BenchEnd` is a step of `Core0`). `TrafficMeter` has safety properties only. No strong fairness is assumed.

## 4. What is proved

Every theorem holds for all values of the constants that satisfy its module's
`ConstantsAssumption`. In `MempolHandshake` that is: at least one core and one position,
positive `Refill` and `W`, natural numbers elsewhere, and `wfi_loop` and address 0 are not
positions of the program. In `MempolRun` (`RunAssumption`): at least one core, positive `Refill` and `W`, natural numbers elsewhere. In `SadProfile`: one of the two programs, at least one pass, natural numbers elsewhere.
In `TrafficMeter`: the bucket's cap and one refill fit an `int32_t` (the code's 2 * 172000 and 172000 do), and the log's token is not wider than the bucket.
In `SadRun`: volumes and directories are well-typed, a FAT has an entry for every cluster and no more than the scan reaches (65,527; the shipped one has 1,024), the volume that is mounted is consistent (`VolumesAssumption`: `fat16_mount` checks nothing but the
boot sector), and the benchmark stops allocating below the workers' buffers (`HeapLimit <= BufferBase`); the code does not check that, see above.

| theorem | says |
|---|---|
| `Inductive` | `HandshakeInv` is invariant |
| `Agreement` | an acknowledged word means firmware and core agree |
| `ReturnSafety` | handlers return to the point they interrupted, or to `wfi_loop` exactly when the core is paused; never to address 0 |
| `Obedience` | a command stays until the core has obeyed it |
| `Refinement` | every step is a step of `CoreThrottle` or leaves it alone |
| `Accounting` | interrupts sent and received differ by the pending one |
| `LogTruth` | the logged type of an interrupt is the type of its command |
| `StaleFree` | no handler runs for a command or interrupt of an earlier run |
| `CleanStart`, `Kept` | if the harts are in time, policing starts clean and nothing but firmware and handler touches the handshake until core 0 has finished |
| `KeepsPromise` | then every step of the run in that time, `main()` included, is a step of `CoreThrottle` or leaves it alone |
| `ResumesParked` | then a resume reaches parked cores only, if the throttle state was clear |
| `Inertness` | a finished worker takes no interrupt |
| `NeverAhead` | `sad_profile`'s log never has more calls than have ended |
| `Exactness` | with a late first call the milestone counters are exact |
| `SteadyRecords` | with slow calls and gaps, record i measures call i |
| `SteadyResult` | with a slow end too, core 0 reads the whole pass |
| `AllCounted`, `Disjoint` | with slow calls and any gaps every call is counted and no time is charged twice |
| `NoDoubleCharge`, `OnlyTheWindow` | no access is charged twice; a worker's are lost only between read and reset |
| `NeverOverReports` | a stage reports no access from before it |
| `CyclesExact` | a stage's cycles survive torn timer reads |
| `BucketNeverDrifts` | the 32-bit bucket is the unbounded one as long as that fits |
| `DumpTruthful` | every counted log record is what the firmware did |
| `FilesSafe` | open files stay as they were loaded, whatever benchmark and workers do |
| `Solo` | no interference in the first pass, in time or not |
| `ImageSafe` | only a complete image is booted, for any image size |
| `VolumeSound` | in any volume, as long as clusters are found in FAT1 the FATs agree, every used cluster belongs to exactly one file and chains end; as long as in the volume, chains stay there; and that they are until none is free |
| `Typing` (in `MempolRun_proofs`: `TypeCorrect`) | `TypeOK` of `MempolHandshake`, `MempolRun`, `SadProfile`, `TrafficMeter`, `SadRun`; for the last two it replaces a run |

**Handshake.** `ThrottleAgreement` is not inductive: it says nothing of a word with a command
in it, from which the next acknowledgement comes. `HandshakeInv` adds, per
core, that a pause in the word means the firmware has decided to throttle and the core is paused
exactly between obeying and acknowledging (`hpc = "ack"`), the mirror image for a resume,
that the handler's copy of the word is the word or a spurious "ack", and
that a decision about to be sent was made on an acknowledged word. The clause
`word = "ack" => hpc # "ack"` is what makes spurious interrupts harmless: the first six theorems hold with repeated and dropped requests.
The proof that it is preserved has one step per action; the next theorems follow from it.
For the refinement, `HPause` and `HResume` are the abstract `Obey`, `FwSend...` the abstract
orders, and the rest stutters (lemma `Invisible`).

**Interrupts.** `Accounting` and `LogTruth` need more, and only hold where the hardware neither
repeats nor drops a request: an interrupt is pending or in service exactly while the word carries a
command, and the handler's copy is that command (`Delivery`).

**The run.** The theorems hold for any number of harts and any timeouts, from every state an earlier run can leave except its
throttle state (`LeftoverSpec`, which contains power-on: lemma `PowerOn`); with that `ResumeOnlyParked` fails, as section 3 says. `RunInv` says that until the firmware polls, no core with interrupts enabled has one pending (`QuietInv`: boot clears
the words, setup drains the PLIC and the latch before it enables), and that core 0 has passed its trigger when the firmware polls
(`MasterInv`); so nothing old is ever taken, whatever the timeouts do. `StartInv` follows the start-up of harts that are in time: core 0 comes
to the trigger only with every worker ready, so policing begins in a state that satisfies the steady state's `CoreInv`,
and each step of `main()` keeps it until core 0 has finished. `KeepsPromise` follows: the policing begins with the last
acknowledgement of the boot, all cores running (`CleanStep`); the abstract steps of firmware and handlers are those of `Refinement`, and a step of
`main()`, which touches no word then, is the abstract `Work` of its core (`AbsMoves`). `InertInv` follows a worker's clean-up. The proofs have one step per action of
`main()` and one per action taken over from `MempolHandshake`.

**Profiling.** `LogInv` ties the firmware's boot to core 0's progress (a restarted
firmware waits with a cleared log, it cannot take the last pass's command or report its status) and says in the poll loop that
`call_count <= prev_exit <= cur_exit <= counter 21`, with `prev_exit < cur_exit` while an exit is
logged; that is `NeverAhead`, for any timing. `Late` says that nothing happens before the
counters are zeroed, if the first call leaves the time. For the last two theorems `Tracking` lists how far behind
the firmware can be when every interval lasts for an iteration: by one milestone, which it may see in
the iteration under way (an exit) or only in the next one (an entry). From it, `OpenCall` gives the value
of the stamps, `LogExact` the log, and `Reported` what core 0 reads. `Typing` says that nothing the firmware reads, stamps or counts is
ever ahead of the program, and that it stays within its record area.

**Calls without a pause.** Without slow gaps (`evu_test`) the firmware can owe the last exit when the next entry comes, and be seen to process that entry
first; but a call that lasts for an iteration leaves the time to catch up before its own exit (`Behind`). So record i begins with its own entry or
the next one and ends before the next exit (`Near`), which is not exact and still disjoint.

**Metering.** `NoDoubleCharge` adds what the firmware holds in its snapshot to what it has charged and what the counter
still holds (`Accounted`): a read, a reset, a charge and core 0's reset can only lower that sum, an access raises it as much as
the right-hand side. `CyclesExact` and `BucketNeverDrifts` are about residues: a torn timer differs from the true one by
a multiple of 2^32, which the cast to 32 bits removes, and `V` that does not fit differs from the true one by a multiple of 2^32, which the
conversion of the sum removes again. `DumpTruthful` follows the record through its three stores.

**The sad_profile run.** `FilesSafe` rests on `Intact`: each open file lies below the heap pointer, handle before buffer, so later allocations (above) and the
workers' buffers (above `HeapLimit`) miss it, and the cursor never leaves the file (`CursorInside`).
`Solo` needs that a worker past its wait implies that core 0 has initialised the flag (`SoloInv`), and `ImageSafe` that the PMU
is halted and the words cleared from the halt to the boot (`LoadInv`), with `EveryByteCopied` for `(size + 3) / 4`.

**The volume.** `VolumeConsistent` follows cluster chains, which are a recursive function of the FAT, so `FatFiles_proofs` needs induction: it states it
for a set that has 0 and the successor of each member (`SetInduction`, from the well-foundedness of the numbers). `ClusterAtDef` gives the function its
recursion; a chain whose `FatEntries`-th member is the end mark stays there (`ChainSticks`), so no free cluster is in it (`FreeNotInChain`: the chain would
stay at 0); a FAT that differs in a free cluster only has the same chains (`ChainKept`), and the chain of the cluster just taken is that cluster
(`ChainOfNew`). So `fat16_create` adds one owner and its one cluster (`CreatedSound`), and no other operation changes a chain (`fat16_set_size`: `ResizedSound`).
A cluster found in FAT1 is marked there and in FAT2 and no word of the root directory with it (`RootUntouched`), so consistency
ends only where the scan leaves FAT1; and since `fat16_alloc` takes the first free word, a cluster behind the last one means that no cluster of the volume was free.

Only model-checked: all liveness, including the fairness part of the refinement (`AbsFairSpec`), and `HangsOnlyParked`. They rest on fairness and ENABLED, which the prover does not
treat.

## 5. Not modelled

* The PULP platform library under `inc/` (padframe and FPGA padframe headers and setters, uDMA, GPIO): generated or vendored register definitions. They
  are over half of the repository's lines; no program here keeps state in them, so nothing of them appears in the models.
* SD-VBS: a third-party workload. It appears as the traffic, calls and file accesses it causes.
* `pmu_test_func.c` and `.h`, `riscv_encoder_instr.c`: helpers for tests, mostly without a caller in the repository.
* PLIC, IOPMP, APLIC and LLC drivers, boot code, C runtime, maths, printf and strings: single register accesses or sequential library code.
  What matters of them (the PLIC's claim, the BSS that is not cleared) is in the models.
* `evu_test`'s check of the milestone addresses and its verdict; the read-back of the ISPM, which prints a number.
* Build scripts. The log area of `sad_profile` (to DSPM + 0xAD20) against `DSPM_LENGTH`: two headers disagree about the memory.
* Printing, formatting, breadcrumbs, cycle padding. Floating-point results.

## 6. Plan

Done, in this order: `CoreThrottle`, `MempolHandshake`, `MempolHandshake_proofs`, `MempolRun`, `SadProfile`,
`MempolInterrupts_proofs`, `SadProfile_proofs`, `TrafficMeter`, `TrafficMeter_proofs`, `FatFiles`, `SadRun`, `SadRun_proofs`, `MempolRun_proofs`, `SadCalls_proofs`, `FatFiles_proofs`.
Every safety invariant and action property that a passing run checks is stated by a theorem, except `HangsOnlyParked`. That and liveness are left to TLC.
