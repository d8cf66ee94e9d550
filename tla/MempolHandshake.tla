-------------------------- MODULE MempolHandshake --------------------------
(***************************************************************************)
(* The steady state of mempol: the PMU firmware polls the traffic counters *)
(* of every core, keeps a token bucket per core, and pauses and resumes    *)
(* the cores through one shared word per core (counter 0-3); the cores     *)
(* obey in their PLIC interrupt handler and acknowledge in the same word.  *)
(*                                                                         *)
(* Every access to a shared word is a step of its own, on both sides.      *)
(* The constants of the code appear as: Refill = B * P, W = w.             *)
(***************************************************************************)
EXTENDS Integers

CONSTANTS
    NumCores,    \* NUM_POLICED_CORES
    Positions,   \* the points of a core's own program
    Wfi,         \* the address of wfi_loop
    Zero,        \* address 0, the value main() gives g_saved_mepc
    Refill,      \* budget added to a bucket every period
    W,           \* cap multiplier
    Costs,       \* weighted traffic one step of a core may cause
    MaxTraffic,  \* bound: weighted traffic of a core in one period
    MaxOverdraft, \* bound: a core causes no traffic beyond this overdraft
    MaxCount,    \* last value of the 32-bit interrupt counts before they wrap
    Spurious,    \* may the overflow latch raise an interrupt again
    Lossy        \* may the PLIC drop a request while one is in service

ASSUME ConstantsAssumption ==
    /\ NumCores \in Nat \ {0}
    /\ Positions # {}
    /\ Wfi \notin Positions /\ Zero \notin Positions /\ Wfi # Zero
    /\ Refill \in Nat \ {0}
    /\ W \in Nat \ {0}
    /\ Costs \subseteq Nat
    /\ MaxTraffic \in Nat
    /\ MaxOverdraft \in Nat
    /\ MaxCount \in Nat
    /\ Spurious \in BOOLEAN /\ Lossy \in BOOLEAN

Cores == 0 .. NumCores - 1

\* 0, CVA_ACK_MASK, 0x40000000 and 0x41000000
Words == {"zero", "ack", "pause", "resume"}

VARIABLES
    word,        \* counters 0-3: the command and acknowledge channel
    traffic,     \* counters 4-19: a core's weighted traffic since the reset
    throttled,   \* counters 28-31
    sent,        \* counters 21-24
    pending,     \* interrupt 156 + c is pending in the PLIC
    at,          \* where core c executes, or will execute after mret (mepc)
    hpc,         \* next step of handle_trap_c on core c, "none" outside it
    counterVal,  \* counter_val[c]: the handler's copy of the word
    saved,       \* g_saved_mepc
    paused,      \* g_paused
    received,    \* g_interrupt_count
    fpc,         \* next step of the firmware's poll loop
    idx,         \* the core this step of the poll loop is for
    fwV,         \* V, the traffic read in this iteration
    token        \* token[]: the token buckets

channel == <<word, pending>>
coreVars == <<at, hpc, counterVal, saved, paused, received>>
firmwareVars == <<fpc, idx, fwV, token, throttled, sent>>
vars == <<word, traffic, throttled, sent, pending, at, hpc, counterVal, saved,
          paused, received, fpc, idx, fwV, token>>

FirmwareSteps == {"read", "reset", "check", "send_pause", "send_resume",
                  "mark_pause", "mark_resume"}
HandlerSteps == {"none", "read", "switch", "ack", "complete"}
Addresses == Positions \cup {Wfi, Zero}

TypeOK ==
    /\ word \in [Cores -> Words]
    /\ traffic \in [Cores -> Nat]
    /\ throttled \in [Cores -> BOOLEAN]
    /\ sent \in [Cores -> 0 .. MaxCount]
    /\ pending \in [Cores -> BOOLEAN]
    /\ at \in [Cores -> Addresses]
    /\ hpc \in [Cores -> HandlerSteps]
    /\ counterVal \in [Cores -> Words]
    /\ saved \in [Cores -> Addresses]
    /\ paused \in [Cores -> BOOLEAN]
    /\ received \in [Cores -> 0 .. MaxCount]
    /\ fpc \in FirmwareSteps
    /\ idx \in Cores
    /\ fwV \in Nat
    /\ token \in [Cores -> Int]

-----------------------------------------------------------------------------
\* Policing starts here: the firmware has consumed CMD_TRIGGER_INTERRUPT and
\* filled the channel words with acknowledgements, and the cores are running.
\* The counters 28-31 are written by nobody before that, so they hold what the
\* hardware or the previous run left in them.
InitWith(initThrottled) ==
    /\ word = [c \in Cores |-> "ack"]
    /\ traffic = [c \in Cores |-> 0]
    /\ throttled = initThrottled
    /\ sent = [c \in Cores |-> 0]
    /\ pending = [c \in Cores |-> FALSE]
    /\ at \in [Cores -> Positions]
    /\ hpc = [c \in Cores |-> "none"]
    /\ counterVal = [c \in Cores |-> "zero"]
    /\ saved = [c \in Cores |-> Zero]
    /\ paused = [c \in Cores |-> FALSE]
    /\ received = [c \in Cores |-> 0]
    /\ fpc = "read"
    /\ idx = 0
    /\ fwV = 0
    /\ token = [c \in Cores |-> 0]

\* after power-on: the hardware counters are zero
Init == InitWith([c \in Cores |-> FALSE])

\* after an earlier run
RerunInit == \E t \in [Cores -> BOOLEAN] : InitWith(t)

-----------------------------------------------------------------------------
\* Definitions named X_Mutation are what a plausible bug would make of X; no
\* specification uses them.

\* Counts of interrupts wrap like uint32_t.
Inc_Mutation(n) == n + 1
Inc(n) == IF n = MaxCount THEN 0 ELSE n + 1

\* token += B * P - V, capped at w * P * B
Cap == W * Refill
Charge_Mutation(t, v) == IF t - v > Cap THEN Cap ELSE t - v
Charge(t, v) == IF t + Refill - v > Cap THEN Cap ELSE t + Refill - v

\* The core has acted on the last command.
Acked_Mutation(c) == TRUE
Acked(c) == word[c] = "ack"

\* A write of a word with the overflow bit set raises the core's interrupt. A
\* PLIC gateway that does not hold requests may drop one raised during service.
Raise(c) ==
    \/ pending' = [pending EXCEPT ![c] = TRUE]
    \/ Lossy /\ hpc[c] # "none" /\ UNCHANGED pending

\* The latched overflow may raise the interrupt again.
Refire(c) ==
    /\ Spurious
    /\ ~pending[c]
    /\ pending' = [pending EXCEPT ![c] = TRUE]
    /\ UNCHANGED <<word, traffic, coreVars, firmwareVars>>

-----------------------------------------------------------------------------
\* The poll loop of the firmware, for core idx.

FwNext == idx' = (IF idx = NumCores - 1 THEN 0 ELSE idx + 1) /\ fpc' = "read"

\* READ_MEM of the core's four traffic counters
FwRead ==
    /\ fpc = "read"
    /\ fwV' = traffic[idx]
    /\ fpc' = "reset"
    /\ UNCHANGED <<channel, traffic, coreVars, idx, token, throttled, sent>>

\* cnt_wr of zero to them: what came after the read is lost. Then charge and cap.
FwReset ==
    /\ fpc = "reset"
    /\ traffic' = [traffic EXCEPT ![idx] = 0]
    /\ token' = [token EXCEPT ![idx] = Charge(@, fwV)]
    /\ fwV' = 0   \* V is not used again
    /\ fpc' = "check"
    /\ UNCHANGED <<channel, coreVars, idx, throttled, sent>>

FwCheck ==
    /\ fpc = "check"
    /\ UNCHANGED <<channel, traffic, coreVars, fwV, token, throttled, sent>>
    /\ \/ /\ Acked(idx) /\ token[idx] < 0 /\ ~throttled[idx]
          /\ fpc' = "send_pause" /\ idx' = idx
       \/ /\ Acked(idx) /\ token[idx] >= 0 /\ throttled[idx]
          /\ fpc' = "send_resume" /\ idx' = idx
       \/ /\ ~Acked(idx) \/ (token[idx] < 0) = throttled[idx]
          /\ FwNext

\* cnt_wr of the command to the channel word
FwSend(command, from, to) ==
    /\ fpc = from
    /\ word' = [word EXCEPT ![idx] = command]
    /\ Raise(idx)
    /\ fpc' = to
    /\ UNCHANGED <<traffic, coreVars, idx, fwV, token, throttled, sent>>

FwSendPause == FwSend("pause", "send_pause", "mark_pause")
FwSendResume == FwSend("resume", "send_resume", "mark_resume")

\* cnt_wr of the throttle state and of the count of interrupts sent
FwMark ==
    /\ fpc \in {"mark_pause", "mark_resume"}
    /\ throttled' = [throttled EXCEPT ![idx] = (fpc = "mark_pause")]
    /\ sent' = [sent EXCEPT ![idx] = Inc(@)]
    /\ FwNext
    /\ UNCHANGED <<channel, traffic, coreVars, fwV, token>>

Firmware == FwRead \/ FwReset \/ FwCheck \/ FwSendPause \/ FwSendResume \/ FwMark

-----------------------------------------------------------------------------
\* Core c executes its own program and causes traffic.
Work(c) ==
    /\ hpc[c] = "none"
    /\ at[c] \in Positions
    /\ \E p \in Positions : at' = [at EXCEPT ![c] = p]
    /\ \E v \in Costs :
          /\ traffic[c] + v <= MaxTraffic
          /\ token[c] - traffic[c] - v >= -MaxOverdraft
          /\ traffic' = [traffic EXCEPT ![c] = @ + v]
    /\ UNCHANGED <<channel, firmwareVars, hpc, counterVal, saved, paused, received>>

\* handle_trap_c: trap, claim and count
HClaim(c) ==
    /\ hpc[c] = "none"
    /\ at[c] # Zero
    /\ pending[c]
    /\ pending' = [pending EXCEPT ![c] = FALSE]
    /\ received' = [received EXCEPT ![c] = Inc(@)]
    /\ hpc' = [hpc EXCEPT ![c] = "read"]
    /\ UNCHANGED <<word, traffic, firmwareVars, at, counterVal, saved, paused>>

\* read the channel word
HRead(c) ==
    /\ hpc[c] = "read"
    /\ counterVal' = [counterVal EXCEPT ![c] = word[c]]
    /\ hpc' = [hpc EXCEPT ![c] = "switch"]
    /\ UNCHANGED <<channel, traffic, firmwareVars, at, saved, paused, received>>

\* neither the resume bit nor the acknowledge bit: park in wfi_loop
IsPause_Mutation(v) == v # "resume"
IsPause(v) == v \in {"zero", "pause"}

HPause(c) ==
    /\ hpc[c] = "switch"
    /\ IsPause(counterVal[c])
    /\ saved' = [saved EXCEPT ![c] = at[c]]
    /\ at' = [at EXCEPT ![c] = Wfi]
    /\ paused' = [paused EXCEPT ![c] = TRUE]
    /\ hpc' = [hpc EXCEPT ![c] = "ack"]
    /\ UNCHANGED <<channel, traffic, firmwareVars, counterVal, received>>

\* the resume bit: continue at the saved address
HResume(c) ==
    /\ hpc[c] = "switch"
    /\ counterVal[c] = "resume"
    /\ at' = [at EXCEPT ![c] = saved[c]]
    /\ paused' = [paused EXCEPT ![c] = FALSE]
    /\ hpc' = [hpc EXCEPT ![c] = "ack"]
    /\ UNCHANGED <<channel, traffic, firmwareVars, counterVal, saved, received>>

\* only the acknowledge bit: nothing to do
HIgnore(c) ==
    /\ hpc[c] = "switch"
    /\ counterVal[c] = "ack"
    /\ hpc' = [hpc EXCEPT ![c] = "complete"]
    /\ UNCHANGED <<channel, traffic, firmwareVars, at, counterVal, saved, paused, received>>

\* write_32b of CVA_ACK_MASK
HAck_Mutation(c) ==
    /\ hpc[c] = "ack"
    /\ word' = IF paused[c] THEN [word EXCEPT ![c] = "ack"] ELSE word
    /\ hpc' = [hpc EXCEPT ![c] = "complete"]
    /\ UNCHANGED <<pending, traffic, firmwareVars, at, counterVal, saved, paused, received>>

HAck(c) ==
    /\ hpc[c] = "ack"
    /\ word' = [word EXCEPT ![c] = "ack"]
    /\ hpc' = [hpc EXCEPT ![c] = "complete"]
    /\ UNCHANGED <<pending, traffic, firmwareVars, at, counterVal, saved, paused, received>>

\* plic_complete and mret
HComplete(c) ==
    /\ hpc[c] = "complete"
    /\ hpc' = [hpc EXCEPT ![c] = "none"]
    /\ UNCHANGED <<channel, traffic, firmwareVars, at, counterVal, saved, paused, received>>

Handler(c) == HClaim(c) \/ HRead(c) \/ HPause(c) \/ HResume(c) \/ HIgnore(c)
              \/ HAck(c) \/ HComplete(c)

-----------------------------------------------------------------------------
Next == Firmware \/ \E c \in Cores : Work(c) \/ Handler(c) \/ Refire(c)

Spec == Init /\ [][Next]_vars
RerunSpec == RerunInit /\ [][Next]_vars

\* The PMU runs nothing but the poll loop, and interrupts stay enabled on the
\* cores: neither the loop nor a handler stops for ever. The cores' own work
\* and the latch need not make any step.
Fairness == WF_vars(Firmware) /\ \A c \in Cores : WF_vars(Handler(c))

FairSpec == Spec /\ Fairness

-----------------------------------------------------------------------------
(***************************************************************************)
(* Properties                                                              *)
(***************************************************************************)
\* What the firmware last decided for core c, also before counter 28 + c says so.
Decided(c) ==
    IF idx = c /\ fpc = "mark_pause" THEN TRUE
    ELSE IF idx = c /\ fpc = "mark_resume" THEN FALSE
    ELSE throttled[c]

\* Whenever the word carries the acknowledgement, the firmware's throttle state
\* (counter 28 + c, 0 = running, 1 = throttled) and the core's own g_paused
\* agree, however the poll loop and the handler interleave: the next command is
\* never chosen for a state the core is not in.
ThrottleAgreement == \A c \in Cores : word[c] = "ack" => Decided(c) = paused[c]

\* mret always returns to the core's own program or to wfi_loop, to the latter
\* exactly when g_paused is set, and then g_saved_mepc is a point of the program:
\* no pause saves wfi_loop itself, no resume takes an address never saved.
SafeReturn ==
    \A c \in Cores :
        /\ at[c] # Zero
        /\ paused[c] <=> at[c] = Wfi
        /\ paused[c] => saved[c] \in Positions

\* A command disappears from the channel word only when the core replaces it by
\* the acknowledgement, and the core has obeyed it by then: the firmware never
\* overwrites a command, and no acknowledgement is given for a later one.
CommandsObeyed ==
    [][\A c \in Cores :
          word[c] # "ack" /\ word'[c] # word[c]
             => word'[c] = "ack" /\ paused[c] = (word[c] = "pause")]_vars

\* The inductive invariant behind the safety properties: how the word, the
\* firmware's decision, g_paused, the handler's position and its copy of the
\* word, and a decision about to be sent are tied together for core c.
CoreInv(c) ==
    /\ word[c] # "zero"
    /\ at[c] # Zero
    /\ paused[c] <=> at[c] = Wfi
    /\ paused[c] => saved[c] \in Positions
    /\ word[c] = "ack" => hpc[c] # "ack" /\ Decided(c) = paused[c]
    /\ word[c] = "pause" => Decided(c) /\ (paused[c] <=> hpc[c] = "ack")
    /\ word[c] = "resume" => ~Decided(c) /\ (paused[c] <=> hpc[c] # "ack")
    /\ hpc[c] = "switch" => counterVal[c] \in {"ack", word[c]}
    /\ idx = c /\ fpc = "send_pause" => word[c] = "ack" /\ ~throttled[c]
    /\ idx = c /\ fpc = "send_resume" => word[c] = "ack" /\ throttled[c]

HandshakeInv == \A c \in Cores : CoreInv(c)

\* Without spurious or dropped interrupts the handler runs once per command:
\* the firmware's IRQs sent and the core's IRQs received differ by the one that
\* is pending.
IrqAccounting ==
    ~Spurious /\ ~Lossy =>
        \A c \in Cores :
            LET sentNow == IF idx = c /\ fpc \in {"mark_pause", "mark_resume"}
                           THEN Inc(sent[c]) ELSE sent[c]
            IN  sentNow = IF pending[c] THEN Inc(received[c]) ELSE received[c]

\* Without spurious or dropped interrupts the type handle_trap_c logs for an
\* interrupt before it has read the word (g_paused ? resume : pause) is the
\* type of the command it then finds.
IrqLogTruthful ==
    ~Spurious /\ ~Lossy =>
        \A c \in Cores :
            hpc[c] = "read" => word[c] = IF paused[c] THEN "resume" ELSE "pause"

\* A paused core is resumed: its bucket refills while it causes no traffic, and
\* neither the command nor the acknowledgement gets stuck.
PausedResumes == \A c \in Cores : paused[c] ~> ~paused[c]

\* A core in overdraft is paused, unless its bucket recovers by itself.
OverdraftPauses == \A c \in Cores : token[c] < 0 ~> paused[c] \/ token[c] >= 0

\* The abstract view: a core is paused from the moment its handler has switched
\* to wfi_loop; its order is the command it has not acted on; its program is
\* where it executes or, while it is parked, where it was interrupted.
absMode == [c \in Cores |-> IF paused[c] THEN "paused" ELSE "running"]
absOrder == [c \in Cores |->
                IF word[c] = "pause" /\ ~paused[c] THEN "pause"
                ELSE IF word[c] = "resume" /\ paused[c] THEN "resume"
                ELSE "none"]
absPos == [c \in Cores |-> IF paused[c] THEN saved[c] ELSE at[c]]

Abs == INSTANCE CoreThrottle WITH mode <- absMode, order <- absOrder, pos <- absPos

\* Every step of the poll loop and the handlers is a step of CoreThrottle or
\* leaves it alone.
AbsSpec == Abs!Spec

\* and every order is obeyed and every paused core is told to resume
AbsFairSpec == Abs!FairSpec
=============================================================================
