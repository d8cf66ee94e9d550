------------------------ MODULE TrafficMeter_proofs -------------------------
(***************************************************************************)
(* Proofs about TrafficMeter: no access is charged twice, the stages never *)
(* report an access from before, and the token bucket and the cycle counts *)
(* are exact although their arithmetic wraps.                              *)
(***************************************************************************)
EXTENDS TrafficMeter, TLAPS

-----------------------------------------------------------------------------
\* Two numbers of one width that differ by a multiple of it are equal.
LEMMA SameResidue ==
    ASSUME NEW width \in Nat \ {0}, NEW a \in 0 .. width - 1,
           NEW b \in 0 .. width - 1, NEW k \in Int, a = b + k * width
    PROVE  a = b
<1>1. CASE k = 0
  BY <1>1
<1>2. CASE k >= 1
  <2>1. k * width >= width
    BY <1>2
  <2>2. QED
    BY <2>1
<1>3. CASE k <= -1
  <2>1. k * width <= -width
    BY <1>3
  <2>2. QED
    BY <2>1
<1>4. QED
  BY <1>1, <1>2, <1>3

\* What is left of a number after multiples of the width are added.
LEMMA Residue ==
    ASSUME NEW width \in Nat \ {0}, NEW z \in 0 .. width - 1, NEW k \in Int
    PROVE  (z + k * width) % width = z
<1> DEFINE m == z + k * width
<1> DEFINE q == m \div width
<1>1. m \in Int
  OBVIOUS
<1>2. m = width * q + (m % width) /\ q \in Int /\ m % width \in 0 .. width - 1
  BY <1>1
<1>3. m % width = z + (k - q) * width
  <2>1. width * q \in Int /\ k * width \in Int /\ (k - q) * width = k * width - width * q
    BY <1>2
  <2>2. QED
    BY <1>2, <2>1
<1>4. k - q \in Int
  BY <1>2
<1> HIDE DEF q, m
<1>5. m % width = z
  BY <1>2, <1>3, <1>4, SameResidue
<1>6. QED
  BY <1>5 DEF m

-----------------------------------------------------------------------------
\* The conversion to int32_t gives an int32_t that differs by a multiple of 2^32,
LEMMA SignedCongruent ==
    ASSUME NEW n \in Int
    PROVE  /\ Signed(n) \in -HalfWord .. HalfWord - 1
           /\ \E k \in Int : Signed(n) = n + k * (2 * HalfWord)
<1> DEFINE width == 2 * HalfWord
<1>1. width \in Nat \ {0} /\ HalfWord \in Nat \ {0}
  BY MeterAssumption DEF Cap
<1>2. n + HalfWord \in Int
  BY <1>1
<1> DEFINE q == (n + HalfWord) \div width
<1>3. /\ n + HalfWord = width * q + ((n + HalfWord) % width)
      /\ q \in Int
      /\ (n + HalfWord) % width \in 0 .. width - 1
  <2> HIDE DEF width
  <2>1. QED
    BY <1>1, <1>2
<1>4. -q \in Int /\ (-q) * width = -(width * q) /\ width * q \in Int
  <2> HIDE DEF q
  <2>1. QED
    BY <1>1, <1>3
<1>5. Signed(n) = n + (-q) * width
  <2> HIDE DEF q
  <2>1. QED
    BY <1>1, <1>3, <1>4 DEF Signed
<1>6. Signed(n) \in -HalfWord .. HalfWord - 1
  <2> HIDE DEF q
  <2>1. QED
    BY <1>1, <1>3 DEF Signed
<1>7. QED
  BY <1>4, <1>5, <1>6

\* and a number in the range of an int32_t is what its residue converts to.
LEMMA SignedExact ==
    ASSUME NEW n \in -HalfWord .. HalfWord - 1, NEW k \in Int
    PROVE  Signed(n + k * (2 * HalfWord)) = n
<1>1. 2 * HalfWord \in Nat \ {0} /\ HalfWord \in Nat \ {0}
  BY MeterAssumption DEF Cap
<1>2. n + HalfWord \in 0 .. (2 * HalfWord) - 1
  BY <1>1
<1>3. ((n + HalfWord) + k * (2 * HalfWord)) % (2 * HalfWord) = n + HalfWord
  BY <1>1, <1>2, Residue
<1>4. k * (2 * HalfWord) \in Int
  BY <1>1
<1>5. (n + k * (2 * HalfWord)) + HalfWord = (n + HalfWord) + k * (2 * HalfWord)
  BY <1>1, <1>4
<1>6. QED
  BY <1>1, <1>3, <1>5 DEF Signed

\* One update of the bucket is exact when the exact bucket fits, whatever the
\* size of V.
LEMMA BucketStep ==
    ASSUME NEW t \in Int, NEW v \in Int,
           t + Refill - v \in -HalfWord .. HalfWord - 1
    PROVE  Bucket(t, v) = Capped(t + Refill - v)
<1>1. Refill \in Nat /\ 2 * HalfWord \in Nat /\ Signed(v) \in Int
  BY MeterAssumption, SignedCongruent
<1>2. PICK k \in Int : Signed(v) = v + k * (2 * HalfWord)
  BY SignedCongruent
<1>3. -k \in Int /\ (-k) * (2 * HalfWord) = -(k * (2 * HalfWord)) /\ k * (2 * HalfWord) \in Int
  BY <1>1
<1>4. t + Refill - Signed(v) = (t + Refill - v) + (-k) * (2 * HalfWord)
  BY <1>1, <1>2, <1>3
<1>5. Signed(t + Refill - Signed(v)) = t + Refill - v
  BY <1>3, <1>4, SignedExact
<1>6. QED
  BY <1>5 DEF Bucket

-----------------------------------------------------------------------------
\* A bucket is an int32_t.
LEMMA BucketType ==
    ASSUME NEW t \in Int, NEW v \in Int
    PROVE  Bucket(t, v) \in -HalfWord .. HalfWord - 1 /\ Bucket(t, v) <= Cap
<1>1. Refill \in Nat /\ Cap \in Nat /\ Cap < HalfWord /\ HalfWord \in Nat
  BY MeterAssumption DEF Cap
<1>2. Signed(v) \in Int
  BY <1>1, SignedCongruent
<1>3. t + Refill - Signed(v) \in Int
  BY <1>1, <1>2
<1>4. Signed(t + Refill - Signed(v)) \in -HalfWord .. HalfWord - 1
  BY <1>3, SignedCongruent
<1>5. QED
  BY <1>1, <1>4 DEF Bucket, Capped

\* The weighted traffic is a natural number.
LEMMA TrafficType ==
    ASSUME NEW counts \in [Groups -> Nat]
    PROVE  Traffic(counts) \in Nat
<1>1. /\ counts[1] \in Nat /\ counts[2] \in Nat /\ counts[3] \in Nat /\ counts[4] \in Nat
      /\ Weight[1] \in Nat /\ Weight[2] \in Nat /\ Weight[3] \in Nat /\ Weight[4] \in Nat
  BY MeterAssumption DEF Groups
<1>2. /\ Weight[1] * counts[1] \in Nat /\ Weight[2] * counts[2] \in Nat
      /\ Weight[3] * counts[3] \in Nat /\ Weight[4] * counts[4] \in Nat
  BY <1>1
<1>3. QED
  BY <1>2 DEF Traffic

\* Sums and differences of counts and times.
LEMMA Sums ==
    /\ \A m, n \in Nat : m + n \in Nat
    /\ \A m, n \in Int : m - n \in Int
    /\ \A n \in Nat : n + 1 \in Nat
  OBVIOUS

\* The coordinates of a counter, and the counters of core 0.
LEMMA CounterParts ==
    /\ \A k \in Counters : k[1] \in Groups /\ k[2] \in Cores /\ k = <<k[1], k[2]>>
    /\ \A g \in Groups, c \in Cores : <<g, c>> \in Counters
    /\ 0 \in Cores
  BY MeterAssumption DEF Counters, Cores

\* Every variable keeps its type.
THEOREM Typing == Spec => []TypeOK
<1>1. Init => TypeOK
  BY MeterAssumption DEF Init, TypeOK, Counters, Cores, Groups, NoCounts, Blank, Record,
     Decisions, FirmwareSteps, Cap
<1>2. TypeOK /\ [Next]_vars => TypeOK'
  <2> SUFFICES ASSUME TypeOK, [Next]_vars PROVE TypeOK'
    OBVIOUS
  <2> USE DEF TypeOK, firmwareVars, logVars, stageVars, fwHistory
  <2>1. CASE FwRead
    <3>1. cnt[<<group, idx>>] \in Nat
      BY DEF Counters
    <3>2. snap' \in [Groups -> Nat]
      BY <2>1, <3>1 DEF FwRead
    <3>3. group' \in Groups /\ fpc' \in FirmwareSteps \ {"log_token", "log_count"}
      BY <2>1 DEF FwRead, NextGroup, Groups, FirmwareSteps
    <3>4. QED
      BY <2>1, <3>2, <3>3 DEF FwRead
  <2>2. CASE FwReset
    <3>1. group' \in Groups /\ fpc' \in FirmwareSteps \ {"log_token", "log_count"}
      BY <2>2 DEF FwReset, NextGroup, Groups, FirmwareSteps
    <3>2. QED
      BY <2>2, <3>1 DEF FwReset
  <2>3. CASE FwCharge
    <3>1. PICK acked \in BOOLEAN :
            LET t == Bucket(token[idx], Traffic(snap))
                d == Decided(acked, t, throttled[idx])
                exact == truth[idx] + Refill - Traffic(snap)
            IN  /\ token' = [token EXCEPT ![idx] = t]
                /\ throttled' = IF d = "none" THEN throttled
                                ELSE [throttled EXCEPT ![idx] = (d = "pause")]
                /\ decision' = IF idx = 0 THEN d ELSE decision
                /\ sane' = [sane EXCEPT ![idx] = @ /\ exact >= -HalfWord]
                /\ truth' = [truth EXCEPT ![idx] =
                                IF ~sane'[idx] THEN 0
                                ELSE IF exact > Cap THEN Cap ELSE exact]
                /\ polled' = IF idx = 0 /\ logged < MaxLog
                             THEN Append(polled, [counts |-> snap, decision |-> d,
                                                  token |-> t])
                             ELSE polled
      BY <2>3 DEF FwCharge
    <3> DEFINE t == Bucket(token[idx], Traffic(snap))
    <3> DEFINE d == Decided(acked, t, throttled[idx])
    <3> DEFINE exact == truth[idx] + Refill - Traffic(snap)
    <3>2. Traffic(snap) \in Nat
      BY TrafficType
    <3>3. t \in -HalfWord .. HalfWord - 1 /\ t \in Int
      <4>1. token[idx] \in Int /\ HalfWord \in Nat
        BY MeterAssumption
      <4>2. QED
        BY <3>2, <4>1, BucketType
    <3>4. d \in Decisions
      BY DEF Decided, Decisions
    <3>5. exact \in Int /\ Cap \in Int
      BY <3>2, MeterAssumption DEF Cap
    <3> HIDE DEF t, d, exact
    <3>6. token' \in [Cores -> -HalfWord .. HalfWord - 1]
      BY <3>1, <3>3 DEF t
    <3>7. throttled' \in [Cores -> BOOLEAN] /\ decision' \in Decisions
      BY <3>1, <3>4 DEF d, t
    <3>8. sane' \in [Cores -> BOOLEAN]
      BY <3>1 DEF exact
    <3>9. truth' \in [Cores -> Int]
      BY <3>1, <3>5 DEF exact
    <3>10. polled' \in Seq(Record)
      <4>1. [counts |-> snap, decision |-> d, token |-> t] \in Record
        BY <3>3, <3>4 DEF Record
      <4>2. QED
        BY <3>1, <4>1 DEF d, t
    <3>11. charged' \in [Counters -> Nat]
      <4>1. ASSUME NEW k \in Counters PROVE charged[k] + snap[k[1]] \in Nat
        <5>1. k[1] \in Groups
          BY CounterParts
        <5>2. charged[k] \in Nat /\ snap[k[1]] \in Nat
          BY <5>1
        <5>3. QED
          BY <5>2, Sums, Zenon
      <4>2. QED
        BY <2>3, <4>1 DEF FwCharge
    <3>12. /\ snap' \in [Groups -> Nat] /\ idx' \in Cores
           /\ fpc' \in FirmwareSteps \ {"log_token", "log_count"}
      BY <2>3, MeterAssumption DEF FwCharge, NoCounts, Cores, FirmwareSteps
    <3>13. QED
      BY <2>3, <3>6, <3>7, <3>8, <3>9, <3>10, <3>11, <3>12 DEF FwCharge
  <2>4. CASE FwLogCounts
    <3>1. Saturated(saved) \in [Groups -> Nat]
      BY MeterAssumption DEF Saturated
    <3>2. logMem' \in [1 .. MaxLog -> Record]
      <4>1. CASE logged < MaxLog
        <5>1. \A r \in Record : [r EXCEPT !.counts = Saturated(saved)] \in Record
          BY <3>1 DEF Record
        <5>2. logged + 1 \in 1 .. MaxLog
          BY <4>1, MeterAssumption
        <5>3. logMem' = [logMem EXCEPT ![logged + 1] =
                            [logMem[logged + 1] EXCEPT !.counts = Saturated(saved)]]
          BY <2>4, <4>1 DEF FwLogCounts
        <5>4. QED
          BY <5>1, <5>2, <5>3
      <4>2. CASE ~(logged < MaxLog)
        BY <2>4, <4>2 DEF FwLogCounts
      <4>3. QED
        BY <4>1, <4>2
    <3>3. decision' \in Decisions /\ fpc' \in FirmwareSteps
          /\ (fpc' \in {"log_token", "log_count"} => logged < MaxLog)
      BY <2>4 DEF FwLogCounts, FirmwareSteps, Decisions
    <3>4. QED
      BY <2>4, <3>2, <3>3 DEF FwLogCounts
  <2>5. CASE FwLogToken
    <3>1. token[0] \in Int /\ Kept(token[0]) \in Int
      <4>1. token[0] \in -HalfWord .. HalfWord - 1
        BY CounterParts, Zenon
      <4>2. token[0] \in Int
        BY <4>1, MeterAssumption
      <4>3. \A t \in Int : Kept(t) \in Int
        BY MeterAssumption DEF Kept
      <4>4. QED
        BY <4>2, <4>3, Zenon
    <3>2. logMem' \in [1 .. MaxLog -> Record]
      BY <2>5, <3>1 DEF FwLogToken, Record
    <3>3. QED
      BY <2>5, <3>2 DEF FwLogToken, FirmwareSteps
  <2>6. CASE FwLogCount
    <3>1. logged < MaxLog /\ MaxLog \in Nat
      BY <2>6, MeterAssumption DEF FwLogCount
    <3>2. logged' \in 0 .. MaxLog /\ logCount' \in 0 .. MaxLog
      BY <2>6, <3>1 DEF FwLogCount
    <3>3. fpc' \in FirmwareSteps \ {"log_token", "log_count"} /\ decision' \in Decisions
      BY <2>6 DEF FwLogCount, FirmwareSteps, Decisions
    <3>4. QED
      BY <2>6, <3>2, <3>3 DEF FwLogCount
  <2>7. CASE StageReset
    <3>1. sg' \in Groups /\ sg' \in 1 .. 5 /\ spc' \in {"work", "reset"}
      BY <2>7 DEF StageReset, Groups
    <3>2. cnt' \in [Counters -> Nat] /\ since' \in [Groups -> Nat]
      BY <2>7 DEF StageReset
    <3>3. spc # "halted" /\ stage' = stage
      BY <2>7 DEF StageReset
    <3>4. QED
      BY <2>7, <3>1, <3>2, <3>3 DEF StageReset
  <2>8. CASE StageWorked
    <3>1. PICK began, beganHigh, ended, endedHigh \in 0 .. MaxTime :
            /\ began <= beganHigh /\ beganHigh <= ended /\ ended <= endedHigh
            /\ elapsed' = ended - began
            /\ cyc' = Cycles(PmuTimer(began, beganHigh), PmuTimer(ended, endedHigh))
      BY <2>8 DEF StageWorked
    <3>2. elapsed' \in Nat
      BY <3>1, MeterAssumption
    <3>3. \A lo, hi \in 0 .. MaxTime : PmuTimer(lo, hi) \in Int
      BY MeterAssumption DEF PmuTimer
    <3>4. cyc' \in 0 .. HalfTimer - 1
      <4>1. PmuTimer(ended, endedHigh) - PmuTimer(began, beganHigh) \in Int
        BY <3>1, <3>3, Sums, Zenon
      <4>2. \A x \in Int : x % HalfTimer \in 0 .. HalfTimer - 1
        BY MeterAssumption
      <4>3. QED
        BY <3>1, <4>1, <4>2 DEF Cycles
    <3>5. QED
      BY <2>8, <3>2, <3>4 DEF StageWorked
  <2>9. CASE StageReport
    <3>1. cnt[<<sg, 0>>] \in Nat
      BY <2>9, CounterParts DEF StageReport
    <3>2. sg' \in 1 .. 5 /\ spc = "report" /\ spc' = "report"
      BY <2>9 DEF StageReport, Groups
    <3>3. buf' \in [Groups -> Nat]
      BY <2>9, <3>1 DEF StageReport
    <3>4. QED
      BY <2>9, <3>2, <3>3 DEF StageReport
  <2>10. CASE StageEnd
    <3>1. stage' \in 0 .. Iterations /\ (spc' # "halted" => stage' < Iterations)
      BY <2>10, MeterAssumption DEF StageEnd
    <3>2. sg' \in 1 .. 5 /\ sg' \in Groups
      BY <2>10 DEF StageEnd, Groups
    <3>3. spc' \in {"reset", "work", "report", "halted"}
      BY <2>10 DEF StageEnd
    <3>4. QED
      BY <2>10, <3>1, <3>2, <3>3 DEF StageEnd
  <2>11. ASSUME NEW k \in Kinds, Access(k[1], k[2]) PROVE TypeOK'
    <3>1. k \in Counters /\ k[1] \in Groups /\ <<k[1], k[2]>> \in Counters
      BY CounterParts, MeterAssumption
    <3>2. cnt' \in [Counters -> Nat] /\ caused' \in [Counters -> Nat]
      <4>1. \A j \in Counters : cnt[j] \in Nat /\ cnt[j] + 1 \in Nat
        BY Sums, Zenon
      <4>2. caused[<<k[1], k[2]>>] + 1 \in Nat
        BY <3>1, Sums, Zenon
      <4>3. QED
        BY <2>11, <3>1, <4>1, <4>2 DEF Access
    <3>3. since' \in [Groups -> Nat]
      <4>1. since[k[1]] + 1 \in Nat
        BY <3>1, Sums, Zenon
      <4>2. QED
        BY <2>11, <3>1, <4>1 DEF Access
    <3>4. made' \in 0 .. MaxAccesses
      <4>1. MaxAccesses \in Nat /\ made < MaxAccesses /\ made' = made + 1
        BY <2>11, MeterAssumption DEF Access
      <4>2. QED
        BY <4>1
    <3>5. QED
      BY <2>11, <3>2, <3>3, <3>4 DEF Access
  <2>12. CASE UNCHANGED vars
    BY <2>12 DEF vars
  <2>13. QED
    BY <2>1, <2>2, <2>3, <2>4, <2>5, <2>6, <2>7, <2>8, <2>9, <2>10, <2>11, <2>12
       DEF Next, Firmware, Stage
<1>3. QED
  BY <1>1, <1>2, PTL DEF Spec

-----------------------------------------------------------------------------
\* Between two rounds of reads or resets the loop over the groups is at its start.
LoopInv == fpc \notin {"read", "reset"} => group = 1

LEMMA Looping == Spec => []LoopInv
<1>1. Init => LoopInv
  BY DEF Init, LoopInv
<1>2. TypeOK /\ LoopInv /\ [Next]_vars => LoopInv'
  <2> SUFFICES ASSUME TypeOK, LoopInv, [Next]_vars PROVE LoopInv'
    OBVIOUS
  <2>1. CASE FwRead
    BY <2>1 DEF FwRead, NextGroup, LoopInv
  <2>2. CASE FwReset
    BY <2>2 DEF FwReset, NextGroup, LoopInv
  <2>3. CASE FwCharge \/ FwLogCounts \/ FwLogToken \/ FwLogCount
    BY <2>3 DEF FwCharge, FwLogCounts, FwLogToken, FwLogCount, LoopInv
  <2>4. CASE Stage \/ \E k \in Kinds : Access(k[1], k[2])
    BY <2>4 DEF Stage, StageReset, StageWorked, StageReport, StageEnd, Access,
       firmwareVars, LoopInv
  <2>5. CASE UNCHANGED vars
    BY <2>5 DEF vars, firmwareVars, LoopInv
  <2>6. QED
    BY <2>1, <2>2, <2>3, <2>4, <2>5 DEF Next, Firmware
<1>3. QED
  BY <1>1, <1>2, Typing, PTL DEF Spec

\* The account of a counter: it moves with the accesses it counts, stands still
\* when the firmware works on it, misses what falls into the firmware's window,
\* and shrinks only for core 0.
Balanced(g, c) == Accounted(g, c)' = Accounted(g, c) /\ CausedFor(g, c)' = CausedFor(g, c)
Erased(g, c) ==
    c = 0 /\ Accounted(g, c)' <= Accounted(g, c) /\ CausedFor(g, c)' = CausedFor(g, c)
Counted(g, c) ==
    Accounted(g, c)' = Accounted(g, c) + 1 /\ CausedFor(g, c)' = CausedFor(g, c) + 1
Missed(g, c) ==
    /\ Seen(g, c) /\ ~Cleared(g, c)
    /\ Accounted(g, c)' = Accounted(g, c) /\ CausedFor(g, c)' = CausedFor(g, c) + 1

LEMMA AccountType ==
    ASSUME TypeOK, NEW g \in Groups, NEW c \in Cores
    PROVE  /\ cnt[<<g, c>>] \in Nat /\ charged[<<g, c>>] \in Nat /\ snap[g] \in Nat
           /\ Accounted(g, c) \in Nat /\ CausedFor(g, c) \in Nat
<1>1. cnt[<<g, c>>] \in Nat /\ charged[<<g, c>>] \in Nat /\ snap[g] \in Nat
  BY CounterParts DEF TypeOK
<1>2. CausedFor(g, c) \in Nat
  BY CounterParts DEF TypeOK, CausedFor
<1>3. Accounted(g, c) \in Nat
  BY <1>1 DEF Accounted
<1>4. QED
  BY <1>1, <1>2, <1>3

LEMMA Account ==
    ASSUME TypeOK, LoopInv, [Next]_vars, NEW g \in Groups, NEW c \in Cores
    PROVE  Balanced(g, c) \/ Erased(g, c) \/ Counted(g, c) \/ Missed(g, c)
<1>0. /\ cnt[<<g, c>>] \in Nat /\ charged[<<g, c>>] \in Nat /\ snap[g] \in Nat
      /\ group \in Groups /\ <<g, c>> \in Counters
  BY CounterParts, AccountType DEF TypeOK
<1> USE CounterParts
<1>1. CASE FwRead
  <2>1. /\ fpc = "read" /\ snap' = [snap EXCEPT ![group] = cnt[<<group, idx>>]]
        /\ group' = IF group = 4 THEN 1 ELSE group + 1
        /\ fpc' = IF group = 4 THEN "reset" ELSE fpc
        /\ UNCHANGED <<cnt, idx, charged, caused>>
    BY <1>1 DEF FwRead, NextGroup, fwHistory
  <2>2. snap'[g] = IF g = group THEN cnt[<<g, idx>>] ELSE snap[g]
    BY <2>1 DEF TypeOK
  <2>3. /\ Seen(g, c)' <=> (Seen(g, c) \/ (idx = c /\ g = group))
        /\ g = group => ~Seen(g, c)
        /\ ~Cleared(g, c) /\ ~Cleared(g, c)'
    BY <1>0, <2>1 DEF Groups, Seen, Cleared
  <2>4. Accounted(g, c)' = Accounted(g, c)
    <3>1. CASE idx = c /\ g = group
      BY <1>0, <2>1, <2>2, <2>3, <3>1 DEF Accounted
    <3>2. CASE ~(idx = c /\ g = group)
      <4>1. Seen(g, c) => snap'[g] = snap[g]
        BY <2>2, <3>2 DEF Seen
      <4>2. QED
        BY <1>0, <2>1, <2>3, <3>2, <4>1 DEF Accounted
    <3>3. QED
      BY <3>1, <3>2
  <2>5. QED
    BY <2>1, <2>4 DEF Balanced, CausedFor
<1>2. CASE FwReset
  <2>1. /\ fpc = "reset" /\ cnt' = [cnt EXCEPT ![<<group, idx>>] = 0]
        /\ group' = IF group = 4 THEN 1 ELSE group + 1
        /\ fpc' = IF group = 4 THEN "charge" ELSE fpc
        /\ UNCHANGED <<snap, idx, charged, caused>>
    BY <1>2 DEF FwReset, NextGroup, fwHistory
  <2>2. cnt'[<<g, c>>] = IF g = group /\ idx = c THEN 0 ELSE cnt[<<g, c>>]
    BY <2>1 DEF TypeOK
  <2>3. /\ Seen(g, c)' <=> idx = c
        /\ Seen(g, c) <=> idx = c
        /\ Cleared(g, c)' <=> (Cleared(g, c) \/ g = group)
    BY <1>0, <2>1 DEF Groups, Seen, Cleared
  <2>4. Accounted(g, c)' = Accounted(g, c)
    <3>1. CASE idx = c /\ g = group
      <4>1. ~Cleared(g, c)
        BY <2>1, <3>1, <1>0 DEF Cleared, Groups
      <4>2. QED
        BY <1>0, <2>1, <2>2, <2>3, <3>1, <4>1 DEF Accounted
    <3>2. CASE ~(idx = c /\ g = group)
      BY <1>0, <2>1, <2>2, <2>3, <3>2 DEF Accounted
    <3>3. QED
      BY <3>1, <3>2
  <2>5. QED
    BY <2>1, <2>4 DEF Balanced, CausedFor
<1>3. CASE FwCharge
  <2>1. /\ fpc = "charge" /\ snap' = NoCounts
        /\ charged' = [k \in Counters |->
                          IF k[2] = idx THEN charged[k] + snap[k[1]] ELSE charged[k]]
        /\ fpc' \in {"read", "log_counts"}
        /\ UNCHANGED <<cnt, group, caused>>
    BY <1>3 DEF FwCharge
  <2>2. charged'[<<g, c>>] = IF c = idx THEN charged[<<g, c>>] + snap[g] ELSE charged[<<g, c>>]
    BY <2>1
  <2>3. ~Seen(g, c)' /\ (Seen(g, c) <=> idx = c) /\ Cleared(g, c)
    BY <1>0, <2>1 DEF Groups, Seen, Cleared, LoopInv
  <2>4. Accounted(g, c)' = Accounted(g, c)
    BY <1>0, <2>1, <2>2, <2>3 DEF Accounted
  <2>5. QED
    BY <2>1, <2>4 DEF Balanced, CausedFor
<1>4. CASE FwLogCounts \/ FwLogToken \/ FwLogCount
  <2>1. /\ fpc \notin {"read", "reset", "charge"} /\ fpc' \notin {"reset", "charge"}
        /\ UNCHANGED <<cnt, group, idx, snap, charged, caused>>
    BY <1>4 DEF FwLogCounts, FwLogToken, FwLogCount, fwHistory
  <2>2. ~Seen(g, c)' /\ ~Seen(g, c)
    BY <1>0, <2>1 DEF Groups, Seen, LoopInv
  <2>3. QED
    BY <2>1, <2>2 DEF Balanced, Accounted, CausedFor
<1>5. CASE StageReset
  <2>1. /\ cnt' = [cnt EXCEPT ![<<sg, 0>>] = 0]
        /\ UNCHANGED <<fpc, group, idx, snap, charged, caused>>
    BY <1>5 DEF StageReset, firmwareVars, fwHistory
  <2>2. cnt'[<<g, c>>] = IF g = sg /\ c = 0 THEN 0 ELSE cnt[<<g, c>>]
    BY <2>1 DEF TypeOK
  <2>3. Seen(g, c)' = Seen(g, c) /\ Cleared(g, c)' = Cleared(g, c)
    BY <2>1 DEF Seen, Cleared
  <2>4. CASE c = 0
    <3>1. Accounted(g, c)' <= Accounted(g, c)
      BY <1>0, <2>1, <2>2, <2>3 DEF Accounted
    <3>2. QED
      BY <2>1, <2>4, <3>1 DEF Erased, CausedFor
  <2>5. CASE c # 0
    BY <2>1, <2>2, <2>3, <2>5 DEF Balanced, Accounted, CausedFor
  <2>6. QED
    BY <2>4, <2>5
<1>6. CASE StageWorked \/ StageReport \/ StageEnd \/ UNCHANGED vars
  <2>1. UNCHANGED <<cnt, fpc, group, idx, snap, charged, caused>>
    BY <1>6 DEF StageWorked, StageReport, StageEnd, vars, firmwareVars, fwHistory
  <2>2. QED
    BY <2>1 DEF Balanced, Accounted, CausedFor, Seen, Cleared
<1>7. ASSUME NEW k \in Kinds, Access(k[1], k[2])
      PROVE  Balanced(g, c) \/ Counted(g, c) \/ Missed(g, c)
  <2>1. /\ caused' = [caused EXCEPT ![<<k[1], k[2]>>] = @ + 1]
        /\ cnt' = [j \in Counters |->
                      IF j[1] = k[1] /\ Selected(k[1], j[2]) = k[2] THEN cnt[j] + 1
                      ELSE cnt[j]]
        /\ UNCHANGED <<fpc, group, idx, snap, charged>>
    BY <1>7 DEF Access, firmwareVars, fwHistory
  <2>2. k[1] \in Groups /\ k[2] \in Cores /\ <<k[1], k[2]>> \in Counters
    BY MeterAssumption
  <2>3. Seen(g, c)' = Seen(g, c) /\ Cleared(g, c)' = Cleared(g, c)
    BY <2>1 DEF Seen, Cleared
  <2>4. CASE g = k[1] /\ Selected(g, c) = k[2]
    <3>1. cnt'[<<g, c>>] = cnt[<<g, c>>] + 1
      BY <2>1, <2>4
    <3>2. CausedFor(g, c)' = CausedFor(g, c) + 1
      BY <2>1, <2>2, <2>4 DEF CausedFor, TypeOK
    <3>3. CASE Seen(g, c) /\ ~Cleared(g, c)
      <4>1. Accounted(g, c)' = Accounted(g, c)
        BY <2>1, <2>3, <3>3 DEF Accounted
      <4>2. QED
        BY <3>2, <3>3, <4>1 DEF Missed
    <3>4. CASE ~(Seen(g, c) /\ ~Cleared(g, c))
      <4>1. Accounted(g, c)' = Accounted(g, c) + 1
        BY <1>0, <2>1, <2>3, <3>1, <3>4 DEF Accounted
      <4>2. QED
        BY <3>2, <4>1 DEF Counted
    <3>5. QED
      BY <3>3, <3>4
  <2>5. CASE ~(g = k[1] /\ Selected(g, c) = k[2])
    <3>1. cnt'[<<g, c>>] = cnt[<<g, c>>]
      BY <2>1, <2>5
    <3>2. CausedFor(g, c)' = CausedFor(g, c)
      BY <2>1, <2>2, <2>5 DEF CausedFor, TypeOK
    <3>3. QED
      BY <2>1, <2>3, <3>1, <3>2 DEF Balanced, Accounted
  <2>6. QED
    BY <2>4, <2>5
<1>8. QED
  BY <1>1, <1>2, <1>3, <1>4, <1>5, <1>6, <1>7 DEF Next, Firmware, Stage

\* No access is charged twice or invented, wherever the resets of firmware and
\* core 0 fall.
THEOREM NoDoubleCharge == Spec => []ChargedOnce
<1>1. Init => ChargedOnce
  <2> SUFFICES ASSUME Init, NEW g \in Groups, NEW c \in Cores
               PROVE  Accounted(g, c) <= CausedFor(g, c)
    BY DEF ChargedOnce
  <2>1. charged[<<g, c>>] = 0 /\ cnt[<<g, c>>] = 0 /\ snap[g] = 0
    BY CounterParts DEF Init, NoCounts
  <2>2. CausedFor(g, c) = 0
    BY CounterParts DEF Init, CausedFor
  <2>3. QED
    BY <2>1, <2>2 DEF Accounted
<1>2. TypeOK /\ TypeOK' /\ LoopInv /\ ChargedOnce /\ [Next]_vars => ChargedOnce'
  <2> SUFFICES ASSUME TypeOK, TypeOK', LoopInv, ChargedOnce, [Next]_vars,
                      NEW g \in Groups, NEW c \in Cores
               PROVE  Accounted(g, c)' <= CausedFor(g, c)'
    BY DEF ChargedOnce
  <2>1. Accounted(g, c) <= CausedFor(g, c)
    BY DEF ChargedOnce
  <2>2. Accounted(g, c) \in Nat /\ CausedFor(g, c) \in Nat
    BY AccountType
  <2>3. Accounted(g, c)' \in Nat /\ CausedFor(g, c)' \in Nat
    <3>1. cnt'[<<g, c>>] \in Nat /\ charged'[<<g, c>>] \in Nat /\ snap'[g] \in Nat
      BY CounterParts DEF TypeOK
    <3>2. CausedFor(g, c)' \in Nat
      BY CounterParts DEF TypeOK, CausedFor
    <3>3. QED
      BY <3>1, <3>2 DEF Accounted
  <2>4. Balanced(g, c) \/ Erased(g, c) \/ Counted(g, c) \/ Missed(g, c)
    BY Account
  <2>5. QED
    BY <2>1, <2>2, <2>3, <2>4 DEF Balanced, Erased, Counted, Missed
<1>3. QED
  BY <1>1, <1>2, Typing, Looping, PTL DEF Spec

\* A worker's accesses escape only between the read and the reset of the counter.
THEOREM OnlyTheWindow == Spec => LossOnlyInWindow
<1>1. TypeOK /\ LoopInv /\ [Next]_vars
        => [\A g \in Groups, c \in Cores \ {0} :
              CausedFor(g, c) - Accounted(g, c) # (CausedFor(g, c) - Accounted(g, c))'
                 => Seen(g, c) /\ ~Cleared(g, c)]_vars
  <2> SUFFICES ASSUME TypeOK, LoopInv, [Next]_vars,
                      NEW g \in Groups, NEW c \in Cores \ {0}, ~Missed(g, c)
               PROVE  CausedFor(g, c)' - Accounted(g, c)' = CausedFor(g, c) - Accounted(g, c)
    BY DEF Missed
  <2>1. Accounted(g, c) \in Nat /\ CausedFor(g, c) \in Nat
    BY AccountType
  <2>2. Balanced(g, c) \/ Counted(g, c)
    BY Account DEF Erased
  <2>3. QED
    BY <2>1, <2>2 DEF Balanced, Counted
<1>2. QED
  BY <1>1, Typing, Looping, PTL DEF Spec, LossOnlyInWindow

-----------------------------------------------------------------------------
\* What the buffers hold of counters core 0 has reset in this iteration.
StageInv ==
    /\ spc = "work" => sg = 1
    /\ \A g \in Groups :
        /\ (spc = "reset" /\ g < sg) \/ spc \in {"work", "report"}
              => cnt[<<g, 0>>] <= since[g]
        /\ spc = "report" /\ g < sg => buf[g] <= since[g]

\* The stages never report an access from before their own reset.
THEOREM NeverOverReports == Spec => []StageNeverOverReports
<1>1. Init => StageInv
  BY DEF Init, StageInv, Groups
<1>2. TypeOK /\ StageInv /\ [Next]_vars => StageInv'
  <2> SUFFICES ASSUME TypeOK, StageInv, [Next]_vars, NEW g \in Groups
               PROVE  /\ spc' = "work" => sg' = 1
                      /\ (spc' = "reset" /\ g < sg') \/ spc' \in {"work", "report"}
                            => cnt'[<<g, 0>>] <= since'[g]
                      /\ spc' = "report" /\ g < sg' => buf'[g] <= since'[g]
    BY DEF StageInv, Groups
  <2>0. /\ cnt[<<g, 0>>] \in Nat /\ since[g] \in Nat /\ buf[g] \in Nat
        /\ <<g, 0>> \in Counters /\ sg \in 1 .. 5 /\ (spc # "report" => sg \in Groups)
    BY CounterParts DEF TypeOK
  <2>1. /\ spc = "work" => sg = 1
        /\ (spc = "reset" /\ g < sg) \/ spc \in {"work", "report"}
              => cnt[<<g, 0>>] <= since[g]
        /\ spc = "report" /\ g < sg => buf[g] <= since[g]
    BY DEF StageInv
  <2>2. CASE FwReset
    <3>1. /\ cnt' = [cnt EXCEPT ![<<group, idx>>] = 0]
          /\ UNCHANGED <<spc, sg, buf, since>>
      BY <2>2 DEF FwReset, stageVars
    <3>2. cnt'[<<g, 0>>] = IF g = group /\ idx = 0 THEN 0 ELSE cnt[<<g, 0>>]
      BY <2>0, <3>1 DEF TypeOK
    <3>3. QED
      BY <2>0, <2>1, <3>1, <3>2
  <2>3. CASE FwRead \/ FwCharge \/ FwLogCounts \/ FwLogToken \/ FwLogCount
    BY <2>1, <2>3 DEF FwRead, FwCharge, FwLogCounts, FwLogToken, FwLogCount, stageVars
  <2>4. CASE StageReset
    <3>1. /\ spc = "reset" /\ sg \in Groups
          /\ cnt' = [cnt EXCEPT ![<<sg, 0>>] = 0]
          /\ since' = [since EXCEPT ![sg] = 0]
          /\ sg' = IF sg = 4 THEN 1 ELSE sg + 1
          /\ spc' = IF sg = 4 THEN "work" ELSE "reset"
      BY <2>0, <2>4 DEF StageReset
    <3>2. /\ cnt'[<<g, 0>>] = IF g = sg THEN 0 ELSE cnt[<<g, 0>>]
          /\ since'[g] = IF g = sg THEN 0 ELSE since[g]
      BY <2>0, <3>1 DEF TypeOK
    <3>3. QED
      BY <2>0, <2>1, <3>1, <3>2 DEF Groups
  <2>5. CASE StageWorked
    <3>1. /\ spc = "work" /\ spc' = "report" /\ sg \in Groups
          /\ UNCHANGED <<cnt, sg, buf, since>>
      BY <2>0, <2>5 DEF StageWorked
    <3>2. sg = 1
      BY <2>1, <3>1
    <3>3. QED
      BY <2>0, <2>1, <3>1, <3>2 DEF Groups
  <2>6. CASE StageReport
    <3>1. /\ spc = "report" /\ spc' = "report" /\ sg \in Groups
          /\ buf' = [buf EXCEPT ![sg] = cnt[<<sg, 0>>]]
          /\ sg' = sg + 1
          /\ UNCHANGED <<cnt, since>>
      BY <2>6 DEF StageReport
    <3>2. buf'[g] = IF g = sg THEN cnt[<<g, 0>>] ELSE buf[g]
      BY <3>1 DEF TypeOK
    <3>3. QED
      BY <2>0, <2>1, <3>1, <3>2 DEF Groups
  <2>7. CASE StageEnd
    BY <2>0, <2>7 DEF StageEnd, Groups
  <2>8. ASSUME NEW k \in Kinds, Access(k[1], k[2])
        PROVE  /\ spc' = "work" => sg' = 1
               /\ (spc' = "reset" /\ g < sg') \/ spc' \in {"work", "report"}
                     => cnt'[<<g, 0>>] <= since'[g]
               /\ spc' = "report" /\ g < sg' => buf'[g] <= since'[g]
    <3>1. /\ cnt' = [j \in Counters |->
                       IF j[1] = k[1] /\ Selected(k[1], j[2]) = k[2] THEN cnt[j] + 1
                       ELSE cnt[j]]
          /\ since' = IF k[2] = 0 THEN [since EXCEPT ![k[1]] = @ + 1] ELSE since
          /\ UNCHANGED <<spc, sg, buf>>
      BY <2>8 DEF Access, stageVars
    <3>2. Selected(k[1], 0) = 0
      BY DEF Selected
    <3>3. cnt'[<<g, 0>>] = IF g = k[1] /\ k[2] = 0 THEN cnt[<<g, 0>>] + 1 ELSE cnt[<<g, 0>>]
      BY <2>0, <3>1, <3>2
    <3>4. since'[g] = IF g = k[1] /\ k[2] = 0 THEN since[g] + 1 ELSE since[g]
      BY <3>1 DEF TypeOK
    <3>5. QED
      BY <2>0, <2>1, <3>1, <3>3, <3>4
  <2>9. CASE UNCHANGED vars
    BY <2>1, <2>9 DEF vars, stageVars
  <2>10. QED
    BY <2>2, <2>3, <2>4, <2>5, <2>6, <2>7, <2>8, <2>9 DEF Next, Firmware, Stage
<1>3. StageInv => StageNeverOverReports
  BY DEF StageInv, StageNeverOverReports
<1>4. QED
  BY <1>1, <1>2, <1>3, Typing, PTL DEF Spec

-----------------------------------------------------------------------------
\* A torn read of the timer is a multiple of 2^32 away from the time of its low
\* half, so the truncated difference is exact.
LEMMA TornDifference ==
    ASSUME NEW t0 \in Nat, NEW h0 \in Nat, NEW t1 \in Nat, NEW h1 \in Nat,
           t1 - t0 \in 0 .. HalfTimer - 1
    PROVE  Cycles(PmuTimer(t0, h0), PmuTimer(t1, h1)) = t1 - t0
<1>0. HalfTimer \in Nat \ {0}
  BY MeterAssumption
<1>1. \A t, h \in Nat : \E k \in Int : PmuTimer(t, h) = t + k * HalfTimer
  <2> SUFFICES ASSUME NEW t \in Nat, NEW h \in Nat
               PROVE  \E k \in Int : PmuTimer(t, h) = t + k * HalfTimer
    OBVIOUS
  <2>1. t = HalfTimer * (t \div HalfTimer) + (t % HalfTimer)
    BY <1>0
  <2>2. t \div HalfTimer \in Int /\ h \div HalfTimer \in Int /\ t % HalfTimer \in Int
    BY <1>0
  <2> DEFINE a == h \div HalfTimer
  <2> DEFINE b == t \div HalfTimer
  <2>3. PmuTimer(t, h) = a * HalfTimer + (t % HalfTimer)
    BY DEF PmuTimer
  <2> HIDE DEF a, b
  <2>4. t % HalfTimer = t - HalfTimer * b
    <3>1. HalfTimer * b \in Int
      BY <1>0, <2>2 DEF b
    <3>2. QED
      BY <2>1, <2>2, <3>1 DEF b
  <2>5. a \in Int /\ b \in Int
    BY <2>2 DEF a, b
  <2>6. PmuTimer(t, h) = t + (a - b) * HalfTimer
    BY <1>0, <2>3, <2>4, <2>5
  <2>7. a - b \in Int
    BY <2>5
  <2>8. QED
    BY <2>6, <2>7
<1>2. PICK k0 \in Int : PmuTimer(t0, h0) = t0 + k0 * HalfTimer
  BY <1>1
<1>3. PICK k1 \in Int : PmuTimer(t1, h1) = t1 + k1 * HalfTimer
  BY <1>1
<1>4. PmuTimer(t1, h1) - PmuTimer(t0, h0) = (t1 - t0) + (k1 - k0) * HalfTimer
  BY <1>0, <1>2, <1>3
<1>5. ((t1 - t0) + (k1 - k0) * HalfTimer) % HalfTimer = t1 - t0
  <2>1. k1 - k0 \in Int
    OBVIOUS
  <2>2. QED
    BY <1>0, <2>1, Residue
<1>6. QED
  BY <1>4, <1>5 DEF Cycles

\* The cycles of an iteration are exact below 2^32 although the reads may tear.
THEOREM CyclesExact == Spec => []ElapsedExact
<1>1. Init => ElapsedExact
  BY DEF Init, ElapsedExact
<1>2. TypeOK /\ ElapsedExact /\ [Next]_vars => ElapsedExact'
  <2> SUFFICES ASSUME TypeOK, ElapsedExact, [Next]_vars PROVE ElapsedExact'
    OBVIOUS
  <2>1. CASE FwRead \/ FwReset \/ FwCharge \/ FwLogCounts \/ FwLogToken \/ FwLogCount
    BY <2>1 DEF FwRead, FwReset, FwCharge, FwLogCounts, FwLogToken, FwLogCount,
       stageVars, ElapsedExact
  <2>2. CASE StageReset \/ StageEnd
    BY <2>2 DEF StageReset, StageEnd, ElapsedExact
  <2>3. CASE StageWorked
    <3>1. PICK began, beganHigh, ended, endedHigh \in 0 .. MaxTime :
            /\ began <= beganHigh /\ beganHigh <= ended /\ ended <= endedHigh
            /\ elapsed' = ended - began
            /\ cyc' = Cycles(PmuTimer(began, beganHigh), PmuTimer(ended, endedHigh))
      BY <2>3 DEF StageWorked
    <3>2. /\ began \in Nat /\ beganHigh \in Nat /\ ended \in Nat /\ endedHigh \in Nat
          /\ ended - began \in Nat /\ HalfTimer \in Nat
      BY <3>1, MeterAssumption
    <3>3. ended - began < HalfTimer => cyc' = elapsed'
      BY <3>1, <3>2, TornDifference
    <3>4. QED
      BY <3>1, <3>3 DEF ElapsedExact
  <2>4. CASE StageReport
    BY <2>4 DEF StageReport, ElapsedExact
  <2>5. ASSUME NEW k \in Kinds, Access(k[1], k[2]) PROVE ElapsedExact'
    BY <2>5 DEF Access, stageVars, ElapsedExact
  <2>6. CASE UNCHANGED vars
    BY <2>6 DEF vars, stageVars, ElapsedExact
  <2>7. QED
    BY <2>1, <2>2, <2>3, <2>4, <2>5, <2>6 DEF Next, Firmware, Stage
<1>3. QED
  BY <1>1, <1>2, Typing, PTL DEF Spec

-----------------------------------------------------------------------------
\* The bucket and the number it stands for, below the cap.
BucketInv == \A c \in Cores : sane[c] => token[c] = truth[c] /\ truth[c] <= Cap

\* The 32-bit bucket is exact as long as the exact one fits.
THEOREM BucketNeverDrifts == Spec => []BucketExact
<1>0. Refill \in Nat /\ Cap \in Nat /\ HalfWord \in Nat /\ Cap + Refill < HalfWord
  BY MeterAssumption DEF Cap
<1>1. Init => BucketInv
  BY <1>0 DEF Init, BucketInv
<1>2. TypeOK /\ BucketInv /\ [Next]_vars => BucketInv'
  <2> SUFFICES ASSUME TypeOK, BucketInv, [Next]_vars PROVE BucketInv'
    OBVIOUS
  <2>1. CASE FwCharge
    <3> DEFINE v == Traffic(snap)
    <3> DEFINE exact == truth[idx] + Refill - v
    <3>1. /\ token' = [token EXCEPT ![idx] = Bucket(token[idx], v)]
          /\ sane' = [sane EXCEPT ![idx] = @ /\ exact >= -HalfWord]
          /\ truth' = [truth EXCEPT ![idx] = IF ~sane'[idx] THEN 0
                                            ELSE IF exact > Cap THEN Cap ELSE exact]
      BY <2>1 DEF FwCharge
    <3>2. v \in Nat /\ truth[idx] \in Int /\ token[idx] \in Int /\ idx \in Cores
      <4>1. /\ snap \in [Groups -> Nat] /\ idx \in Cores /\ truth \in [Cores -> Int]
            /\ token \in [Cores -> -HalfWord .. HalfWord - 1]
        BY DEF TypeOK
      <4>2. v \in Nat
        BY <4>1, TrafficType
      <4>3. token[idx] \in -HalfWord .. HalfWord - 1
        BY <4>1
      <4>4. token[idx] \in Int
        BY <1>0, <4>3
      <4>5. QED
        BY <4>1, <4>2, <4>4
    <3> HIDE DEF v
    <3>3. ASSUME sane'[idx]
          PROVE  token'[idx] = truth'[idx] /\ truth'[idx] <= Cap
      <4>1. sane[idx] /\ exact >= -HalfWord
        BY <3>1, <3>2, <3>3 DEF TypeOK
      <4>2. token[idx] = truth[idx] /\ truth[idx] <= Cap
        BY <3>2, <4>1 DEF BucketInv
      <4>3. exact \in -HalfWord .. HalfWord - 1
        BY <1>0, <3>2, <4>1, <4>2
      <4>4. Bucket(token[idx], v) = Capped(exact)
        BY <3>2, <4>2, <4>3, BucketStep
      <4>5. token'[idx] = Capped(exact)
        BY <3>1, <3>2, <4>4 DEF TypeOK
      <4>6. truth'[idx] = IF exact > Cap THEN Cap ELSE exact
        BY <3>1, <3>2, <3>3 DEF TypeOK
      <4>7. QED
        BY <1>0, <4>3, <4>5, <4>6 DEF Capped
    <3>4. ASSUME NEW c \in Cores, c # idx
          PROVE  token'[c] = token[c] /\ truth'[c] = truth[c] /\ sane'[c] = sane[c]
      BY <3>1, <3>4 DEF TypeOK
    <3>5. QED
      BY <3>3, <3>4 DEF BucketInv
  <2>2. CASE FwRead \/ FwReset \/ FwLogCounts \/ FwLogToken \/ FwLogCount
    BY <2>2 DEF FwRead, FwReset, FwLogCounts, FwLogToken, FwLogCount, fwHistory, BucketInv
  <2>3. CASE Stage
    BY <2>3 DEF Stage, StageReset, StageWorked, StageReport, StageEnd, firmwareVars,
       fwHistory, BucketInv
  <2>4. ASSUME NEW k \in Kinds, Access(k[1], k[2]) PROVE BucketInv'
    BY <2>4 DEF Access, firmwareVars, fwHistory, BucketInv
  <2>5. CASE UNCHANGED vars
    BY <2>5 DEF vars, firmwareVars, fwHistory, BucketInv
  <2>6. QED
    BY <2>1, <2>2, <2>3, <2>4, <2>5 DEF Next, Firmware
<1>3. BucketInv => BucketExact
  BY DEF BucketInv, BucketExact
<1>4. QED
  BY <1>1, <1>2, <1>3, Typing, PTL DEF Spec

-----------------------------------------------------------------------------
\* Core 0 has been charged in this iteration, and its record is not complete.
Owing == logged < MaxLog /\ (idx # 0 \/ fpc \in {"log_counts", "log_token", "log_count"})

Packed(r) == [counts |-> Saturated(r.counts), decision |-> r.decision,
              token |-> Kept(r.token)]

\* What the firmware knows of its log: complete records are packed ones, and the
\* values for the next one are kept unchanged until it is written.
LogInv ==
    /\ logCount = logged
    /\ fpc \in {"log_counts", "log_token", "log_count"} => idx = 0
    /\ Len(polled) = IF Owing THEN logged + 1 ELSE logged
    /\ idx = 0 /\ fpc \in {"reset", "charge"} => saved = snap
    /\ Owing => polled[logged + 1] = [counts |-> saved, decision |-> decision,
                                     token |-> token[0]]
    /\ fpc \in {"log_token", "log_count"}
          => logMem[logged + 1].counts = Saturated(saved)
    /\ fpc = "log_count"
          => logMem[logged + 1] = Packed(polled[logged + 1])
    /\ \A i \in 1 .. logged : logMem[i] = Packed(polled[i])

\* 30 bits hold a token of 30 bits.
LEMMA KeptExact ==
    ASSUME NEW t \in -HalfToken .. HalfToken - 1
    PROVE  (IF Kept(t) >= HalfToken THEN Kept(t) - 2 * HalfToken ELSE Kept(t)) = t
<1>1. 2 * HalfToken \in Nat \ {0} /\ HalfToken \in Nat \ {0} /\ t \in Int
  BY MeterAssumption
<1>2. CASE t >= 0
  <2>1. t \in 0 .. (2 * HalfToken) - 1
    BY <1>1, <1>2
  <2>2. (t + 0 * (2 * HalfToken)) % (2 * HalfToken) = t
    BY <1>1, <2>1, Residue
  <2>3. Kept(t) = t
    BY <1>1, <2>2 DEF Kept
  <2>4. QED
    BY <1>1, <2>3
<1>3. CASE t < 0
  <2>1. t + 2 * HalfToken \in 0 .. (2 * HalfToken) - 1
    BY <1>1, <1>3
  <2>2. ((t + 2 * HalfToken) + (-1) * (2 * HalfToken)) % (2 * HalfToken) = t + 2 * HalfToken
    BY <1>1, <2>1, Residue
  <2>3. Kept(t) = t + 2 * HalfToken
    BY <1>1, <2>2 DEF Kept
  <2>4. QED
    BY <1>1, <2>3
<1>4. QED
  BY <1>1, <1>2, <1>3

LEMMA LogKept == Spec => []LogInv
<1>0. MaxLog \in Nat /\ 0 \in Cores
  BY MeterAssumption, CounterParts
<1>1. Init => LogInv
  BY <1>0 DEF Init, LogInv, Owing
<1>2. TypeOK /\ LogInv /\ [Next]_vars => LogInv'
  <2> SUFFICES ASSUME TypeOK, LogInv, [Next]_vars PROVE LogInv'
    OBVIOUS
  <2>0. /\ logged \in Nat /\ logged <= MaxLog /\ polled \in Seq(Record)
        /\ logMem \in [1 .. MaxLog -> Record]
        /\ fpc \in {"log_token", "log_count"} => logged < MaxLog
    BY <1>0 DEF TypeOK
  <2>1. CASE FwRead
    <3>1. /\ fpc = "read" /\ fpc' \in {"read", "reset"}
          /\ saved' = IF idx = 0 /\ group = 4 THEN snap' ELSE saved
          /\ fpc' = "reset" => group = 4
          /\ idx # 0 => saved' = saved
          /\ UNCHANGED <<idx, decision, token, logged, logCount, logMem, polled>>
      BY <2>1 DEF FwRead, NextGroup, logVars, fwHistory
    <3>2. Owing' <=> Owing
      BY <3>1 DEF Owing
    <3>3. Owing => idx # 0
      BY <3>1 DEF Owing
    <3>4. QED
      BY <3>1, <3>2, <3>3 DEF LogInv, Packed
  <2>2. CASE FwReset
    <3>1. /\ fpc = "reset" /\ fpc' \in {"reset", "charge"}
          /\ UNCHANGED <<idx, snap, saved, decision, token, logged, logCount, logMem,
                         polled>>
      BY <2>2 DEF FwReset, NextGroup, logVars, fwHistory
    <3>2. Owing' <=> Owing
      BY <3>1 DEF Owing
    <3>3. QED
      BY <3>1, <3>2 DEF LogInv, Packed
  <2>3. CASE FwCharge
    <3>1. PICK acked \in BOOLEAN :
            LET t == Bucket(token[idx], Traffic(snap))
                d == Decided(acked, t, throttled[idx])
            IN  /\ token' = [token EXCEPT ![idx] = t]
                /\ decision' = IF idx = 0 THEN d ELSE decision
                /\ polled' = IF idx = 0 /\ logged < MaxLog
                             THEN Append(polled, [counts |-> snap, decision |-> d,
                                                  token |-> t])
                             ELSE polled
      BY <2>3 DEF FwCharge
    <3>2. /\ fpc = "charge" /\ idx \in Cores
          /\ idx' = IF idx = NumCores - 1 THEN 0 ELSE idx + 1
          /\ fpc' = IF idx < NumCores - 1 THEN "read" ELSE "log_counts"
          /\ UNCHANGED <<saved, logged, logCount, logMem>>
      BY <2>3 DEF FwCharge, logVars, TypeOK
    <3>3. NumCores \in Nat \ {0} /\ idx \in 0 .. NumCores - 1
      BY <3>2, MeterAssumption DEF Cores
    <3>4. /\ fpc' = "log_counts" <=> idx' = 0
          /\ fpc' \in {"read", "log_counts"}
          /\ idx' = 0 \/ idx' # 0
      BY <3>2, <3>3
    <3>5. Owing' <=> logged < MaxLog
      BY <3>2, <3>4 DEF Owing
    <3>6. CASE idx = 0 /\ logged < MaxLog
      <4>1. ~Owing
        BY <3>2, <3>6 DEF Owing
      <4>2. Len(polled) = logged /\ saved = snap
        BY <3>2, <3>6, <4>1 DEF LogInv
      <4>3. \E r : /\ r = [counts |-> saved', decision |-> decision', token |-> token'[0]]
                   /\ polled' = Append(polled, r)
        BY <3>1, <3>2, <3>6, <4>2, <1>0 DEF TypeOK
      <4>4. /\ Len(polled') = logged + 1
            /\ polled'[logged + 1] = [counts |-> saved', decision |-> decision',
                                      token |-> token'[0]]
            /\ \A i \in 1 .. logged : polled'[i] = polled[i]
        BY <2>0, <4>2, <4>3
      <4>5. QED
        BY <2>0, <3>2, <3>4, <3>5, <3>6, <4>4 DEF LogInv, Packed
    <3>7. CASE ~(idx = 0 /\ logged < MaxLog)
      <4>1. polled' = polled /\ (Owing <=> logged < MaxLog)
        BY <3>1, <3>2, <3>7 DEF Owing
      <4>2. idx # 0 => decision' = decision /\ token'[0] = token[0]
        BY <1>0, <3>1 DEF TypeOK
      <4>3. Owing => idx # 0
        BY <3>7, <4>1
      <4>4. QED
        BY <3>2, <3>4, <3>5, <4>1, <4>2, <4>3 DEF LogInv, Packed
    <3>8. QED
      BY <3>6, <3>7
  <2>4. CASE FwLogCounts
    <3>1. /\ fpc = "log_counts"
          /\ UNCHANGED <<idx, snap, saved, token, logged, logCount, polled>>
      BY <2>4 DEF FwLogCounts, fwHistory
    <3>2. idx = 0
      BY <3>1 DEF LogInv
    <3>3. CASE logged < MaxLog
      <4>1. /\ logMem' = [logMem EXCEPT ![logged + 1].counts = Saturated(saved)]
            /\ fpc' = "log_token" /\ decision' = decision
        BY <2>4, <3>3 DEF FwLogCounts
      <4>2. logged + 1 \in 1 .. MaxLog /\ logMem[logged + 1] \in Record
        BY <1>0, <2>0, <3>3
      <4>3. /\ logMem'[logged + 1].counts = Saturated(saved)
            /\ \A i \in 1 .. logged : logMem'[i] = logMem[i]
        BY <2>0, <4>1, <4>2 DEF Record
      <4>4. Owing' /\ Owing
        BY <3>1, <3>3, <4>1 DEF Owing
      <4>5. QED
        BY <3>1, <3>2, <4>1, <4>3, <4>4 DEF LogInv, Packed, Saturated
    <3>4. CASE ~(logged < MaxLog)
      <4>1. fpc' = "read" /\ logMem' = logMem
        BY <2>4, <3>4 DEF FwLogCounts
      <4>2. ~Owing' /\ ~Owing
        BY <3>1, <3>4 DEF Owing
      <4>3. QED
        BY <3>1, <3>2, <4>1, <4>2 DEF LogInv, Packed
    <3>5. QED
      BY <3>3, <3>4
  <2>5. CASE FwLogToken
    <3>1. /\ fpc = "log_token" /\ fpc' = "log_count"
          /\ logMem' = [logMem EXCEPT ![logged + 1] =
                          [counts |-> logMem[logged + 1].counts, decision |-> decision,
                           token |-> Kept(token[0])]]
          /\ UNCHANGED <<idx, snap, saved, decision, token, logged, logCount, polled>>
      BY <2>5 DEF FwLogToken, fwHistory
    <3>2. logged < MaxLog /\ logged + 1 \in 1 .. MaxLog
      BY <1>0, <2>0, <3>1
    <3>3. Owing /\ Owing' /\ idx = 0
      BY <3>1, <3>2 DEF Owing, LogInv
    <3>4. /\ logMem'[logged + 1] = [counts |-> Saturated(saved), decision |-> decision,
                                    token |-> Kept(token[0])]
          /\ \A i \in 1 .. logged : logMem'[i] = logMem[i]
      BY <2>0, <3>1, <3>2 DEF LogInv
    <3>5. polled[logged + 1] = [counts |-> saved, decision |-> decision, token |-> token[0]]
      BY <3>3 DEF LogInv
    <3>6. logMem'[logged + 1] = Packed(polled[logged + 1])
      BY <3>4, <3>5 DEF Packed
    <3>7. logMem'[logged + 1].counts = Saturated(saved)
      BY <3>4
    <3>8. QED
      BY <3>1, <3>3, <3>4, <3>6, <3>7 DEF LogInv, Packed, Saturated
  <2>6. CASE FwLogCount
    <3>1. /\ fpc = "log_count" /\ fpc' = "read"
          /\ logged' = logged + 1 /\ logCount' = logged + 1
          /\ UNCHANGED <<idx, snap, saved, token, logMem, polled>>
      BY <2>6 DEF FwLogCount, fwHistory
    <3>2. Owing /\ ~Owing' /\ idx = 0
      BY <2>0, <3>1 DEF Owing, LogInv
    <3>3. Len(polled) = logged + 1
      BY <3>2 DEF LogInv
    <3>4. \A i \in 1 .. logged + 1 : logMem[i] = Packed(polled[i])
      BY <2>0, <3>1 DEF LogInv
    <3>5. QED
      BY <3>1, <3>2, <3>3, <3>4 DEF LogInv, Packed, Saturated
  <2>7. CASE Stage
    BY <2>7 DEF Stage, StageReset, StageWorked, StageReport, StageEnd, firmwareVars,
       logVars, fwHistory, LogInv, Owing, Packed
  <2>8. ASSUME NEW k \in Kinds, Access(k[1], k[2]) PROVE LogInv'
    BY <2>8 DEF Access, firmwareVars, logVars, fwHistory, LogInv, Owing, Packed
  <2>9. CASE UNCHANGED vars
    BY <2>9 DEF vars, firmwareVars, logVars, fwHistory, LogInv, Owing, Packed
  <2>10. QED
    BY <2>1, <2>2, <2>3, <2>4, <2>5, <2>6, <2>7, <2>8, <2>9 DEF Next, Firmware
<1>3. QED
  BY <1>1, <1>2, Typing, PTL DEF Spec

\* Every entry of the dump is what the firmware did, whenever it is halted.
THEOREM DumpTruthful == Spec => []LogTruthful
<1>1. TypeOK /\ LogInv => LogTruthful
  <2> SUFFICES ASSUME TypeOK, LogInv, NEW i \in 1 .. logCount
               PROVE  /\ i <= Len(polled)
                      /\ Printed(i).decision = polled[i].decision
                      /\ \A g \in Groups :
                            /\ Printed(i).counts[g] <= polled[i].counts[g]
                            /\ polled[i].counts[g] <= CountMax[g]
                                  => Printed(i).counts[g] = polled[i].counts[g]
                      /\ polled[i].token \in -HalfToken .. HalfToken - 1
                            => Printed(i).token = polled[i].token
    BY DEF LogTruthful
  <2>1. /\ logCount = logged /\ logged \in Nat /\ i \in 1 .. logged /\ logged <= MaxLog
        /\ Len(polled) >= logged /\ polled \in Seq(Record)
    BY MeterAssumption DEF LogInv, TypeOK
  <2>2. i \in 1 .. Len(polled) /\ polled[i] \in Record
    BY <2>1
  <2>3. logMem[i] = Packed(polled[i])
    BY <2>1 DEF LogInv
  <2>4. /\ logMem[i].counts = Saturated(polled[i].counts)
        /\ logMem[i].decision = polled[i].decision
        /\ logMem[i].token = Kept(polled[i].token)
    BY <2>3 DEF Packed
  <2>5. /\ Printed(i).counts = logMem[i].counts
        /\ Printed(i).decision = logMem[i].decision
        /\ Printed(i).token = IF logMem[i].token >= HalfToken
                              THEN logMem[i].token - 2 * HalfToken ELSE logMem[i].token
    BY <2>3 DEF Printed, Packed
  <2>6. ASSUME NEW g \in Groups
        PROVE  /\ Printed(i).counts[g] <= polled[i].counts[g]
               /\ polled[i].counts[g] <= CountMax[g]
                     => Printed(i).counts[g] = polled[i].counts[g]
    <3>1. polled[i].counts[g] \in Nat /\ CountMax[g] \in Nat
      BY <2>2, MeterAssumption DEF Record
    <3>2. QED
      BY <2>4, <2>5, <3>1 DEF Saturated
  <2>7. polled[i].token \in -HalfToken .. HalfToken - 1 => Printed(i).token = polled[i].token
    BY <2>4, <2>5, KeptExact
  <2>8. QED
    BY <2>2, <2>4, <2>5, <2>6, <2>7
<1>2. QED
  BY <1>1, Typing, LogKept, PTL
=============================================================================
