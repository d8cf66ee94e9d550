---------------------------- MODULE SadCalls_proofs ----------------------------
(***************************************************************************)
(* Theorems about calls that follow each other without a pause, as those   *)
(* of evu_test do: each lasts for an iteration of the poll loop, the gaps  *)
(* between them may be as short as they like. For any number of calls and  *)
(* passes and any size of the record area every call is counted, and no    *)
(* stretch of time is charged to two of them.                              *)
(*                                                                         *)
(* The firmware may still owe the last exit, and its entry tick may belong *)
(* to the next call already (Behind). So the record of call i begins with  *)
(* its own entry or with the next one, and ends before the exit of the     *)
(* next one (Near).                                                        *)
(***************************************************************************)
EXTENDS SadProfile_proofs

BackToBack == SlowCalls /\ SlowStart
Logging == InPass /\ fpc \in PollSteps

\* all exits are logged, or all but the last
Seen == prevExit = returned
Owes == prevExit + 1 = returned

\* since the last exit no iteration has begun that finds an entry
Before ==
    /\ entered = returned \/ polls = 0
    /\ prevEntry = returned
    /\ \/ fpc = "read_entry" /\ (Seen \/ Owes)
       \/ fpc = "read_exit" /\ curEntry = returned /\ (Seen \/ Owes)
       \/ fpc \in ExitSteps /\ curExit = returned /\ Owes
    /\ polls = 2 \/ (polls = 1 /\ fpc = "read_entry") => Seen

\* an iteration has begun since the last entry
During ==
    /\ entered = returned + 1 /\ polls > 0
    /\ \/ fpc = "read_exit" /\ prevEntry = returned /\ curEntry = entered
             /\ (Seen \/ Owes) /\ polls = 1
       \/ fpc \in {"e_stamp", "e_snap"} /\ prevEntry = returned /\ curEntry = entered
             /\ curExit = returned /\ (Seen \/ Owes) /\ polls = 1
       \/ fpc \in ExitSteps /\ prevEntry = entered /\ curExit = returned /\ Owes
             /\ polls = 1
       \/ fpc = "read_entry" /\ prevEntry = entered /\ Seen
       \/ fpc = "read_exit" /\ prevEntry = entered /\ curEntry = entered /\ Seen
             /\ polls = 2

\* how far the firmware is behind the program
Behind ==
    /\ polls \in 0 .. 2
    /\ BackToBack /\ Logging =>
        /\ entered \in {returned, returned + 1} /\ callCount = prevExit
        /\ Before \/ During

\* the interval measures call i or begins with the entry after it
Close(interval, i) == interval[1] >= 2 * i - 1 /\ interval[2] <= 2 * i + 1

\* the stamps are those of the last entry processed
Stamped ==
    BackToBack /\ Logging =>
        /\ fpc = "e_snap" => mcycleEntry = 2 * entered - 1
        /\ fpc # "e_snap" /\ prevEntry > 0 => mcycleEntry = 2 * prevEntry - 1
        /\ fpc \in ExitSteps \ {"x_stamp"} => Close(rec.cyc, returned)

\* the log has a record for each call logged, close to it
Near ==
    BackToBack /\ Logging =>
        /\ LET logged == callCount + IF fpc = "x_count" THEN 1 ELSE 0
           IN  Len(records) = IF logged <= MaxLogRecords THEN logged ELSE MaxLogRecords
        /\ \A i \in 1 .. Len(records) : Close(records[i].cyc, i)

\* core 0 reads the count when the last call has been logged
Counted ==
    /\ result \in [count : Nat, totals : Int]
    /\ BackToBack /\ SlowEnd =>
        /\ pc \in {"halt_end", "read_count", "read_totals"} =>
              returned = Calls /\ entered = Calls /\ polls = 2 /\ fpc \in PollSteps
        /\ pc \in {"read_totals", "end"} \/ (pc = "halt_end" /\ Program = "evu_test")
              => result.count = Calls

-----------------------------------------------------------------------------
\* The steps that can matter to the log of a pass: what starts it, milestones,
\* the poll loop, and core 0's steps after the last call, which leave it alone.
LEMMA PassSteps ==
  ASSUME LogInv, [Next]_vars, Logging'
  PROVE  \/ CWaitReady \/ FwZero21 \/ CEntry \/ CExit
         \/ PollLoop /\ Logging
         \/ /\ Logging
            /\ UNCHANGED <<entered, returned, polls, cnt20, cnt21, logVars, localVars, fpc>>
<1> USE DEF Logging, InPass, PollSteps, coreVars
<1>1. CASE \/ CSetRunning("halt", "clear", FALSE) \/ CClear \/ CStart \/ CWaitStarted
           \/ CConfigure \/ CTrigger
  BY <1>1 DEF CSetRunning, CClear, CStart, CWaitStarted, CConfigure, CTrigger, Go
<1>2. CASE CSetRunning("halt_end", IF Program = "evu_test" THEN "end" ELSE "read_count", FALSE)
  BY <1>2 DEF CSetRunning, Go
<1>3. CASE CFinish \/ CReadCount \/ CReadTotals
  BY <1>3 DEF CFinish, CReadCount, CReadTotals, Go
<1>4. CASE Boot /\ ~FwZero21
  BY <1>4 DEF Boot, FwCmd, FwClearLog, FwStatus, FwWait, FwZero20, Step
<1>5. CASE PollLoop
  BY <1>5 DEF PollLoop, FwReadEntry, FwReadExit, FwEntryStamp, FwEntrySnap, FwExitStamp,
              FwExitStat, FwTotals, FwRecord, FwCount, Poll, Step
<1>6. CASE UNCHANGED vars
  BY <1>6 DEF vars
<1>. QED
  BY <1>1, <1>2, <1>3, <1>4, <1>5, <1>6 DEF Next, Core, Firmware

\* Behind holds in every reachable state.
THEOREM BehindInductive == Spec => []Behind
<1>1. Init => Behind
  BY DEF Init, Behind, Logging, InPass
<1>2. LogInv /\ Late /\ Idle /\ Behind /\ [Next]_vars => Behind'
  <2> SUFFICES ASSUME LogInv, Late, Idle, Behind, [Next]_vars
               PROVE  Behind'
    OBVIOUS
  <2>1. polls' \in 0 .. 2
    <3>1. polls \in 0 .. 2
      BY DEF Behind
    <3>2. polls' = polls \/ polls' = 0 \/ polls' = IF polls = 2 THEN 2 ELSE polls + 1
      BY DEF Next, Core, Firmware, Boot, PollLoop, CSetRunning, CClear, CStart, CWaitStarted,
             CConfigure, CTrigger, CWaitReady, CEntry, CExit, CFinish, CReadCount, CReadTotals,
             FwCmd, FwClearLog, FwStatus, FwWait, FwZero20, FwZero21, FwReadEntry, FwReadExit,
             FwEntryStamp, FwEntrySnap, FwExitStamp, FwExitStat, FwTotals, FwRecord, FwCount,
             vars, localVars, coreVars
    <3>. QED
      BY <3>1, <3>2
  <2> SUFFICES ASSUME BackToBack, Logging'
               PROVE  /\ (entered \in {returned, returned + 1} /\ callCount = prevExit)'
                      /\ (Before \/ During)'
    BY <2>1 DEF Behind, BackToBack
  <2> USE DEF LogInv, Numbers, Logging, BackToBack, Late, InPass, Behind, Before, During,
              Seen, Owes, ExitSteps, PollSteps
  <2>2. CASE CWaitReady
    BY <2>2 DEF CWaitReady, Go, Idle, Cleared, localVars, logVars
  <2>3. CASE FwZero21
    BY <2>3 DEF FwZero21, Step, coreVars, logVars, Ready, Triggered, Cleared
  <2>4. CASE CEntry
    BY <2>4 DEF CEntry, Elapsed, logVars, localVars
  <2>5. CASE CExit
    BY <2>5 DEF CExit, Elapsed, logVars, localVars
  <2>6. CASE PollLoop /\ Logging
    <3> USE DEF Poll, Step, coreVars, logVars
    <3>1. CASE FwReadEntry
      BY <2>6, <3>1 DEF FwReadEntry
    <3>2. CASE FwReadExit
      BY <2>6, <3>2 DEF FwReadExit, Exit
    <3>3. CASE FwEntryStamp
      BY <2>6, <3>3 DEF FwEntryStamp
    <3>4. CASE FwEntrySnap
      BY <2>6, <3>4 DEF FwEntrySnap, Exit
    <3>5. CASE FwExitStamp
      BY <2>6, <3>5 DEF FwExitStamp
    <3>6. CASE FwExitStat
      BY <2>6, <3>6 DEF FwExitStat
    <3>7. CASE FwTotals
      BY <2>6, <3>7 DEF FwTotals, localVars
    <3>8. CASE FwRecord
      BY <2>6, <3>8 DEF FwRecord, localVars
    <3>9. CASE FwCount
      BY <2>6, <3>9 DEF FwCount
    <3>. QED
      BY <2>6, <3>1, <3>2, <3>3, <3>4, <3>5, <3>6, <3>7, <3>8, <3>9 DEF PollLoop
  <2>7. CASE /\ Logging
             /\ UNCHANGED <<entered, returned, polls, cnt20, cnt21, logVars, localVars, fpc>>
    BY <2>7 DEF logVars, localVars
  <2>. QED
    BY <2>2, <2>3, <2>4, <2>5, <2>6, <2>7, PassSteps
<1>. QED
  BY <1>1, <1>2, LogInductive, LateInductive, IdleInductive, PTL DEF Spec

\* Stamped holds in every reachable state.
THEOREM StampedInductive == Spec => []Stamped
<1>1. Init => Stamped
  BY DEF Init, Stamped, Logging, InPass
<1>2. LogInv /\ Late /\ Idle /\ Typed /\ Behind /\ Stamped /\ [Next]_vars => Stamped'
  <2> SUFFICES ASSUME LogInv, Late, Idle, Typed, Behind, Stamped, [Next]_vars,
                      BackToBack, Logging'
               PROVE  Stamped'
    BY DEF Stamped, BackToBack
  <2> USE DEF Logging, InPass, PollSteps, BackToBack, Stamped, ExitSteps
  <2>1. CASE CWaitReady
    BY <2>1 DEF CWaitReady, Go, Idle, localVars
  <2>2. CASE FwZero21
    BY <2>2 DEF FwZero21, Step, coreVars
  <2>3. CASE CEntry
    BY <2>3 DEF CEntry, localVars, Behind, Before, During
  <2>4. CASE CExit
    <3>1. /\ entered > returned /\ polls = 2 /\ Logging
          /\ UNCHANGED <<entered, fpc, prevEntry, mcycleEntry>>
      BY <2>4 DEF CExit, Elapsed, localVars
    <3>2. fpc \in {"read_entry", "read_exit"}
      BY <3>1 DEF Behind, Before, During, LogInv, Numbers
    <3>. QED
      BY <3>1, <3>2
  <2>5. CASE PollLoop /\ Logging
    <3> USE DEF Poll, Step, coreVars
    <3>1. CASE FwReadEntry
      BY <2>5, <3>1 DEF FwReadEntry
    <3>2. CASE FwReadExit
      BY <2>5, <3>2 DEF FwReadExit, Exit
    <3>3. CASE FwEntryStamp
      BY <2>5, <3>3 DEF FwEntryStamp, now, Behind, Before, During, LogInv, Numbers
    <3>4. CASE FwEntrySnap
      BY <2>5, <3>4 DEF FwEntrySnap, Exit, Behind, Before, During
    <3>5. CASE FwExitStamp
      <4>1. rec'.cyc = <<mcycleEntry, entered + returned>>
        BY <3>5 DEF FwExitStamp, now, Typed, Record
      <4>2. fpc = "x_stamp" /\ fpc' = "x_stat"
            /\ UNCHANGED <<pc, entered, returned, prevEntry, mcycleEntry>>
        BY <3>5 DEF FwExitStamp
      <4>3. /\ prevEntry > 0 /\ mcycleEntry = 2 * prevEntry - 1
            /\ prevEntry >= returned /\ entered <= returned + 1
        BY <2>5, <4>2 DEF Behind, Before, During, Owes, LogInv, Numbers
      <4>4. Close(rec'.cyc, returned')
        BY <4>1, <4>2, <4>3 DEF Close, Behind, Before, During, LogInv, Numbers
      <4>. QED
        BY <2>5, <4>2, <4>3, <4>4
    <3>6. CASE FwExitStat
      <4>1. rec'.cyc = rec.cyc
        BY <3>6 DEF FwExitStat, Typed, Record
      <4>2. fpc = "x_stat" /\ fpc' = "x_totals"
            /\ UNCHANGED <<pc, entered, returned, prevEntry, mcycleEntry>>
        BY <3>6 DEF FwExitStat
      <4>. QED
        BY <2>5, <4>1, <4>2
    <3>7. CASE FwTotals
      BY <2>5, <3>7 DEF FwTotals, localVars
    <3>8. CASE FwRecord
      BY <2>5, <3>8 DEF FwRecord, localVars
    <3>9. CASE FwCount
      BY <2>5, <3>9 DEF FwCount
    <3>. QED
      BY <2>5, <3>1, <3>2, <3>3, <3>4, <3>5, <3>6, <3>7, <3>8, <3>9 DEF PollLoop
  <2>6. CASE /\ Logging
             /\ UNCHANGED <<entered, returned, polls, cnt20, cnt21, logVars, localVars, fpc>>
    BY <2>6 DEF localVars
  <2>. QED
    BY <2>1, <2>2, <2>3, <2>4, <2>5, <2>6, PassSteps
<1>. QED
  BY <1>1, <1>2, LogInductive, LateInductive, IdleInductive, TypedInductive,
     BehindInductive, PTL DEF Spec

\* Near holds in every reachable state.
THEOREM NearInductive == Spec => []Near
<1>1. Init => Near
  BY DEF Init, Near, Logging, InPass
<1>2. LogInv /\ Idle /\ Typed /\ Behind /\ Stamped /\ Near /\ [Next]_vars => Near'
  <2> SUFFICES ASSUME LogInv, Idle, Typed, Behind, Stamped, Near, [Next]_vars,
                      BackToBack, Logging'
               PROVE  Near'
    BY DEF Near, BackToBack
  <2> USE DEF Logging, InPass, PollSteps, BackToBack
  <2> DEFINE Kept == Logging /\ UNCHANGED <<callCount, records>>
                       /\ (fpc = "x_count") = (fpc' = "x_count")
  <2>1. CASE Kept
    BY <2>1 DEF Near
  <2>2. CASE fpc \notin PollSteps \/ CWaitReady
    <3>1. Cleared' /\ fpc' # "x_count"
      BY <2>2, PassSteps DEF CWaitReady, Go, FwZero21, Step, coreVars, logVars, LogInv, Ready,
         Triggered, Cleared, Idle, CEntry, CExit, PollLoop, localVars
    <3>. QED
      BY <3>1, ConstantsAssumption DEF Near, Cleared
  <2>3. CASE CEntry \/ CExit
    BY <2>1, <2>3, <2>2 DEF CEntry, CExit, logVars
  <2>4. CASE PollLoop /\ Logging
    <3> USE DEF Poll, Step, coreVars
    <3>1. CASE FwReadEntry \/ FwReadExit \/ FwEntryStamp \/ FwEntrySnap \/ FwExitStamp
               \/ FwExitStat \/ FwTotals
      BY <2>1, <2>4, <3>1 DEF FwReadEntry, FwReadExit, FwEntryStamp, FwEntrySnap,
         FwExitStamp, FwExitStat, FwTotals, Exit, logVars
    <3>2. CASE FwRecord
      <4>1. /\ fpc = "x_record" /\ fpc' = "x_count" /\ callCount' = callCount
            /\ records' = IF callCount < MaxLogRecords THEN Append(records, rec) ELSE records
        BY <3>2 DEF FwRecord
      <4>2. callCount \in Nat /\ records \in Seq(Record) /\ rec \in Record
        BY DEF LogInv, Numbers, Typed
      <4>3. /\ Len(records) = IF callCount <= MaxLogRecords THEN callCount ELSE MaxLogRecords
            /\ \A i \in 1 .. Len(records) : Close(records[i].cyc, i)
        BY <2>4, <4>1, <4>2, ConstantsAssumption DEF Near
      <4>4. callCount + 1 = returned /\ Close(rec.cyc, callCount + 1)
        BY <2>4, <4>1 DEF Behind, Before, During, Seen, Owes, Stamped, ExitSteps, LogInv, Numbers
      <4>5. CASE callCount < MaxLogRecords
        <5>1. records' = Append(records, rec) /\ Len(records) = callCount
          BY <4>1, <4>2, <4>3, <4>5
        <5>2. /\ Len(records') = callCount + 1
              /\ \A i \in 1 .. callCount + 1 :
                    records'[i] = IF i <= callCount THEN records[i] ELSE rec
          BY <4>2, <5>1
        <5>3. \A i \in 1 .. Len(records') : Close(records'[i].cyc, i)
          BY <4>2, <4>3, <4>4, <5>1, <5>2
        <5>4. callCount + 1 <= MaxLogRecords
          BY <4>2, <4>5, ConstantsAssumption
        <5>. QED
          BY <4>1, <5>2, <5>3, <5>4 DEF Near
      <4>6. CASE ~(callCount < MaxLogRecords)
        <5>1. records' = records /\ Len(records) = MaxLogRecords
          BY <4>1, <4>2, <4>3, <4>6, ConstantsAssumption
        <5>2. Len(records') = IF callCount + 1 <= MaxLogRecords
                              THEN callCount + 1 ELSE MaxLogRecords
          BY <4>2, <4>6, <5>1, ConstantsAssumption
        <5>. QED
          BY <4>1, <4>3, <5>1, <5>2 DEF Near
      <4>. QED
        BY <4>5, <4>6
    <3>3. CASE FwCount
      <4>1. /\ fpc = "x_count" /\ fpc' = "read_entry" /\ callCount' = callCount + 1
            /\ records' = records
        BY <3>3 DEF FwCount
      <4>2. callCount \in Nat
        BY DEF LogInv, Numbers
      <4>. QED
        BY <2>4, <4>1, <4>2 DEF Near
    <3>. QED
      BY <2>4, <3>1, <3>2, <3>3 DEF PollLoop
  <2>5. CASE /\ Logging
             /\ UNCHANGED <<entered, returned, polls, cnt20, cnt21, logVars, localVars, fpc>>
    BY <2>1, <2>5 DEF logVars
  <2>. QED
    BY <2>2, <2>3, <2>4, <2>5, PassSteps DEF FwZero21, Step
<1>. QED
  BY <1>1, <1>2, LogInductive, IdleInductive, TypedInductive, BehindInductive,
     StampedInductive, PTL DEF Spec

\* However closely the calls follow each other, no stretch of time is charged to
\* two of them, if each lasts for an iteration of the poll loop.
THEOREM Disjoint == Spec => [](BackToBack => RecordsDisjoint)
<1>1. LogInv /\ Typed /\ Near => (BackToBack => RecordsDisjoint)
  <2> SUFFICES ASSUME LogInv, Typed, Near, BackToBack, InPass,
                      NEW i \in 2 .. Len(records)
               PROVE  records[i - 1].cyc[2] <= records[i].cyc[1]
    BY DEF RecordsDisjoint
  <2>1. records \in Seq(Record)
    BY DEF Typed
  <2>2. fpc \in PollSteps
    BY DEF LogInv, Ready, Triggered, Cleared
  <2>3. i \in 1 .. Len(records) /\ i - 1 \in 1 .. Len(records)
    BY <2>1
  <2>4. Close(records[i].cyc, i) /\ Close(records[i - 1].cyc, i - 1)
    BY <2>2, <2>3 DEF Near, Logging
  <2>5. records[i].cyc \in Int \X Int /\ records[i - 1].cyc \in Int \X Int
    <3>1. records[i] \in Record /\ records[i - 1] \in Record
      BY <2>1, <2>3
    <3>. QED
      BY <3>1 DEF Record
  <2>. QED
    BY <2>4, <2>5 DEF Close
<1>. QED
  BY <1>1, LogInductive, TypedInductive, NearInductive, PTL

\* Counted holds in every reachable state.
THEOREM CountedInductive == Spec => []Counted
<1>1. Init => Counted
  BY DEF Init, Counted
<1>2. LogInv /\ Late /\ Typed /\ Behind /\ Counted /\ [Next]_vars => Counted'
  <2> SUFFICES ASSUME LogInv, Late, Typed, Behind, Counted, [Next]_vars
               PROVE  Counted'
    OBVIOUS
  <2> USE DEF Counted, BackToBack
  <2>1. CASE \/ CSetRunning("halt", "clear", FALSE) \/ CClear \/ CStart \/ CWaitStarted
             \/ CConfigure \/ CTrigger \/ CWaitReady \/ CEntry \/ CExit
    BY <2>1 DEF CSetRunning, CClear, CStart, CWaitStarted, CConfigure, CTrigger,
                CWaitReady, CEntry, CExit, Go
  <2>2. CASE CFinish
    <3>1. /\ pc = "run" /\ pc' \in {"read_count", "halt_end"}
          /\ Program = "evu_test" => pc' = "read_count"
          /\ returned = Calls /\ (SlowEnd => polls = 2)
          /\ UNCHANGED <<entered, returned, result, polls, fpc>>
      BY <2>2 DEF CFinish, Go, Elapsed
    <3>2. entered = Calls
      BY <3>1, ConstantsAssumption DEF LogInv, Numbers
    <3>3. BackToBack /\ SlowEnd => fpc \in PollSteps
      BY <3>1 DEF LogInv, Ready, InPass, Late
    <3>. QED
      BY <3>1, <3>2, <3>3
  <2>3. CASE CSetRunning("halt_end", IF Program = "evu_test" THEN "end" ELSE "read_count", FALSE)
    BY <2>3 DEF CSetRunning, Go
  <2>4. CASE CReadCount
    <3>1. /\ pc = "read_count" /\ pc' = "read_totals"
          /\ result' = [result EXCEPT !.count = callCount]
          /\ UNCHANGED <<entered, returned, polls, fpc>>
      BY <2>4 DEF CReadCount, Go
    <3>2. BackToBack /\ SlowEnd => callCount = Calls
      BY <3>1, ConstantsAssumption
         DEF Behind, Logging, InPass, Before, During, Seen, LogInv, Numbers
    <3>3. result' \in [count : Nat, totals : Int] /\ result'.count = callCount
      BY <3>1 DEF LogInv, Numbers
    <3>. QED
      BY <3>1, <3>2, <3>3
  <2>5. CASE CReadTotals
    <3>1. /\ pc = "read_totals" /\ pc' \in {"halt_end", "halt", "end"}
          /\ result' = [result EXCEPT !.totals = totals]
          /\ UNCHANGED <<entered, returned, polls, fpc>>
      BY <2>5 DEF CReadTotals
    <3>2. result' \in [count : Nat, totals : Int] /\ result'.count = result.count
      BY <3>1 DEF Typed
    <3>. QED
      BY <3>1, <3>2
  <2>6. CASE Firmware
    <3>1. UNCHANGED coreVars
      BY <2>6 DEF Firmware, Boot, PollLoop, FwCmd, FwClearLog, FwStatus, FwWait, FwZero20,
         FwZero21, FwReadEntry, FwReadExit, FwEntryStamp, FwEntrySnap, FwExitStamp,
         FwExitStat, FwTotals, FwRecord, FwCount, Poll, Step
    <3>2. fpc \in PollSteps => fpc' \in PollSteps /\ (polls = 2 => polls' = 2)
      BY <2>6 DEF Firmware, Boot, PollLoop, FwCmd, FwClearLog, FwStatus, FwWait, FwZero20,
         FwZero21, FwReadEntry, FwReadExit, FwEntryStamp, FwEntrySnap, FwExitStamp,
         FwExitStat, FwTotals, FwRecord, FwCount, Poll, Step, PollSteps, Exit, localVars
    <3>. QED
      BY <3>1, <3>2 DEF coreVars
  <2>7. CASE UNCHANGED vars
    BY <2>7 DEF vars, coreVars
  <2>. QED
    BY <2>1, <2>2, <2>3, <2>4, <2>5, <2>6, <2>7 DEF Next, Core
<1>. QED
  BY <1>1, <1>2, LogInductive, LateInductive, TypedInductive, BehindInductive, PTL DEF Spec

\* However closely the calls follow each other, core 0 has read one logged call
\* per call made when the last pass is over, if each call and the end of the pass
\* last for an iteration of the poll loop.
THEOREM AllCounted == Spec => [](BackToBack /\ SlowEnd => EveryCallCounted)
<1>1. Counted => (BackToBack /\ SlowEnd => EveryCallCounted)
  BY DEF Counted, EveryCallCounted
<1>. QED
  BY <1>1, CountedInductive, PTL

================================================================================
